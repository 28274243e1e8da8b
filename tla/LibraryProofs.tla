---------------------------- MODULE LibraryProofs ---------------------------
(* Proofs about what stands next to libsmbclient: its wrappers (Wrappers,  *)
(* for any number of free descriptors), whose account it is asked with     *)
(* (Accounts, for any records, accounts and bookmarks), and the walk of    *)
(* the key d through the directories it opens (CopyKey, for any trees).    *)
(* At the end all windows side by side (Windows): each of them is there    *)
(* what it is alone.                                                       *)
EXTENDS Windows, WindowProofs, CommanderProofs

(* What the wrapper holds itself: the copies of 1 and 2, and /dev/null.    *)
SilentCalls == {"null", "nulled", "call", "done", "err", "err closed", "out", "out closed"}
Copy(d)  == IF saved[d] = Failed THEN 0 ELSE 1
NullFile == IF call \in SilentCalls THEN 1 ELSE 0

(* No descriptor is lost on the way.                                       *)
Balanced == spare + handles + Copy("err") + Copy("out") + NullFile = room

(* A dup fails only when the table is full, and then it is still full when *)
(* /dev/null is opened: so who gets beyond that has both copies, and each  *)
(* copy is of the terminal until it is closed.                             *)
CopiesFit ==
  /\ call \in {"none", "dup1", "out closed"} => saved["out"] = Failed
  /\ call \in {"none", "err closed", "out", "out closed"} => saved["err"] = Failed
  /\ call \in {"dup1", "dup2"} /\ saved["err"] = Failed => spare = 0
  /\ call = "dup2" /\ saved["out"] = Failed => spare = 0
  /\ call \in {"null", "nulled", "call", "done", "err"} => saved["err"] = "terminal"
  /\ call \in {"null", "nulled", "call", "done", "err", "err closed", "out"}
       => saved["out"] = "terminal"

StdFits ==
  /\ call \in {"none", "dup1", "dup2"} => \A d \in Std : std[d] = "terminal"
  /\ call \in {"err", "err closed", "out", "out closed"} => std["err"] = "terminal"
  /\ call \in {"out", "out closed"} => std["out"] = "terminal"

CountsTyped == spare \in Nat /\ handles \in Nat /\ room \in 0..MaxSpare

WrapperTyped ==
  /\ CountsTyped /\ over \in BOOLEAN
  /\ std \in [Std -> {"terminal", "null"}] /\ saved \in [Std -> {"terminal", Failed}]
  /\ call \in {"none", "dup1", "dup2"} \cup SilentCalls

WrapperInv == WrapperTyped /\ spare <= room /\ handles <= room
              /\ (~over => Balanced /\ CopiesFit /\ StdFits)

LEMMA InitWrapper == WrapperInit => WrapperInv
  <1> SUFFICES ASSUME WrapperInit PROVE WrapperInv
    OBVIOUS
  <1>1. WrapperTyped
    <2>1. CountsTyped
      BY WrapperConstants DEF WrapperInit, CountsTyped
    <2>2. std \in [Std -> {"terminal", "null"}] /\ saved \in [Std -> {"terminal", Failed}]
      BY DEF WrapperInit
    <2> QED BY <2>1, <2>2 DEF WrapperInit, WrapperTyped
  <1>2. saved["out"] = Failed /\ saved["err"] = Failed
    BY DEF WrapperInit, Std
  <1>3. spare \in Nat /\ room = spare /\ handles = 0
    BY WrapperConstants DEF WrapperInit
  <1>4. Balanced
    BY <1>2, <1>3 DEF WrapperInit, Balanced, Copy, NullFile, SilentCalls
  <1>5. CopiesFit /\ StdFits
    BY <1>2 DEF WrapperInit, CopiesFit, StdFits
  <1> QED BY <1>1, <1>3, <1>4, <1>5 DEF WrapperInv

LEMMA StepWrapper ==
  ASSUME WrapperInv, [WrapperNext]_wrapperVars
  PROVE  WrapperInv'
  <1> USE WrapperConstants
  <1>0. /\ "err" \in Std /\ "out" \in Std /\ room \in Nat
        /\ \A d \in Std : d = "err" \/ d = "out"
    BY DEF Std, WrapperInv, WrapperTyped, CountsTyped
  <1>1. CASE Off1
    BY <1>0, <1>1 DEF Off1, Dup, Goes, WrapperInv, WrapperTyped, CountsTyped, Balanced, CopiesFit, StdFits, Copy,
                      NullFile, SilentCalls, Failed
  <1>2. CASE Off2
    BY <1>0, <1>2 DEF Off2, Dup, Goes, WrapperInv, WrapperTyped, CountsTyped, Balanced, CopiesFit, StdFits, Copy,
                      NullFile, SilentCalls, Failed
  <1>3. CASE OpenNull
    <2>1. CASE spare = 0
      BY <1>3, <2>1 DEF OpenNull, Goes, WrapperInv, WrapperTyped, CountsTyped, SilentCalls
    <2>2. CASE spare # 0
      <3>1. /\ call = "dup2" /\ call' = "null" /\ ~over /\ spare' = spare - 1
            /\ UNCHANGED <<over, std, saved, handles, room>>
        BY <1>3, <2>2 DEF OpenNull, Goes
      <3>2. saved["err"] = "terminal" /\ saved["out"] = "terminal"
        BY <1>0, <2>2, <3>1 DEF WrapperInv, WrapperTyped, CountsTyped, CopiesFit
      <3>3. WrapperTyped' /\ CopiesFit' /\ StdFits'
        BY <2>2, <3>1, <3>2 DEF WrapperInv, WrapperTyped, CountsTyped, CopiesFit, StdFits, SilentCalls
      <3>4. Balanced'
        BY <1>0, <2>2, <3>1, <3>2 DEF WrapperInv, WrapperTyped, CountsTyped, Balanced, Copy, NullFile, SilentCalls, Failed
      <3> QED BY <1>0, <2>2, <3>1, <3>3, <3>4 DEF WrapperInv, WrapperTyped, CountsTyped
    <2> QED BY <2>1, <2>2
  <1>4. CASE Off3
    BY <1>0, <1>4 DEF Off3, Silence, Goes, WrapperInv, WrapperTyped, CountsTyped, Balanced, CopiesFit, StdFits, Copy,
                      NullFile, SilentCalls, Failed
  <1>5. CASE Off4
    BY <1>0, <1>5 DEF Off4, Silence, Goes, WrapperInv, WrapperTyped, CountsTyped, Balanced, CopiesFit, StdFits, Copy,
                      NullFile, SilentCalls, Failed
  <1>6. CASE OpenHandle \/ CloseHandle \/ OtherCall
    <2>1. /\ call = "call" /\ call' = "done" /\ ~over
          /\ UNCHANGED <<std, saved, over, room>>
          /\ \/ spare > 0 /\ spare' = spare - 1 /\ handles' = handles + 1
             \/ handles > 0 /\ spare' = spare + 1 /\ handles' = handles - 1
             \/ UNCHANGED <<spare, handles>>
      BY <1>6 DEF OpenHandle, CloseHandle, OtherCall, LibraryCall, Goes
    <2>2. CountsTyped /\ Balanced
      BY <2>1 DEF WrapperInv, WrapperTyped
    <2>3. /\ Copy("err") = 1 /\ Copy("out") = 1 /\ NullFile = 1
          /\ Copy("err")' = 1 /\ Copy("out")' = 1 /\ NullFile' = 1
      BY <2>1 DEF WrapperInv, CopiesFit, Copy, NullFile, SilentCalls, Failed
    <2>4. CountsTyped' /\ Balanced' /\ spare' <= room' /\ handles' <= room'
      BY <2>1, <2>2, <2>3 DEF CountsTyped, Balanced
    <2>5. CopiesFit' /\ StdFits'
      BY <2>1 DEF WrapperInv, CopiesFit, StdFits
    <2>6. WrapperTyped'
      BY <2>1, <2>4 DEF WrapperInv, WrapperTyped, SilentCalls
    <2> QED BY <2>4, <2>5, <2>6 DEF WrapperInv
  <1>7. CASE RestoreStd("err", "done", "err")
    BY <1>0, <1>7 DEF RestoreStd, Restored, Goes, WrapperInv, WrapperTyped, CountsTyped, Balanced, CopiesFit, StdFits,
                      Copy, NullFile, SilentCalls, Failed
  <1>8. CASE CloseCopy("err", "err", "err closed")
    <2>1. /\ call = "err" /\ call' = "err closed" /\ ~over /\ spare' = spare + 1
          /\ UNCHANGED <<std, over, room, handles>>
          /\ saved["err"] = "terminal" /\ saved["out"] = "terminal"
          /\ saved' = [saved EXCEPT !["err"] = Failed]
      BY <1>8 DEF CloseCopy, CloseSaved, Goes, WrapperInv, CopiesFit, StdFits, Failed
    <2>2. /\ saved'["err"] = Failed /\ saved'["out"] = "terminal"
          /\ saved' \in [Std -> {"terminal", Failed}]
      BY <1>0, <2>1 DEF WrapperInv, WrapperTyped, Failed
    <2>3. CountsTyped /\ Balanced
      BY <2>1 DEF WrapperInv, WrapperTyped
    <2>4. /\ Copy("err") = 1 /\ Copy("out") = 1 /\ NullFile = 1
          /\ Copy("err")' = 0 /\ Copy("out")' = 1 /\ NullFile' = 1
      BY <2>1, <2>2 DEF Copy, NullFile, SilentCalls, Failed
    <2>a. spare' = spare + 1 /\ room' = room /\ handles' = handles
      BY <2>1
    <2>5. CountsTyped' /\ Balanced' /\ spare' <= room' /\ handles' <= room'
      BY <2>a, <2>3, <2>4 DEF CountsTyped, Balanced
    <2>6. CopiesFit' /\ StdFits'
      BY <2>1, <2>2 DEF WrapperInv, CopiesFit, StdFits
    <2>7. WrapperTyped'
      BY <2>1, <2>2, <2>5 DEF WrapperInv, WrapperTyped, SilentCalls
    <2> QED BY <2>5, <2>6, <2>7 DEF WrapperInv
  <1>9. CASE RestoreStd("out", "err closed", "out")
    BY <1>0, <1>9 DEF RestoreStd, Restored, Goes, WrapperInv, WrapperTyped, CountsTyped, Balanced, CopiesFit, StdFits,
                      Copy, NullFile, SilentCalls, Failed
  <1>10. CASE CloseCopy("out", "out", "out closed")
    <2>1. /\ call = "out" /\ call' = "out closed" /\ ~over /\ spare' = spare + 1
          /\ UNCHANGED <<std, over, room, handles>>
          /\ saved["err"] = Failed /\ saved["out"] = "terminal"
          /\ saved' = [saved EXCEPT !["out"] = Failed]
      BY <1>10 DEF CloseCopy, CloseSaved, Goes, WrapperInv, CopiesFit, StdFits, Failed
    <2>2. /\ saved'["err"] = Failed /\ saved'["out"] = Failed
          /\ saved' \in [Std -> {"terminal", Failed}]
      BY <1>0, <2>1 DEF WrapperInv, WrapperTyped, Failed
    <2>3. CountsTyped /\ Balanced
      BY <2>1 DEF WrapperInv, WrapperTyped
    <2>4. /\ Copy("err") = 0 /\ Copy("out") = 1 /\ NullFile = 1
          /\ Copy("err")' = 0 /\ Copy("out")' = 0 /\ NullFile' = 1
      BY <2>1, <2>2 DEF Copy, NullFile, SilentCalls, Failed
    <2>a. spare' = spare + 1 /\ room' = room /\ handles' = handles
      BY <2>1
    <2>5. CountsTyped' /\ Balanced' /\ spare' <= room' /\ handles' <= room'
      BY <2>a, <2>3, <2>4 DEF CountsTyped, Balanced
    <2>6. CopiesFit' /\ StdFits'
      BY <2>1, <2>2 DEF WrapperInv, CopiesFit, StdFits
    <2>7. WrapperTyped'
      BY <2>1, <2>2, <2>5 DEF WrapperInv, WrapperTyped, SilentCalls
    <2> QED BY <2>5, <2>6, <2>7 DEF WrapperInv
  <1>11. CASE CloseNull
    <2>1. /\ call = "out closed" /\ call' = "none" /\ ~over /\ spare' = spare + 1
          /\ UNCHANGED <<std, over, room, handles>>
          /\ saved["err"] = Failed /\ saved["out"] = Failed
          /\ std["err"] = "terminal" /\ std["out"] = "terminal"
          /\ saved' = saved
      BY <1>11 DEF CloseNull, Goes, WrapperInv, CopiesFit, StdFits, Failed
    <2>2. \A d \in Std : std'[d] = "terminal"
      BY <1>0, <2>1
    <2>3. CountsTyped /\ Balanced
      BY <2>1 DEF WrapperInv, WrapperTyped
    <2>4. /\ Copy("err") = 0 /\ Copy("out") = 0 /\ NullFile = 1
          /\ Copy("err")' = 0 /\ Copy("out")' = 0 /\ NullFile' = 0
      BY <2>1, <2>2 DEF Copy, NullFile, SilentCalls, Failed
    <2>a. spare' = spare + 1 /\ room' = room /\ handles' = handles
      BY <2>1
    <2>5. CountsTyped' /\ Balanced' /\ spare' <= room' /\ handles' <= room'
      BY <2>a, <2>3, <2>4 DEF CountsTyped, Balanced
    <2>6. CopiesFit' /\ StdFits'
      BY <2>1, <2>2 DEF WrapperInv, CopiesFit, StdFits
    <2>7. WrapperTyped'
      BY <2>1, <2>2, <2>5 DEF WrapperInv, WrapperTyped, SilentCalls
    <2> QED BY <2>5, <2>6, <2>7 DEF WrapperInv
  <1>12. CASE UNCHANGED wrapperVars
    BY <1>12 DEF wrapperVars, WrapperInv, WrapperTyped, CountsTyped, Balanced, CopiesFit, StdFits, Copy, NullFile
  <1> QED
    BY <1>1, <1>2, <1>3, <1>4, <1>5, <1>6, <1>7, <1>8, <1>9, <1>10, <1>11, <1>12
    DEF WrapperNext, RmsgOff, RmsgOn, On1, On2

(* However full the table of descriptors is, and however many connections  *)
(* and files the library opens and closes, the output of smbc is on the    *)
(* terminal again after a call, and no descriptor is lost (RmsgOff,        *)
(* RmsgOn).                                                                *)
THEOREM OutputReturns ==
  WrapperInit /\ [][WrapperNext]_wrapperVars => []OutputIsBack
  <1>1. WrapperInv => OutputIsBack
    <2> SUFFICES ASSUME WrapperInv, call = "none", ~over PROVE OutputIsBack
      BY DEF OutputIsBack
    <2>1. saved = [d \in Std |-> Failed] /\ saved["err"] = Failed /\ saved["out"] = Failed
      BY DEF WrapperInv, WrapperTyped, CopiesFit, Std
    <2>2. std = [d \in Std |-> "terminal"]
      BY DEF WrapperInv, WrapperTyped, StdFits
    <2>3. spare + handles = room
      BY <2>1 DEF WrapperInv, WrapperTyped, CountsTyped, Balanced, Copy, NullFile, SilentCalls
    <2> QED BY <2>1, <2>2, <2>3 DEF OutputIsBack
  <1> QED BY <1>1, InitWrapper, StepWrapper, PTL

-----------------------------------------------------------------------------
(* The account a file is opened with.                                      *)

Point == {"idle", "begun", "save", "use", "open", "back", "forget"}

(* Where the account that was wished is while a record is opened: in       *)
(* Rusername and Rpassword, or in the two strings it is put aside in.      *)
HeldAccount == IF transfer.point \in {"open", "back"} THEN inter ELSE now

AccountInv ==
  /\ transfer \in [point : Point, of : DOMAIN Owner \cup {None}]
  /\ transfer.point = "idle" <=> Resting
  /\ loose \/ HeldAccount = wished
  /\ transfer.point = "use" => inter = now
  /\ transfer.point = "open" => now = Owner[transfer.of]
  /\ \A q \in requests : q.what = "open" => q.as = Owner[q.of]

LEMMA InitAccount == AccountInit => AccountInv
  BY DEF AccountInit, AccountInv, HeldAccount, Resting, Idle, Point

LEMMA StepAccount ==
  ASSUME AccountInv, [AccountNext]_accountVars
  PROVE  AccountInv'
  <1> USE DEF AccountInv, HeldAccount, Resting, Idle, Point, Passes, Request, window0, quiet, KeyAt
  <1>1. CASE BeginOpen
    BY <1>1 DEF BeginOpen
  <1>2. CASE BeforeOpen
    BY <1>2 DEF BeforeOpen
  <1>3. CASE SaveAccount
    BY <1>3 DEF SaveAccount
  <1>4. CASE UseAccount
    BY <1>4 DEF UseAccount
  <1>5. CASE OpenFile
    BY <1>5 DEF OpenFile
  <1>6. CASE AccountBack
    BY <1>6 DEF AccountBack
  <1>7. CASE Forget
    BY <1>7 DEF Forget
  <1>8. CASE OpenGoto \/ TypeField \/ NextField \/ TabButton \/ OpenMarks
    BY <1>8 DEF OpenGoto, TypeField, NextField, TabButton, OpenMarks
  <1>9. CASE PressOk
    BY <1>9 DEF PressOk, LeaveWindow
  <1>10. CASE CloseWindow
    BY <1>10 DEF CloseWindow, LeaveWindow
  <1>11. CASE JumpToBookmark
    BY <1>11 DEF JumpToBookmark, LeaveWindow
  <1>12. CASE UNCHANGED accountVars
    BY <1>12 DEF accountVars
  <1> QED
    BY <1>1, <1>2, <1>3, <1>4, <1>5, <1>6, <1>7, <1>8, <1>9, <1>10, <1>11, <1>12
    DEF AccountNext, OpenRecord

(* The accounts are accounts wherever they are: in the form while it is    *)
(* open, and in the two strings put aside while a record is opened.        *)
AccountTyped ==
  /\ AccountTypeOK
  /\ given \/ at = "goto" => typed \in Account
  /\ transfer # Idle => transfer.of \in DOMAIN Owner
  /\ transfer.point \in {"use", "open", "back"} => inter \in Account

LEMMA InitAccountTyped == AccountInit => AccountTyped
  <1> SUFFICES ASSUME AccountInit PROVE AccountTyped
    OBVIOUS
  <1>1. ~given /\ given \in BOOLEAN /\ loose \in BOOLEAN
    BY Zenon DEF AccountInit
  <1> QED BY <1>1 DEF AccountInit, AccountTyped, AccountTypeOK, Idle

LEMMA StepAccountTyped ==
  ASSUME AccountInv, AccountTyped, [AccountNext]_accountVars
  PROVE  AccountTyped'
  <1> USE DEF Idle, Resting
  <1>0. /\ now \in Account /\ inter \in Account \cup {NoAccount}
        /\ typed \in Account \cup {NoAccount} /\ wished \in Account
        /\ Rrol \in 1..3 /\ field \in 1..5 /\ given \in BOOLEAN /\ loose \in BOOLEAN
        /\ given \/ at = "goto" => typed \in Account
        /\ transfer # Idle => transfer.of \in DOMAIN Owner
        /\ transfer.point \in {"use", "open", "back"} => inter \in Account
        /\ transfer \in [point : Point, of : DOMAIN Owner \cup {None}]
    BY DEF AccountInv, AccountTyped, AccountTypeOK
  <1>1. CASE BeginOpen
    BY <1>0, <1>1 DEF BeginOpen, window0, AccountTyped, AccountTypeOK
  <1>2. CASE BeforeOpen
    BY <1>0, <1>2 DEF BeforeOpen, Passes, window0, AccountTyped, AccountTypeOK
  <1>3. CASE SaveAccount
    BY <1>0, <1>3 DEF SaveAccount, Passes, window0, AccountTyped, AccountTypeOK
  <1>4. CASE UseAccount
    <2>1. ~given' /\ given' \in BOOLEAN
      BY <1>4, Zenon DEF UseAccount
    <2> QED BY <1>0, <1>4, <2>1, AccountAssumption
            DEF UseAccount, Passes, window0, AccountTyped, AccountTypeOK
  <1>5. CASE OpenFile
    BY <1>0, <1>5 DEF OpenFile, Passes, window0, AccountTyped, AccountTypeOK
  <1>6. CASE AccountBack
    BY <1>0, <1>6 DEF AccountBack, Passes, window0, AccountTyped, AccountTypeOK
  <1>7. CASE Forget
    BY <1>0, <1>7 DEF Forget, window0, AccountTyped, AccountTypeOK
  <1>8. CASE OpenGoto
    BY <1>0, <1>8 DEF OpenGoto, quiet, AccountTyped, AccountTypeOK
  <1>9. CASE TypeField
    <2>1. /\ typed \in Account
          /\ \E n \in Words : typed' = IF field = 4 THEN [typed EXCEPT !.user = n]
                                       ELSE [typed EXCEPT !.pass = n]
      BY <1>0, <1>9 DEF TypeField, KeyAt
    <2>2. typed' \in Account
      BY <2>1 DEF Account
    <2> QED BY <1>0, <1>9, <2>2 DEF TypeField, quiet, AccountTyped, AccountTypeOK
  <1>10. CASE NextField
    BY <1>0, <1>10 DEF NextField, quiet, AccountTyped, AccountTypeOK
  <1>11. CASE TabButton
    BY <1>0, <1>11 DEF TabButton, quiet, AccountTyped, AccountTypeOK
  <1>12. CASE PressOk
    <2>1. now' \in Account /\ wished' \in Account /\ loose' \in BOOLEAN
      BY <1>0, <1>12 DEF PressOk, KeyAt
    <2>2. ~given' /\ given' \in BOOLEAN
      BY <1>12, Zenon DEF PressOk, LeaveWindow
    <2> QED BY <1>0, <1>12, <2>1, <2>2 DEF PressOk, LeaveWindow, quiet, AccountTyped, AccountTypeOK
  <1>13. CASE CloseWindow
    <2>1. ~given' /\ given' \in BOOLEAN
      BY <1>13, Zenon DEF CloseWindow, LeaveWindow
    <2> QED BY <1>0, <1>13, <2>1 DEF CloseWindow, LeaveWindow, quiet, AccountTyped, AccountTypeOK
  <1>14. CASE OpenMarks
    BY <1>0, <1>14 DEF OpenMarks, quiet, AccountTyped, AccountTypeOK
  <1>15. CASE JumpToBookmark
    <2>1. PICK m \in MarkAccounts : /\ now' = [now EXCEPT !.pass = m.pass]
                                    /\ wished' = [wished EXCEPT !.pass = m.pass]
      BY <1>15 DEF JumpToBookmark
    <2>2. now' \in Account /\ wished' \in Account
      BY <1>0, <2>1, AccountAssumption DEF Account
    <2>3. ~given' /\ given' \in BOOLEAN
      BY <1>15, Zenon DEF JumpToBookmark, LeaveWindow
    <2> QED BY <1>0, <1>15, <2>2, <2>3 DEF JumpToBookmark, LeaveWindow, quiet, AccountTyped, AccountTypeOK
  <1>16. CASE UNCHANGED accountVars
    BY <1>0, <1>16 DEF accountVars, AccountTyped, AccountTypeOK
  <1> QED
    BY <1>1, <1>2, <1>3, <1>4, <1>5, <1>6, <1>7, <1>8, <1>9, <1>10, <1>11, <1>12, <1>13,
       <1>14, <1>15, <1>16
    DEF AccountNext, OpenRecord

(* Whatever is opened behind the windows, with any accounts, each record   *)
(* is opened with its own and the user's account is back afterwards;       *)
(* except after OK in a goto window behind which a record was opened       *)
(* (RsmbOpen, RmanageMenuSel: the goto form and the bookmarks).            *)
THEOREM AccountReturns ==
  AccountInit /\ [][AccountNext]_accountVars => []AccountOfEach
  <1>1. AccountInv => AccountOfEach
    BY DEF AccountInv, HeldAccount, Resting, Idle, AccountOfEach
  <1> QED BY <1>1, InitAccount, StepAccount, PTL

----------------------------------------------------------------------------
(* CopyKey: the walk of the key d.                                         *)

PlainNames == STRING \ {".."}
Paths == Seq(STRING)
PlainPaths == Seq(PlainNames)

(* What leads to the same place or to one below it.                        *)
Leads(p, q) == Len(p) <= Len(q) /\ \A i \in 1..Len(p) : p[i] = q[i]

LEMMA PrefixLeads ==
  ASSUME NEW S, NEW p \in Seq(S), NEW q \in Seq(S)
  PROVE  IsPrefix(p, q) <=> Leads(p, q)
  <1>1. CASE Len(p) <= Len(q)
    <2> DEFINE s == SubSeq(p, 1, Len(p))
               t == SubSeq(q, 1, Len(p))
    <2>1. /\ s \in Seq(S) /\ t \in Seq(S) /\ Len(s) = Len(p) /\ Len(t) = Len(p)
          /\ \A i \in 1..Len(p) : s[i] = p[i] /\ t[i] = q[i]
      BY <1>1
    <2>2. s = t <=> \A i \in 1..Len(p) : s[i] = t[i]
      <3> HIDE DEF s, t
      <3>1. ASSUME \A i \in 1..Len(p) : s[i] = t[i]
            PROVE  s = t
        <4>1. Len(s) = Len(t) /\ \A i \in 1..Len(s) : s[i] = t[i]
          BY <2>1, <3>1
        <4> QED BY <2>1, <4>1
      <3> QED BY <3>1
    <2>3. IsPrefix(p, q) <=> s = t
      BY <1>1 DEF IsPrefix
    <2> HIDE DEF s, t
    <2> QED BY <1>1, <2>1, <2>2, <2>3 DEF Leads
  <1>2. CASE ~(Len(p) <= Len(q))
    BY <1>2 DEF IsPrefix, Leads
  <1> QED BY <1>1, <1>2

LEMMA LeadsOn ==
  ASSUME NEW S, NEW p \in Seq(S), NEW q \in Seq(S), NEW r \in Seq(S), Leads(p, q), Leads(q, r)
  PROVE  Leads(p, r)
  BY DEF Leads

(* Of two that lead to a third, one leads to the other.                    *)
LEMMA LeadsApart ==
  ASSUME NEW S, NEW p \in Seq(S), NEW q \in Seq(S), NEW r \in Seq(S), Leads(p, r), Leads(q, r)
  PROVE  Leads(p, q) \/ Leads(q, p)
  BY DEF Leads

LEMMA LeadsBelow ==
  ASSUME NEW S, NEW p \in Seq(S), NEW x \in S
  PROVE  /\ Append(p, x) \in Seq(S) /\ Len(Append(p, x)) = Len(p) + 1
         /\ Leads(p, p) /\ Leads(p, Append(p, x))
         /\ \A i \in 1..Len(p) : Append(p, x)[i] = p[i]
         /\ Append(p, x)[Len(p) + 1] = x
  <1> DEFINE c == Append(p, x)
  <1>1. /\ Len(p) \in Nat /\ c \in Seq(S) /\ Len(c) = Len(p) + 1 /\ c[Len(p) + 1] = x
    BY AppendProperties
  <1>2. \A i \in 1..Len(p) : c[i] = p[i]
    BY AppendProperties
  <1> HIDE DEF c
  <1>3. Leads(p, p) /\ Leads(p, c)
    BY <1>1, <1>2 DEF Leads
  <1> QED BY <1>1, <1>2, <1>3 DEF c

LEMMA LeadsToChild ==
  ASSUME NEW S, NEW p \in Seq(S), NEW q \in Seq(S), NEW x \in S, Leads(p, Append(q, x))
  PROVE  Leads(p, q) \/ p = Append(q, x)
  <1> DEFINE c == Append(q, x)
  <1>1. /\ c \in Seq(S) /\ Len(c) = Len(q) + 1 /\ \A i \in 1..Len(q) : c[i] = q[i]
    BY LeadsBelow
  <1>2. Len(p) \in Nat /\ Len(q) \in Nat /\ Leads(p, c)
    OBVIOUS
  <1> HIDE DEF c
  <1>3. CASE Len(p) <= Len(q)
    BY <1>1, <1>2, <1>3 DEF Leads
  <1>4. CASE Len(p) > Len(q)
    <2>1. Len(p) = Len(c) /\ \A i \in 1..Len(p) : p[i] = c[i]
      BY <1>1, <1>2, <1>4 DEF Leads
    <2>2. p = c
      BY <1>1, <2>1
    <2> QED BY <2>2 DEF c
  <1> QED BY <1>2, <1>3, <1>4

LEMMA ChildLeads ==
  ASSUME NEW S, NEW p \in Seq(S), NEW q \in Seq(S), Leads(p, q), p # q
  PROVE  /\ Len(p) + 1 \in 1..Len(q) /\ q[Len(p) + 1] \in S
         /\ Leads(Append(p, q[Len(p) + 1]), q)
  <1>1. Len(p) < Len(q)
    BY DEF Leads
  <1>2. Len(p) + 1 \in 1..Len(q) /\ q[Len(p) + 1] \in S
    BY <1>1
  <1> DEFINE x == q[Len(p) + 1]
             c == Append(p, x)
  <1>3. /\ c \in Seq(S) /\ Len(c) = Len(p) + 1 /\ c[Len(p) + 1] = x
        /\ \A i \in 1..Len(p) : c[i] = p[i]
    BY <1>2, LeadsBelow
  <1>4. \A i \in 1..Len(c) : c[i] = q[i]
    <2>1. \A i \in 1..Len(c) : i \in 1..Len(p) \/ i = Len(p) + 1
      BY <1>3
    <2> HIDE DEF c
    <2> QED BY <1>3, <2>1 DEF Leads
  <1> HIDE DEF c
  <1> QED BY <1>1, <1>2, <1>3, <1>4 DEF Leads, c

LEMMA SameChild ==
  ASSUME NEW S, NEW p \in Seq(S), NEW x \in S, NEW q \in Seq(S), NEW y \in S,
         Append(p, x) = Append(q, y)
  PROVE  p = q /\ x = y
  <1> DEFINE c == Append(p, x)
             d == Append(q, y)
  <1>1. /\ Len(c) = Len(p) + 1 /\ c[Len(p) + 1] = x /\ \A i \in 1..Len(p) : c[i] = p[i]
        /\ Len(d) = Len(q) + 1 /\ d[Len(q) + 1] = y /\ \A i \in 1..Len(q) : d[i] = q[i]
    BY LeadsBelow
  <1>2. c = d /\ Len(p) \in Nat /\ Len(q) \in Nat
    OBVIOUS
  <1> HIDE DEF c, d
  <1>3. Len(p) = Len(q) /\ x = y
    BY <1>1, <1>2
  <1>4. \A i \in 1..Len(p) : p[i] = q[i]
    BY <1>1, <1>2, <1>3
  <1> QED BY <1>3, <1>4

----------------------------------------------------------------------------
(* A path without ".." is what it says.                                    *)
LEMMA ResolvedIs ==
  ASSUME NEW path \in PlainPaths
  PROVE  Resolved(path) = path
  <1> DEFINE n == Len(path)
             empty == <<>>
             Onward(i, t) == IF path[i] # ".." THEN Append(t, path[i])
                           ELSE IF t = <<>> THEN <<>> ELSE Front(t)
             Body(f) == [i \in 0..n |-> IF i = 0 THEN empty ELSE Onward(i, f[i - 1])]
             h == [i \in 0..n |-> SubSeq(path, 1, i)]
             w == ResolvedUpTo(path)
  <1>1. n \in Nat /\ \A i \in 1..n : path[i] \in PlainNames /\ path[i] # ".."
    BY DEF PlainPaths, PlainNames
  <1>2. h = Body(h)
    <2>1. SubSeq(path, 1, 0) = empty
      BY DEF PlainPaths
    <2>2. ASSUME NEW i \in 1..n
          PROVE  SubSeq(path, 1, i) = Onward(i, SubSeq(path, 1, i - 1))
      <3> DEFINE s == SubSeq(path, 1, i - 1)
                 t == SubSeq(path, 1, i)
      <3>1. /\ s \in PlainPaths /\ Len(s) = i - 1 /\ \A j \in 1..(i - 1) : s[j] = path[j]
            /\ t \in PlainPaths /\ Len(t) = i /\ \A j \in 1..i : t[j] = path[j]
        BY <1>1 DEF PlainPaths
      <3> HIDE DEF s, t
      <3>2. t = Append(s, path[i])
        BY <1>1, <3>1 DEF PlainPaths
      <3>3. Onward(i, s) = Append(s, path[i])
        BY <1>1
      <3> QED BY <3>2, <3>3 DEF s, t
    <2>3. \A i \in 0..n : i = 0 \/ (i \in 1..n /\ i - 1 \in 0..n)
      BY <1>1
    <2> HIDE DEF n, Onward, empty
    <2> QED BY <2>1, <2>2, <2>3
  <1>3. w = Body(w)
    <2>1. w = CHOOSE g : g = Body(g)
      BY Zenon DEF ResolvedUpTo, Onward, empty, n
    <2> HIDE DEF Body, w, h
    <2> QED BY <1>2, <2>1
  <1> HIDE DEF w
  <1> DEFINE Q == {m \in 0..n : w[m] = SubSeq(path, 1, m)}
  <1>4. \A i \in 0..n : w[i] = IF i = 0 THEN empty ELSE Onward(i, w[i - 1])
    BY <1>3
  <1>5. \A i \in 0..n : h[i] = IF i = 0 THEN empty ELSE Onward(i, h[i - 1])
    <2> HIDE DEF h, Onward, empty
    <2> QED BY <1>2
  <1>6. 0 \in Q
    <2>1. 0 \in 0..n
      BY <1>1
    <2>2. w[0] = h[0] /\ h[0] = SubSeq(path, 1, 0)
      <3> HIDE DEF Onward, empty
      <3> QED BY <1>4, <1>5, <2>1
    <2> QED BY <2>1, <2>2
  <1>7. ASSUME NEW m \in 0..n - 1, m \in Q
        PROVE  m + 1 \in Q
    <2>1. m + 1 \in 0..n /\ m + 1 # 0 /\ (m + 1) - 1 = m /\ m \in 0..n
      BY <1>1
    <2>2. w[m + 1] = Onward(m + 1, w[m]) /\ h[m + 1] = Onward(m + 1, h[m])
      <3> HIDE DEF Onward, h
      <3> QED BY <1>4, <1>5, <2>1
    <2>3. w[m] = h[m]
      BY <1>7, <2>1
    <2>4. w[m + 1] = h[m + 1]
      <3> HIDE DEF Onward, h
      <3> QED BY <2>2, <2>3
    <2> QED BY <2>1, <2>4
  <1>8. 0..n \subseteq Q
    <2> HIDE DEF Q, n
    <2> QED BY <1>1, <1>6, <1>7, UpTo
  <1>9. w[n] = SubSeq(path, 1, n)
    BY <1>1, <1>8
  <1>10. SubSeq(path, 1, n) = path
    BY DEF PlainPaths
  <1> QED BY <1>9, <1>10 DEF Resolved, w

----------------------------------------------------------------------------
(* Where a walk stands: the files that are due, the places that are still  *)
(* to be opened, what is queued, and what was refused.  No place is at or  *)
(* below another one, nothing queued is below a place that is still open   *)
(* or was refused, and each file that is due is queued or is below one.    *)
Apart(p, q) == ~Leads(p, q) /\ ~Leads(q, p)
Covers(due, open, got, shut) ==
  /\ due \subseteq PlainPaths /\ open \subseteq PlainPaths /\ shut \subseteq PlainPaths
  /\ got \subseteq due
  /\ \A p, q \in open : p # q => Apart(p, q)
  /\ \A p \in open, c \in shut : Apart(p, c)
  /\ \A f \in got, p \in open \cup shut : ~Leads(p, f)
  /\ \A f \in due : f \in got \/ \E p \in open \cup shut : Leads(p, f)

(* A file is queued.                                                       *)
LEMMA FileCovered ==
  ASSUME NEW due, NEW open, NEW got, NEW shut, Covers(due, open, got, shut),
         NEW p \in open, p \in due, \A f \in due : Leads(p, f) => f = p
  PROVE  Covers(due, open \ {p}, got \cup {p}, shut) /\ p \notin got
  <1>1. p \in PlainPaths /\ Leads(p, p)
    BY DEF Covers, Leads, PlainPaths
  <1>2. \A q \in (open \ {p}) \cup shut : ~Leads(q, p)
    BY DEF Covers, Apart
  <1> QED BY <1>1, <1>2 DEF Covers

(* A place is refused.                                                     *)
LEMMA RefusalCovered ==
  ASSUME NEW due, NEW open, NEW got, NEW shut, Covers(due, open, got, shut),
         NEW p \in open
  PROVE  Covers(due, open \ {p}, got, shut \cup {p})
  BY DEF Covers, Apart

(* Nothing that is due is below a place.                                   *)
LEMMA NothingCovered ==
  ASSUME NEW due, NEW open, NEW got, NEW shut, Covers(due, open, got, shut),
         NEW p \in open, \A f \in due : ~Leads(p, f)
  PROVE  Covers(due, open \ {p}, got, shut)
  BY DEF Covers

(* A place is opened: what is due below it is below one of its entries.    *)
LEMMA OpeningCovered ==
  ASSUME NEW due, NEW open, NEW got, NEW shut, Covers(due, open, got, shut),
         NEW p \in open, NEW names, names \subseteq PlainNames,
         \A f \in due : Leads(p, f) => \E x \in names : Leads(Append(p, x), f)
  PROVE  LET below == {Append(p, x) : x \in names}
         IN  /\ Covers(due, (open \ {p}) \cup below, got, shut)
             /\ (open \ {p}) \cap below = {}
  <1> DEFINE below == {Append(p, x) : x \in names}
             rest == open \ {p}
  <1>1. p \in PlainPaths /\ open \subseteq PlainPaths /\ shut \subseteq PlainPaths /\ got \subseteq PlainPaths
    BY DEF Covers
  <1>2. ASSUME NEW c \in below
        PROVE  c \in PlainPaths /\ Leads(p, c) /\ c # p
    <2>1. PICK x \in names : c = Append(p, x)
      OBVIOUS
    <2>2. /\ Append(p, x) \in Seq(PlainNames) /\ Len(Append(p, x)) = Len(p) + 1
          /\ Leads(p, Append(p, x))
      BY <1>1, LeadsBelow DEF PlainPaths
    <2>3. Len(p) \in Nat
      BY <1>1 DEF PlainPaths
    <2> QED BY <2>1, <2>2, <2>3 DEF PlainPaths
  <1>3. ASSUME NEW c \in below, NEW q \in PlainPaths, Apart(p, q)
        PROVE  Apart(c, q)
    <2>1. ~Leads(c, q)
      BY <1>1, <1>2, <1>3, LeadsOn DEF Apart, PlainPaths
    <2>2. PICK x \in names : c = Append(p, x)
      OBVIOUS
    <2>3. ASSUME Leads(q, c) PROVE FALSE
      <3>1. Leads(q, p) \/ q = c
        BY <1>1, <2>2, <2>3, LeadsToChild DEF PlainPaths
      <3> QED BY <1>2, <1>3, <3>1 DEF Apart
    <2> QED BY <2>1, <2>3 DEF Apart
  <1>4. ASSUME NEW c \in below, NEW d \in below, c # d
        PROVE  Apart(c, d)
    <2>1. PICK x \in names : c = Append(p, x)
      OBVIOUS
    <2>2. PICK y \in names : d = Append(p, y)
      OBVIOUS
    <2>3. /\ Len(c) = Len(p) + 1 /\ c[Len(p) + 1] = x
          /\ Len(d) = Len(p) + 1 /\ d[Len(p) + 1] = y /\ Len(p) \in Nat
      <3>1. Len(Append(p, x)) = Len(p) + 1 /\ Append(p, x)[Len(p) + 1] = x
        BY <1>1, LeadsBelow DEF PlainPaths
      <3>2. Len(Append(p, y)) = Len(p) + 1 /\ Append(p, y)[Len(p) + 1] = y
        BY <1>1, LeadsBelow DEF PlainPaths
      <3>3. Len(p) \in Nat
        BY <1>1 DEF PlainPaths
      <3> QED BY <2>1, <2>2, <3>1, <3>2, <3>3
    <2>4. x # y
      BY <1>4, <2>1, <2>2
    <2>5. Len(p) + 1 \in 1..Len(c) /\ Len(p) + 1 \in 1..Len(d)
      BY <2>3
    <2> QED BY <2>3, <2>4, <2>5 DEF Apart, Leads
  <1> HIDE DEF below
  <1>5. \A q \in rest : Apart(p, q)
    BY DEF Covers
  <1>6. \A q \in shut : Apart(p, q)
    BY DEF Covers
  <1>7. \A q, r \in rest \cup below : q # r => Apart(q, r)
    <2>1. \A q, r \in rest : q # r => Apart(q, r)
      BY DEF Covers
    <2>2. \A q \in rest, c \in below : Apart(c, q) /\ Apart(q, c)
      BY <1>1, <1>3, <1>5 DEF Apart
    <2> QED BY <1>4, <2>1, <2>2
  <1>8. \A q \in rest \cup below, c \in shut : Apart(q, c)
    BY <1>1, <1>3, <1>6 DEF Covers
  <1>9. \A f \in got, q \in rest \cup below \cup shut : ~Leads(q, f)
    <2>1. \A f \in got, q \in open \cup shut : ~Leads(q, f)
      BY DEF Covers
    <2>2. ASSUME NEW f \in got, NEW c \in below, Leads(c, f) PROVE FALSE
      BY <1>1, <1>2, <2>1, <2>2, LeadsOn DEF PlainPaths
    <2> QED BY <2>1, <2>2
  <1>10. \A f \in due : f \in got \/ \E q \in rest \cup below \cup shut : Leads(q, f)
    <2> SUFFICES ASSUME NEW f \in due, f \notin got
                 PROVE  \E q \in rest \cup below \cup shut : Leads(q, f)
      OBVIOUS
    <2>1. PICK q \in open \cup shut : Leads(q, f)
      BY DEF Covers
    <2>2. CASE q = p
      BY <2>1, <2>2 DEF below
    <2> QED BY <2>1, <2>2
  <1>11. rest \cap below = {}
    <2>1. \A q \in rest : Leads(q, q)
      BY <1>1 DEF Leads, PlainPaths
    <2>2. \A q \in rest, c \in below : Apart(c, q)
      BY <1>1, <1>3, <1>5
    <2> QED BY <2>1, <2>2 DEF Apart
  <1>12. Covers(due, rest \cup below, got, shut)
    BY <1>1, <1>2, <1>7, <1>8, <1>9, <1>10 DEF Covers
  <1> QED BY <1>11, <1>12 DEF below

----------------------------------------------------------------------------
(* The trees.                                                              *)
Entered == [name : PlainNames, kind : STRING]

LEMMA TreesAre ==
  ASSUME NEW side \in DOMAIN Trees, NEW path \in DOMAIN Trees[side]
  PROVE  /\ path \in PlainPaths /\ Base[side] \in PlainPaths
         /\ Entries(side, path) = Trees[side][path]
         /\ Trees[side][path] \in Seq(Entered)
         /\ \A e, x \in ToSet(Trees[side][path]) : e.name = x.name => e = x
  <1>1. path \in PlainPaths /\ Base[side] \in PlainPaths /\ Trees[side][path] \in Seq(Entered)
    BY TreeAssumption, MarksAssumption DEF PlainPaths, PlainNames, Entered
  <1>2. Entries(side, path) = Trees[side][path]
    BY <1>1, ResolvedIs DEF Entries
  <1>3. \A i, j \in DOMAIN Trees[side][path] :
          Trees[side][path][i].name = Trees[side][path][j].name => i = j
    BY TreeAssumption
  <1>4. \A e, x \in ToSet(Trees[side][path]) : e.name = x.name => e = x
    BY <1>3 DEF ToSet
  <1> QED BY <1>1, <1>2, <1>4

(* What is below a path of a tree is so by the directories on the way.     *)
LEMMA ListedAbove ==
  ASSUME NEW side \in DOMAIN Trees, NEW d \in DOMAIN Trees[side], NEW p \in PlainPaths,
         NEW x \in PlainNames, Leads(Base[side], p), Leads(Append(p, x), d)
  PROVE  /\ p \in DOMAIN Trees[side]
         /\ \E e \in ToSet(Trees[side][p]) : e.name = x /\ e.kind = "D"
  <1> DEFINE c == Append(p, x)
             n == Len(c)
  <1>1. d \in PlainPaths /\ Base[side] \in PlainPaths
    BY TreesAre
  <1>2. /\ c \in Seq(PlainNames) /\ n = Len(p) + 1 /\ c[n] = x /\ Leads(p, c)
        /\ \A i \in 1..Len(p) : c[i] = p[i]
    BY LeadsBelow DEF PlainPaths
  <1>3. Len(p) \in Nat /\ Len(d) \in Nat /\ Len(Base[side]) \in Nat
    BY <1>1 DEF PlainPaths
  <1> HIDE DEF c
  <1>4. Leads(c, d)
    BY DEF c
  <1>5. Leads(p, d) /\ Leads(Base[side], d)
    BY <1>1, <1>2, <1>4, LeadsOn DEF PlainPaths
  <1>6. IsPrefix(Base[side], d)
    BY <1>1, <1>5, PrefixLeads DEF PlainPaths
  <1>7. n \in 1..Len(d) /\ n > Len(Base[side]) /\ d[n] = x
    BY <1>2, <1>3, <1>4 DEF Leads
  <1>8. /\ SubSeq(d, 1, n - 1) \in DOMAIN Trees[side]
        /\ \E e \in ToSet(Trees[side][SubSeq(d, 1, n - 1)]) : e.name = d[n] /\ e.kind = "D"
    <2>1. \A m \in 1..Len(d) : m > Len(Base[side]) /\ IsPrefix(Base[side], d) =>
            /\ SubSeq(d, 1, m - 1) \in DOMAIN Trees[side]
            /\ \E e \in ToSet(Trees[side][SubSeq(d, 1, m - 1)]) :
                 e.name = d[m] /\ e.kind = "D"
      BY TreeAssumption
    <2> HIDE DEF n
    <2> QED BY <1>6, <1>7, <2>1
  <1>9. SubSeq(d, 1, n - 1) = p
    <2>1. /\ SubSeq(d, 1, n - 1) \in Seq(PlainNames) /\ Len(SubSeq(d, 1, n - 1)) = n - 1
          /\ \A i \in 1..(n - 1) : SubSeq(d, 1, n - 1)[i] = d[i]
      BY <1>1, <1>2, <1>3, <1>7, SubSeqProperties DEF PlainPaths
    <2> DEFINE t == SubSeq(d, 1, n - 1)
    <2>2. Len(t) = Len(p) /\ \A i \in 1..Len(t) : t[i] = p[i]
      BY <1>2, <1>3, <1>5, <2>1 DEF Leads
    <2>3. t \in Seq(PlainNames) /\ p \in Seq(PlainNames)
      BY <2>1 DEF PlainPaths
    <2> HIDE DEF t
    <2>4. t = p
      BY <2>2, <2>3
    <2> QED BY <2>4 DEF t
  <1> QED BY <1>7, <1>8, <1>9

(* An entry of the walk: it is listed in its directory, on the way from    *)
(* the panel; in the list of a network nothing is a directory or a file.   *)
InTree(side, path, name, kind) ==
  /\ path \in DOMAIN Trees[side] /\ Leads(Base[side], path) /\ name \in PlainNames
  /\ \E x \in ToSet(Trees[side][path]) :
       x.name = name /\ (x.kind = kind \/ (side = "right" /\ kind = "W"))

(* A file at or below an entry is the entry or below its directory.        *)
LEMMA FileBelow ==
  ASSUME NEW side \in DOMAIN Trees, NEW path, NEW name, NEW kind,
         InTree(side, path, name, kind), NEW f \in FilesOf(side),
         Leads(Append(path, name), f)
  PROVE  LET p == Append(path, name)
         IN  /\ p \in PlainPaths /\ f \in PlainPaths
             /\ f = p => \A x \in ToSet(Trees[side][path]) :
                           x.name = name => IsFile(side, x)
             /\ f # p =>
                  /\ \A x \in ToSet(Trees[side][path]) : x.name = name => x.kind = "D"
                  /\ p \in DOMAIN Trees[side] /\ Leads(Base[side], p)
                  /\ \E x \in ToSet(Trees[side][p]) :
                       Taken(side, x) /\ Leads(Append(p, x.name), f)
  <1> DEFINE p == Append(path, name)
  <1>1. PICK d \in DOMAIN Trees[side] : \E e \in ToSet(Trees[side][d]) :
          IsFile(side, e) /\ f = Append(d, e.name)
    BY DEF FilesOf
  <1>2. PICK e \in ToSet(Trees[side][d]) : IsFile(side, e) /\ f = Append(d, e.name)
    BY <1>1
  <1>3. /\ path \in PlainPaths /\ d \in PlainPaths /\ Base[side] \in PlainPaths /\ name \in PlainNames
        /\ e.name \in PlainNames
    <2>1. Trees[side][d] \in Seq(Entered)
      BY TreesAre
    <2>2. e \in Entered
      BY <2>1 DEF ToSet
    <2> QED BY <2>2, TreesAre DEF InTree, Entered
  <1>4. /\ p \in PlainPaths /\ Len(p) = Len(path) + 1 /\ Leads(path, p)
        /\ f \in PlainPaths /\ Len(f) = Len(d) + 1 /\ Leads(d, f) /\ Leads(p, p)
        /\ Len(path) \in Nat /\ Len(d) \in Nat
    <2>1. /\ p \in Seq(PlainNames) /\ Len(p) = Len(path) + 1 /\ Leads(path, p)
      BY <1>3, LeadsBelow DEF PlainPaths
    <2>2. /\ f \in Seq(PlainNames) /\ Len(f) = Len(d) + 1 /\ Leads(d, f)
      BY <1>2, <1>3, LeadsBelow DEF PlainPaths
    <2>3. Len(path) \in Nat /\ Len(d) \in Nat
      BY <1>3 DEF PlainPaths
    <2> QED BY <2>1, <2>2, <2>3 DEF PlainPaths, Leads
  <1>5. ASSUME f = p
        PROVE  \A x \in ToSet(Trees[side][path]) : x.name = name => IsFile(side, x)
    <2>1. d = path /\ e.name = name
      <3>1. Append(d, e.name) = Append(path, name)
        BY <1>2, <1>5
      <3> QED BY <1>3, <3>1, SameChild DEF PlainPaths
    <2> QED BY <1>2, <2>1, TreesAre
  <1>6. ASSUME f # p
        PROVE  /\ \A x \in ToSet(Trees[side][path]) : x.name = name => x.kind = "D"
               /\ p \in DOMAIN Trees[side] /\ Leads(Base[side], p)
               /\ \E x \in ToSet(Trees[side][p]) :
                    Taken(side, x) /\ Leads(Append(p, x.name), f)
    <2>1. Leads(p, d)
      <3>1. Leads(p, Append(d, e.name))
        BY <1>2
      <3> HIDE DEF p
      <3>2. Leads(p, d) \/ p = Append(d, e.name)
        BY <1>3, <1>4, <3>1, LeadsToChild DEF PlainPaths
      <3> QED BY <1>2, <1>6, <3>2
    <2>2. \E x \in ToSet(Trees[side][path]) : x.name = name /\ x.kind = "D"
      BY <1>3, <2>1, ListedAbove DEF InTree
    <2>3. \A x \in ToSet(Trees[side][path]) : x.name = name => x.kind = "D"
      BY <2>2, TreesAre DEF InTree
    <2>4. Leads(Base[side], p)
      BY <1>3, <1>4, LeadsOn DEF InTree, PlainPaths
    <2> HIDE DEF p
    <2>5. CASE p = d
      <3>1. Taken(side, e)
        BY <1>2 DEF Taken, IsFile, TreeAssumption
      <3>2. Leads(Append(p, e.name), f)
        BY <1>2, <1>4, <2>5 DEF Leads, PlainPaths
      <3> QED BY <2>3, <2>4, <2>5, <3>1, <3>2
    <2>6. CASE p # d
      <3> DEFINE x == d[Len(p) + 1]
      <3>1. x \in PlainNames /\ Leads(Append(p, x), d)
        BY <1>3, <1>4, <2>1, <2>6, ChildLeads DEF PlainPaths
      <3>2. Append(p, x) \in Seq(PlainNames)
        BY <1>4, <3>1, LeadsBelow DEF PlainPaths
      <3>3. Leads(Append(p, x), f)
        BY <1>3, <1>4, <3>1, <3>2, LeadsOn DEF PlainPaths
      <3> HIDE DEF x
      <3>4. /\ p \in DOMAIN Trees[side]
            /\ \E y \in ToSet(Trees[side][p]) : y.name = x /\ y.kind = "D"
        BY <1>4, <2>4, <3>1, ListedAbove
      <3> QED BY <2>3, <2>4, <3>3, <3>4 DEF Taken
    <2> QED BY <2>5, <2>6
  <1> QED BY <1>4, <1>5, <1>6

----------------------------------------------------------------------------
(* The walk.                                                               *)
CopySides == {"left", "right"}
ChoiceStates == [side : CopySides, names : Paths, at : {"panel", "asked", "walk", "done"}]
StepKinds == STRING \cup {"W", "D"}
WalkSteps == [kind : StepKinds, path : Paths, name : STRING, glued : BOOLEAN]
Queued    == [side : CopySides, path : Paths, name : STRING]

CopyTyped ==
  /\ chosen \in ChoiceStates /\ todo \in Seq(WalkSteps) /\ queue \in Seq(Queued)
  /\ before \in 0..Len(queue)
  /\ chosen.at # "panel" =>
       chosen.side \in DOMAIN Trees /\ chosen.names \in MarkedSets[chosen.side]
  /\ chosen.at # "walk" => todo = <<>>

Places(t) == {Full(t[i]) : i \in 1..Len(t)}
Sole(t)   == \A i, j \in 1..Len(t) : Full(t[i]) = Full(t[j]) => i = j

Due     == {f \in FilesOf(chosen.side) :
              (\E w \in Wanted : Leads(w, f)) /\ ~Deep(f)}
Reached == {Full(queue[k]) : k \in {x \in before + 1..Len(queue) : ~Deep(Full(queue[x]))}}

(* What was queued as itself was queued once; the rest is another entry.   *)
OnceOwn(q) ==
  /\ \A k, l \in before + 1..Len(q) :
       ~Deep(Full(q[k])) /\ Full(q[k]) = Full(q[l]) => k = l
  /\ \A k \in before + 1..Len(q) :
       Deep(Full(q[k])) => IsThere(chosen.side, GluedPath(Full(q[k])))

StartsWell(e) ==
  /\ InTree(chosen.side, e.path, e.name, e.kind)
  /\ e.glued = Deep(Full(e))
  /\ \E w \in Wanted : Leads(w, Full(e))

Plainly == chosen.at \in {"walk", "done"} /\ ".." \notin ToSet(chosen.names)
WalkHolds ==
  /\ \A i \in 1..Len(todo) : StartsWell(todo[i])
  /\ Sole(todo)
  /\ Covers(Due, Places(todo), Reached, closedNow)
  /\ OnceOwn(queue)

CopyInv == CopyTyped /\ (Plainly => WalkHolds)

LEMMA HeadAndTail ==
  ASSUME NEW t \in Seq(WalkSteps), t # <<>>
  PROVE  /\ Tail(t) \in Seq(WalkSteps) /\ Len(Tail(t)) = Len(t) - 1 /\ Len(t) \in Nat
         /\ Head(t) \in WalkSteps /\ 1 \in 1..Len(t) /\ Head(t) = t[1]
         /\ \A i \in 1..Len(Tail(t)) : i + 1 \in 1..Len(t) /\ Tail(t)[i] = t[i + 1]
         /\ Full(Head(t)) \in Places(t)
         /\ Sole(t) => Sole(Tail(t)) /\ Places(Tail(t)) = Places(t) \ {Full(Head(t))}
  <1> DEFINE r == Tail(t)
             h == Head(t)
  <1>1. /\ r \in Seq(WalkSteps) /\ Len(r) = Len(t) - 1 /\ Len(t) \in Nat
        /\ h = t[1] /\ 1 \in 1..Len(t)
        /\ \A i \in 1..Len(r) : i + 1 \in 1..Len(t) /\ r[i] = t[i + 1]
    OBVIOUS
  <1>2. h \in WalkSteps
    BY <1>1
  <1> HIDE DEF r, h
  <1>3. Full(h) \in Places(t)
    BY <1>1 DEF Places
  <1>4. ASSUME Sole(t)
        PROVE  Sole(r) /\ Places(r) = Places(t) \ {Full(h)}
    <2>1. Sole(r)
      BY <1>1, <1>4 DEF Sole
    <2>2. \A i \in 1..Len(r) : Full(r[i]) # Full(h)
      BY <1>1, <1>4 DEF Sole
    <2>3. \A j \in 1..Len(t) : j = 1 \/ (j - 1 \in 1..Len(r) /\ (j - 1) + 1 = j)
      BY <1>1
    <2>4. \A j \in 1..Len(t) : j = 1 \/ (\E i \in 1..Len(r) : t[j] = r[i])
      BY <1>1, <2>3
    <2>5. Places(r) \subseteq Places(t) \ {Full(h)}
      BY <1>1, <2>2 DEF Places
    <2>6. Places(t) \ {Full(h)} \subseteq Places(r)
      BY <1>1, <2>4 DEF Places
    <2> QED BY <2>1, <2>5, <2>6
  <1> QED BY <1>1, <1>2, <1>3, <1>4 DEF r, h

LEMMA Joined ==
  ASSUME NEW s \in Seq(WalkSteps), NEW t \in Seq(WalkSteps)
  PROVE  /\ s \o t \in Seq(WalkSteps) /\ Places(s \o t) = Places(s) \cup Places(t)
         /\ \A i \in 1..Len(s \o t) : \/ \E j \in 1..Len(s) : (s \o t)[i] = s[j]
                                      \/ \E j \in 1..Len(t) : (s \o t)[i] = t[j]
         /\ Sole(s) /\ Sole(t) /\ Places(s) \cap Places(t) = {} => Sole(s \o t)
  <1> DEFINE c == s \o t
             m == Len(s)
             n == Len(t)
  <1>1. /\ c \in Seq(WalkSteps) /\ Len(c) = m + n /\ m \in Nat /\ n \in Nat
        /\ \A i \in 1..Len(c) : c[i] = IF i <= m THEN s[i] ELSE t[i - m]
    BY ConcatProperties, LenProperties
  <1> HIDE DEF c, m, n
  <1>2. \A i \in 1..Len(c) : \/ i \in 1..m /\ c[i] = s[i]
                             \/ i - m \in 1..n /\ c[i] = t[i - m]
    BY <1>1
  <1>3. /\ \A i \in 1..m : i \in 1..Len(c) /\ c[i] = s[i]
        /\ \A i \in 1..n : i + m \in 1..Len(c) /\ c[i + m] = t[i]
    BY <1>1
  <1>4. Places(c) = Places(s) \cup Places(t)
    <2>1. Places(c) \subseteq Places(s) \cup Places(t)
      BY <1>2 DEF Places, m, n
    <2>2. Places(s) \cup Places(t) \subseteq Places(c)
      BY <1>3 DEF Places, m, n
    <2> QED BY <2>1, <2>2
  <1>5. \A i \in 1..Len(c) : \/ \E j \in 1..Len(s) : c[i] = s[j]
                             \/ \E j \in 1..Len(t) : c[i] = t[j]
    BY <1>2 DEF m, n
  <1>6. ASSUME Sole(s), Sole(t), Places(s) \cap Places(t) = {}
        PROVE  Sole(c)
    <2> SUFFICES ASSUME NEW i \in 1..Len(c), NEW j \in 1..Len(c), Full(c[i]) = Full(c[j])
                 PROVE  i = j
      BY DEF Sole
    <2>1. CASE i \in 1..m /\ c[i] = s[i] /\ j \in 1..m /\ c[j] = s[j]
      BY <1>6, <2>1 DEF Sole, m
    <2>2. CASE i - m \in 1..n /\ c[i] = t[i - m] /\ j - m \in 1..n /\ c[j] = t[j - m]
      <3>1. i - m = j - m
        BY <1>6, <2>2 DEF Sole, n
      <3> QED BY <1>1, <3>1
    <2>3. CASE i \in 1..m /\ c[i] = s[i] /\ j - m \in 1..n /\ c[j] = t[j - m]
      <3>1. Full(c[i]) \in Places(s) /\ Full(c[j]) \in Places(t)
        BY <2>3 DEF Places, m, n
      <3> QED BY <1>6, <3>1
    <2>4. CASE i - m \in 1..n /\ c[i] = t[i - m] /\ j \in 1..m /\ c[j] = s[j]
      <3>1. Full(c[i]) \in Places(t) /\ Full(c[j]) \in Places(s)
        BY <2>4 DEF Places, m, n
      <3> QED BY <1>6, <3>1
    <2> QED BY <1>2, <2>1, <2>2, <2>3, <2>4
  <1> QED BY <1>1, <1>4, <1>5, <1>6 DEF c

LEMMA FilesArePlain ==
  ASSUME NEW side \in DOMAIN Trees
  PROVE  FilesOf(side) \subseteq PlainPaths
  <1> SUFFICES ASSUME NEW f \in FilesOf(side) PROVE f \in PlainPaths
    OBVIOUS
  <1>1. PICK d \in DOMAIN Trees[side] : \E e \in ToSet(Trees[side][d]) :
          IsFile(side, e) /\ f = Append(d, e.name)
    BY DEF FilesOf
  <1>2. PICK e \in ToSet(Trees[side][d]) : f = Append(d, e.name)
    BY <1>1
  <1>3. d \in PlainPaths /\ e.name \in PlainNames
    <2>1. Trees[side][d] \in Seq(Entered)
      BY TreesAre
    <2>2. e \in Entered
      BY <2>1 DEF ToSet
    <2> QED BY <2>2, TreesAre DEF Entered
  <1> QED BY <1>2, <1>3, LeadsBelow DEF PlainPaths

(* What the entries of the walk are in the tree.                           *)
LEMMA StartIs ==
  ASSUME CopyTyped, chosen.at = "walk", NEW e \in WalkSteps, StartsWell(e)
  PROVE  /\ Full(e) \in PlainPaths /\ Leads(Base[chosen.side], Full(e)) /\ e.path \in PlainPaths
         /\ Len(Full(e)) = Len(e.path) + 1 /\ Len(e.path) \in Nat
         /\ Resolved(Full(e)) = Full(e)
         /\ \A f \in Due : Leads(Full(e), f) /\ f # Full(e) =>
              /\ e.kind = "D" \/ (chosen.side = "right" /\ e.kind = "W")
              /\ Full(e) \in DOMAIN Trees[chosen.side]
              /\ \E x \in ToSet(Trees[chosen.side][Full(e)]) :
                   Taken(chosen.side, x) /\ Leads(Append(Full(e), x.name), f)
         /\ e.kind = "D" => Full(e) \notin Due
         /\ e.kind # "D" /\ IsFile(chosen.side, e) /\ ~e.glued => Full(e) \in Due
  <1> DEFINE side == chosen.side
             p == Full(e)
             T == Trees[side]
  <1>1. side \in DOMAIN Trees /\ side \in {"left", "right"}
    BY TreeAssumption DEF CopyTyped
  <1>2. InTree(side, e.path, e.name, e.kind) /\ p = Append(e.path, e.name)
    BY DEF StartsWell, Full
  <1>3. PICK x \in ToSet(T[e.path]) :
          x.name = e.name /\ (x.kind = e.kind \/ (side = "right" /\ e.kind = "W"))
    BY <1>2 DEF InTree
  <1>4. e.path \in PlainPaths /\ Base[side] \in PlainPaths /\ e.name \in PlainNames /\ e.path \in DOMAIN T
    BY <1>1, <1>2, TreesAre DEF InTree
  <1>5. /\ p \in PlainPaths /\ Len(p) = Len(e.path) + 1 /\ Leads(e.path, p)
        /\ Len(e.path) \in Nat
    BY <1>2, <1>4, LeadsBelow DEF PlainPaths
  <1>6. Leads(Base[side], p)
    BY <1>2, <1>4, <1>5, LeadsOn DEF PlainPaths, InTree
  <1>7. Resolved(p) = p
    BY <1>5, ResolvedIs
  <1>8. ASSUME NEW f \in Due, Leads(p, f), f # p
        PROVE  /\ e.kind = "D" \/ (side = "right" /\ e.kind = "W")
               /\ p \in DOMAIN T
               /\ \E y \in ToSet(T[p]) : Taken(side, y) /\ Leads(Append(p, y.name), f)
    <2>1. f \in FilesOf(side)
      BY DEF Due
    <2>2. /\ \A y \in ToSet(T[e.path]) : y.name = e.name => y.kind = "D"
          /\ p \in DOMAIN T
          /\ \E y \in ToSet(T[p]) : Taken(side, y) /\ Leads(Append(p, y.name), f)
      BY <1>1, <1>2, <1>8, <2>1, FileBelow
    <2> QED BY <1>3, <2>2
  <1>9. ASSUME e.kind = "D"
        PROVE  p \notin Due
    <2> SUFFICES ASSUME p \in Due PROVE FALSE
      OBVIOUS
    <2>1. p \in FilesOf(side) /\ Leads(p, p)
      BY <1>5 DEF Due, Leads, PlainPaths
    <2>2. \A y \in ToSet(T[e.path]) : y.name = e.name => IsFile(side, y)
      <3>1. \A f \in FilesOf(side) : Leads(Append(e.path, e.name), f) =>
              (f = Append(e.path, e.name) =>
                 \A y \in ToSet(T[e.path]) : y.name = e.name => IsFile(side, y))
        <4> SUFFICES ASSUME NEW f \in FilesOf(side), Leads(Append(e.path, e.name), f),
                            f = Append(e.path, e.name), NEW y \in ToSet(T[e.path]),
                            y.name = e.name
                     PROVE  IsFile(side, y)
          OBVIOUS
        <4>1. LET c == Append(e.path, e.name)
              IN  f = c => \A z \in ToSet(T[e.path]) : z.name = e.name => IsFile(side, z)
          BY <1>1, <1>2, FileBelow
        <4> QED BY <4>1
      <3>2. Append(e.path, e.name) = p
        BY <1>2
      <3> QED BY <2>1, <3>1, <3>2
    <2> QED BY <1>3, <1>9, <2>2 DEF IsFile
  <1>10. ASSUME e.kind # "D", IsFile(side, e), ~e.glued
         PROVE  p \in Due
    <2>1. IsFile(side, x)
      BY <1>3, <1>10 DEF IsFile
    <2>2. p \in FilesOf(side)
      BY <1>2, <1>3, <1>4, <2>1 DEF FilesOf
    <2> QED BY <1>10, <2>2 DEF Due, StartsWell
  <1> QED BY <1>4, <1>5, <1>6, <1>7, <1>8, <1>9, <1>10

LEMMA EntriesTyped ==
  ASSUME NEW side \in DOMAIN Trees, NEW path
  PROVE  Entries(side, path) \in Seq(Entered)
  <1>1. CASE Resolved(path) \in DOMAIN Trees[side]
    BY <1>1, TreesAre DEF Entries
  <1>2. CASE Resolved(path) \notin DOMAIN Trees[side]
    BY <1>2 DEF Entries
  <1> QED BY <1>1, <1>2

LEMMA BelowTyped ==
  ASSUME NEW side \in DOMAIN Trees, NEW e \in WalkSteps
  PROVE  /\ Below(side, e) \in Seq(WalkSteps)
         /\ \A i \in 1..Len(Below(side, e)) : \E x \in ToSet(Entries(side, Full(e))) :
              /\ Taken(side, x)
              /\ Below(side, e)[i] = [kind |-> x.kind, path |-> Full(e), name |-> x.name,
                                      glued |-> GluedBelow(side, e)]
         /\ \A x \in ToSet(Entries(side, Full(e))) : Taken(side, x) =>
              \E i \in 1..Len(Below(side, e)) : Below(side, e)[i].name = x.name
         /\ Sole(Below(side, e))
  <1> DEFINE all    == Entries(side, Full(e))
             places == {i \in DOMAIN all : Taken(side, all[i])}
             inside == Keep(all, places)
             g      == GluedBelow(side, e)
             Child(x) == [kind |-> x.kind, path |-> Full(e), name |-> x.name, glued |-> g]
             below  == [i \in DOMAIN inside |-> Child(inside[i])]
  <1>1. all \in Seq(Entered) /\ places \subseteq 1..Len(all) /\ DOMAIN all = 1..Len(all)
    BY EntriesTyped
  <1>2. /\ inside \in Seq(Entered) /\ Elems(inside) = {all[i] : i \in places}
        /\ (\A i, j \in places : all[i] = all[j] => i = j) => Once(inside)
    <2> HIDE DEF all, places
    <2> QED BY <1>1, KeepIs
  <1>3. Below(side, e) = below
    BY DEF Below
  <1> HIDE DEF inside
  <1>4. Full(e) \in Paths /\ g \in BOOLEAN
    <2>1. e.path \in Seq(STRING) /\ e.name \in STRING
      BY DEF WalkSteps, Paths
    <2>2. Full(e) \in Seq(STRING)
      BY <2>1, LeadsBelow DEF Full
    <2> QED BY <2>2 DEF GluedBelow, Paths
  <1>5. /\ below \in Seq(WalkSteps) /\ Len(below) = Len(inside)
        /\ \A i \in 1..Len(inside) : below[i] = Child(inside[i])
    <2>1. DOMAIN inside = 1..Len(inside) /\ Len(inside) \in Nat
      BY <1>2
    <2>2. \A x \in Entered : Child(x) \in WalkSteps
      BY <1>4 DEF Entered, WalkSteps, PlainNames, StepKinds
    <2>3. \A i \in 1..Len(inside) : inside[i] \in Entered
      BY <1>2
    <2> HIDE DEF Child
    <2>4. below \in [1..Len(inside) -> WalkSteps]
      BY <2>1, <2>2, <2>3
    <2> QED BY <2>1, <2>4
  <1>6. \A i \in 1..Len(inside) : \E k \in places : inside[i] = all[k]
    BY <1>2 DEF Elems
  <1>7. \A k \in places : \E i \in 1..Len(inside) : inside[i] = all[k]
    BY <1>2 DEF Elems
  <1>8. \A i \in 1..Len(below) : \E x \in ToSet(all) : Taken(side, x) /\ below[i] = Child(x)
    BY <1>5, <1>6 DEF ToSet
  <1>9. ASSUME NEW x \in ToSet(all), Taken(side, x)
        PROVE  \E i \in 1..Len(below) : below[i].name = x.name
    <2>1. PICK k \in places : x = all[k]
      BY <1>9 DEF ToSet
    <2>2. PICK i \in 1..Len(inside) : inside[i] = x
      BY <1>7, <2>1
    <2> QED BY <1>5, <2>2
  <1>10. \A i, j \in DOMAIN all : all[i].name = all[j].name => i = j
    <2>1. CASE Resolved(Full(e)) \in DOMAIN Trees[side]
      BY <2>1, TreeAssumption DEF Entries
    <2>2. CASE Resolved(Full(e)) \notin DOMAIN Trees[side]
      BY <2>2 DEF Entries
    <2> QED BY <2>1, <2>2
  <1>11. Sole(below)
    <2> SUFFICES ASSUME NEW i \in 1..Len(below), NEW j \in 1..Len(below),
                        Full(below[i]) = Full(below[j])
                 PROVE  i = j
      BY DEF Sole
    <2>1. inside[i] \in Entered /\ inside[j] \in Entered
      BY <1>2, <1>5
    <2>2. Append(Full(e), inside[i].name) = Append(Full(e), inside[j].name)
      <3>1. /\ below[i].path = Full(e) /\ below[i].name = inside[i].name
            /\ below[j].path = Full(e) /\ below[j].name = inside[j].name
        BY <1>5
      <3>2. Append(below[i].path, below[i].name) = Append(below[j].path, below[j].name)
        BY DEF Full
      <3> HIDE DEF below
      <3> QED BY <3>1, <3>2
    <2>3. inside[i].name \in STRING /\ inside[j].name \in STRING
      BY <2>1 DEF Entered, PlainNames
    <2>4. inside[i].name = inside[j].name
      BY <1>4, <2>2, <2>3, SameChild DEF Paths
    <2>5. \E k, l \in places : inside[i] = all[k] /\ inside[j] = all[l]
      BY <1>5, <1>6
    <2>6. inside[i] = inside[j]
      BY <1>10, <2>4, <2>5
    <2>7. Once(inside)
      BY <1>2, <1>10
    <2> QED BY <1>5, <2>6, <2>7 DEF Once
  <1> HIDE DEF below, all
  <1> QED BY <1>3, <1>5, <1>8, <1>9, <1>11 DEF all

(* The entries of a directory of the walk.                                 *)
LEMMA BelowStarts ==
  ASSUME CopyTyped, chosen.at = "walk", NEW e \in WalkSteps, StartsWell(e),
         NEW i \in 1..Len(Below(chosen.side, e))
  PROVE  StartsWell(Below(chosen.side, e)[i])
  <1> DEFINE side == chosen.side
             p == Full(e)
             c == Below(side, e)[i]
             T == Trees[side]
  <1>1. side \in DOMAIN Trees /\ side \in {"left", "right"}
    BY TreeAssumption DEF CopyTyped
  <1>2. PICK x \in ToSet(Entries(side, p)) : /\ Taken(side, x)
          /\ c = [kind |-> x.kind, path |-> p, name |-> x.name,
                  glued |-> GluedBelow(side, e)]
    BY <1>1, BelowTyped
  <1>3. /\ p \in PlainPaths /\ Leads(Base[side], p) /\ Resolved(p) = p /\ e.path \in PlainPaths
        /\ Len(p) = Len(e.path) + 1 /\ Len(e.path) \in Nat
    BY StartIs
  <1>4. p \in DOMAIN T /\ Entries(side, p) = T[p]
    <2>1. CASE p \in DOMAIN T
      BY <1>1, <2>1, TreesAre
    <2>2. CASE p \notin DOMAIN T
      <3>1. Entries(side, p) = <<>>
        BY <1>3, <2>2 DEF Entries
      <3> QED BY <1>2, <3>1 DEF ToSet
    <2> QED BY <2>1, <2>2
  <1>5. x \in Entered
    BY <1>1, <1>4, TreesAre DEF ToSet
  <1>6. InTree(side, c.path, c.name, c.kind)
    BY <1>2, <1>3, <1>4, <1>5 DEF InTree, Entered
  <1>7. /\ Full(c) \in Seq(PlainNames) /\ Len(Full(c)) = Len(p) + 1 /\ Leads(p, Full(c))
    <2>1. Full(c) = Append(p, x.name) /\ x.name \in PlainNames
      BY <1>2, <1>5 DEF Full, Entered
    <2> QED BY <1>3, <2>1, LeadsBelow DEF PlainPaths
  <1>8. c.glued = Deep(Full(c))
    <2>1. CASE side = "right"
      BY <1>2, <2>1 DEF Deep, GluedBelow
    <2>2. CASE side = "left"
      <3>1. Base["left"] \in Seq(PlainNames) /\ e.path \in Seq(PlainNames) /\ Leads(Base["left"], e.path)
        BY <1>1, <1>3, <1>4, <2>2, TreesAre DEF StartsWell, InTree, PlainPaths
      <3>2. e.path # Base["left"] <=> Len(e.path) > Len(Base["left"])
        BY <3>1 DEF Leads
      <3>3. Deep(Full(c)) <=> Len(e.path) + 2 > Len(Base["left"]) + 2
        BY <1>3, <1>7, <2>2 DEF Deep
      <3>4. c.glued <=> e.path # Base["left"]
        <4>1. GluedBelow(side, e) <=> e.path # Base["left"]
          BY <2>2 DEF GluedBelow
        <4>2. c.glued = GluedBelow(side, e)
          BY <1>2
        <4> QED BY <4>1, <4>2
      <3>5. Len(Base["left"]) \in Nat
        BY <3>1
      <3>6. c.glued <=> Deep(Full(c))
        BY <1>3, <3>2, <3>3, <3>4, <3>5
      <3>7. c.glued \in BOOLEAN /\ Deep(Full(c)) \in BOOLEAN
        BY <1>2 DEF Deep, GluedBelow
      <3> QED BY <3>6, <3>7
    <2> QED BY <1>1, <2>1, <2>2
  <1>9. \E w \in Wanted : Leads(w, Full(c))
    <2>1. PICK w \in Wanted : Leads(w, p)
      BY DEF StartsWell
    <2>2. Leads(w, Full(c))
      <3>1. \A j \in 1..Len(p) : p[j] = Full(c)[j]
        BY <1>7 DEF Leads
      <3>2. /\ Len(w) <= Len(p) /\ \A j \in 1..Len(w) : w[j] = p[j]
        BY <2>1 DEF Leads
      <3>3. Len(p) <= Len(Full(c)) /\ Len(p) \in Nat
        BY <1>3, <1>7 DEF PlainPaths
      <3> QED BY <3>1, <3>2, <3>3 DEF Leads
    <2> QED BY <2>2
  <1> QED BY <1>6, <1>8, <1>9 DEF StartsWell

----------------------------------------------------------------------------
(* The steps.                                                              *)
LEMMA KindTyped ==
  ASSUME NEW side \in DOMAIN Trees, NEW names \in MarkedSets[side], NEW i \in 1..Len(names)
  PROVE  /\ names \in Paths /\ names[i] \in STRING
         /\ KindOf(side, Base[side], names[i]) \in StepKinds
         /\ names[i] # ".." => InTree(side, Base[side], names[i],
                                      KindOf(side, Base[side], names[i]))
  <1> DEFINE B == Base[side]
             x == names[i]
             T == Trees[side]
  <1>1. /\ names \in Seq(STRING) /\ B \in DOMAIN T /\ x \in STRING
        /\ x # ".." => \E e \in ToSet(T[B]) : e.name = x
    BY MarksAssumption
  <1>2. Entries(side, B) = T[B] /\ B \in Seq(PlainNames) /\ T[B] \in Seq(Entered)
    BY <1>1, TreesAre DEF PlainPaths
  <1>3. CASE side = "right" /\ levelNow = "network"
    <2>1. KindOf(side, B, x) = "W"
      BY <1>3 DEF KindOf
    <2>2. x # ".." => x \in PlainNames
      BY <1>1 DEF PlainNames
    <2>3. Leads(B, B)
      BY <1>2 DEF Leads
    <2>4. ASSUME x # ".."
          PROVE  InTree(side, B, x, "W")
      <3>1. PICK e \in ToSet(T[B]) : e.name = x
        BY <1>1, <2>4
      <3> QED BY <1>1, <1>3, <2>2, <2>3, <2>4, <3>1 DEF InTree
    <2>5. names \in Paths /\ "W" \in StepKinds
      BY <1>1 DEF Paths, StepKinds
    <2> QED BY <1>1, <2>1, <2>4, <2>5
  <1>4. CASE ~(side = "right" /\ levelNow = "network") /\ x = ".."
    <2>1. KindOf(side, B, x) = "D"
      BY <1>4 DEF KindOf
    <2>2. names \in Paths /\ "D" \in StepKinds
      BY <1>1 DEF Paths, StepKinds
    <2> QED BY <1>1, <1>4, <2>1, <2>2
  <1>5. CASE ~(side = "right" /\ levelNow = "network") /\ x # ".."
    <2> DEFINE e == CHOOSE e \in ToSet(Entries(side, B)) : e.name = x
    <2>1. KindOf(side, B, x) = e.kind
      BY <1>5 DEF KindOf
    <2>2. e \in ToSet(T[B]) /\ e.name = x
      BY <1>1, <1>2, <1>5
    <2> HIDE DEF e
    <2>3. e \in Entered
      BY <1>2, <2>2 DEF ToSet
    <2>4. Leads(B, B)
      BY <1>2 DEF Leads
    <2> QED BY <1>1, <2>1, <2>2, <2>3, <2>4 DEF Paths, InTree, Entered, StepKinds
  <1> QED BY <1>3, <1>4, <1>5

LEMMA AgreeStarts ==
  ASSUME CopyTyped, AgreeCopy
  PROVE  /\ todo' \in Seq(WalkSteps) /\ Len(todo') = Len(chosen.names)
         /\ \A i \in 1..Len(chosen.names) :
              /\ todo'[i].kind = KindOf(chosen.side, Base[chosen.side], chosen.names[i])
              /\ todo'[i].path = Base[chosen.side] /\ todo'[i].name = chosen.names[i]
              /\ todo'[i].glued = FALSE
  <1> DEFINE side == chosen.side
             names == chosen.names
             From(i) == [kind |-> KindOf(side, Base[side], names[i]),
                         path |-> Base[side], name |-> names[i], glued |-> FALSE]
  <1>1. side \in DOMAIN Trees /\ names \in MarkedSets[side] /\ names \in Seq(STRING)
    BY DEF CopyTyped, AgreeCopy, ChoiceStates, Paths
  <1>2. Base[side] \in Seq(STRING)
    <2>1. Base[side] \in Seq(PlainNames)
      BY <1>1, MarksAssumption, TreesAre DEF PlainPaths
    <2> QED BY <2>1 DEF PlainNames
  <1>3. \A i \in 1..Len(names) : From(i) \in WalkSteps
    <2> SUFFICES ASSUME NEW i \in 1..Len(names) PROVE From(i) \in WalkSteps
      OBVIOUS
    <2>1. names[i] \in STRING /\ KindOf(side, Base[side], names[i]) \in StepKinds
      BY <1>1, KindTyped
    <2> QED BY <1>2, <2>1 DEF WalkSteps, Paths
  <1>4. todo' = [i \in 1..Len(names) |-> From(i)]
    BY <1>1 DEF AgreeCopy, Entry
  <1> HIDE DEF From
  <1>5. todo' \in [1..Len(names) -> WalkSteps] /\ Len(names) \in Nat
    BY <1>1, <1>3, <1>4
  <1>6. /\ todo' \in Seq(WalkSteps) /\ Len(todo') = Len(names)
        /\ \A i \in 1..Len(names) : todo'[i] = From(i)
    BY <1>4, <1>5
  <1>7. ASSUME NEW i \in 1..Len(names)
        PROVE  /\ todo'[i].kind = KindOf(side, Base[side], names[i])
               /\ todo'[i].path = Base[side] /\ todo'[i].name = names[i]
               /\ todo'[i].glued = FALSE
    <2> DEFINE k == KindOf(side, Base[side], names[i])
    <2>1. todo'[i] = [kind |-> k, path |-> Base[side], name |-> names[i], glued |-> FALSE]
      BY <1>6 DEF From
    <2> HIDE DEF k
    <2>2. /\ todo'[i].kind = k /\ todo'[i].path = Base[side] /\ todo'[i].name = names[i]
          /\ todo'[i].glued = FALSE
      BY <2>1
    <2> QED BY <2>2 DEF k
  <1> QED BY <1>6, <1>7

LEMMA AgreeStep == CopyInv /\ AgreeCopy => CopyInv'
  <1> SUFFICES ASSUME CopyInv, AgreeCopy PROVE CopyInv'
    OBVIOUS
  <1> DEFINE side == chosen.side
             names == chosen.names
             B == Base[side]
             Set == {names[i] : i \in 1..Len(names)}
             below == {Append(B, x) : x \in Set}
  <1>1. /\ side \in DOMAIN Trees /\ names \in MarkedSets[side] /\ names \in Seq(STRING)
        /\ side' = side /\ names' = names /\ chosen' \in ChoiceStates /\ chosen'.at = "walk"
        /\ side \in {"left", "right"}
    <2>1. /\ side \in DOMAIN Trees /\ names \in MarkedSets[side] /\ chosen \in ChoiceStates
          /\ chosen' = [chosen EXCEPT !.at = "walk"]
      BY DEF CopyInv, CopyTyped, AgreeCopy
    <2>2. side' = side /\ names' = names /\ chosen' \in ChoiceStates /\ chosen'.at = "walk"
      BY <2>1 DEF ChoiceStates
    <2>3. names \in Seq(STRING) /\ side \in {"left", "right"}
      BY <2>1, TreeAssumption DEF ChoiceStates, Paths, CopySides
    <2> QED BY <2>1, <2>2, <2>3
  <1>2. /\ todo' \in Seq(WalkSteps) /\ Len(todo') = Len(names)
        /\ \A i \in 1..Len(names) :
             /\ todo'[i].kind = KindOf(side, B, names[i]) /\ todo'[i].path = B
             /\ todo'[i].name = names[i] /\ todo'[i].glued = FALSE
    BY AgreeStarts DEF CopyInv
  <1>3. CopyTyped'
    <2>1. queue' = queue /\ before' = Len(queue) /\ queue \in Seq(Queued)
      BY DEF AgreeCopy, CopyInv, CopyTyped
    <2> QED BY <1>1, <1>2, <2>1 DEF CopyTyped
  <1>4. ASSUME Plainly'
        PROVE  WalkHolds'
    <2>1. \A i \in 1..Len(names) : names[i] # ".." /\ names[i] \in PlainNames
      BY <1>1, <1>4 DEF Plainly, ToSet, PlainNames
    <2>2. B \in PlainPaths /\ B \in DOMAIN Trees[side]
      BY <1>1, MarksAssumption, TreesAre
    <2>3. \A i \in 1..Len(names) : /\ Full(todo'[i]) = Append(B, names[i])
                                   /\ Append(B, names[i]) \in PlainPaths
                                   /\ Len(Append(B, names[i])) = Len(B) + 1
                                   /\ Leads(B, Append(B, names[i]))
      <3> SUFFICES ASSUME NEW i \in 1..Len(names)
                   PROVE  /\ Full(todo'[i]) = Append(B, names[i])
                          /\ Append(B, names[i]) \in PlainPaths
                          /\ Len(Append(B, names[i])) = Len(B) + 1
                          /\ Leads(B, Append(B, names[i]))
        OBVIOUS
      <3>1. Full(todo'[i]) = Append(B, names[i])
        <4>1. todo'[i].path = B /\ todo'[i].name = names[i]
          BY <1>2
        <4> QED BY <4>1 DEF Full
      <3> QED BY <2>1, <2>2, <3>1, LeadsBelow DEF PlainPaths
    <2>4. Wanted' = below
      <3>1. Wanted' = {Resolved(Append(B, names[i])) : i \in 1..Len(names)}
        BY <1>1 DEF Wanted
      <3>2. \A i \in 1..Len(names) : Resolved(Append(B, names[i])) = Append(B, names[i])
        BY <2>3, ResolvedIs
      <3> QED BY <3>1, <3>2
    <2>5. Places(todo') = below
      <3> DEFINE Child(i) == Append(B, names[i])
      <3>1. Places(todo') = {Full(todo'[i]) : i \in 1..Len(names)}
        BY <1>2 DEF Places
      <3>2. \A i \in 1..Len(names) : Full(todo'[i]) = Child(i)
        BY <2>3
      <3>3. below = {Child(i) : i \in 1..Len(names)}
        OBVIOUS
      <3> HIDE DEF Child, below
      <3> QED BY <3>1, <3>2, <3>3
    <2>6. Sole(todo')
      <3> SUFFICES ASSUME NEW i \in 1..Len(names), NEW j \in 1..Len(names),
                          Append(B, names[i]) = Append(B, names[j])
                   PROVE  i = j
        BY <1>2, <2>3 DEF Sole
      <3>1. names[i] = names[j]
        BY <2>1, <2>2, SameChild DEF PlainPaths
      <3>2. \A k, l \in DOMAIN names : names[k] = names[l] => k = l
        BY <1>1, MarksAssumption
      <3> QED BY <1>1, <3>1, <3>2
    <2>7. Reached' = {}
      <3>1. before' = Len(queue) /\ queue' = queue /\ Len(queue) \in Nat
        BY DEF AgreeCopy, CopyInv, CopyTyped
      <3>2. before' + 1..Len(queue') = {}
        BY <3>1
      <3> QED BY <3>2 DEF Reached
    <2>8. Due' \subseteq PlainPaths /\ \A f \in Due' : \E w \in below : Leads(w, f)
      <3>1. \A f \in Due' : f \in FilesOf(side) /\ \E w \in Wanted' : Leads(w, f)
        BY <1>1 DEF Due
      <3>2. Due' \subseteq PlainPaths
        BY <1>1, <3>1, FilesArePlain
      <3> QED BY <2>4, <3>1, <3>2
    <2>9. Covers(Due', below, {}, {})
      <3>1. Covers(Due', {B}, {}, {})
        <4>1. \A w \in below : w \in PlainPaths /\ Leads(B, w)
          BY <2>3
        <4>2. \A f \in Due' : Leads(B, f)
          <5> SUFFICES ASSUME NEW f \in Due' PROVE Leads(B, f)
            OBVIOUS
          <5>1. PICK w \in below : Leads(w, f)
            BY <2>8
          <5> QED BY <2>2, <2>8, <4>1, <5>1, LeadsOn DEF PlainPaths
        <4> QED BY <2>2, <2>8, <4>2 DEF Covers
      <3>2. Set \subseteq PlainNames
        BY <2>1
      <3>3. \A f \in Due' : Leads(B, f) => \E x \in Set : Leads(Append(B, x), f)
        BY <2>8
      <3> DEFINE due == Due'
      <3> HIDE DEF Set, due
      <3>4. LET below1 == {Append(B, x) : x \in Set}
            IN  Covers(due, ({B} \ {B}) \cup below1, {}, {})
        <4>1. B \in {B} /\ Covers(due, {B}, {}, {})
          BY <3>1 DEF due
        <4>2. \A f \in due : Leads(B, f) => \E x \in Set : Leads(Append(B, x), f)
          BY <3>3 DEF due
        <4>3. ASSUME NEW open, NEW p \in open, Covers(due, open, {}, {}),
                     \A f \in due : Leads(p, f) => \E x \in Set : Leads(Append(p, x), f)
              PROVE  LET below1 == {Append(p, x) : x \in Set}
                     IN  Covers(due, (open \ {p}) \cup below1, {}, {})
          BY <3>2, <4>3, OpeningCovered
        <4> QED BY <4>1, <4>2, <4>3
      <3>5. Covers(due, {Append(B, x) : x \in Set}, {}, {})
        <4>1. ({B} \ {B}) \cup {Append(B, x) : x \in Set} = {Append(B, x) : x \in Set}
          OBVIOUS
        <4> QED BY <3>4, <4>1
      <3> QED BY <3>5 DEF due
    <2>10. closedNow' = {}
      BY DEF AgreeCopy
    <2>11. ASSUME NEW i \in 1..Len(names)
           PROVE  StartsWell(todo[i])'
      <3>1. /\ todo'[i].path = B /\ todo'[i].name = names[i] /\ todo'[i].glued = FALSE
            /\ todo'[i].kind = KindOf(side, B, names[i])
        BY <1>2
      <3>2. InTree(side, B, names[i], KindOf(side, B, names[i]))
        BY <1>1, <2>1, KindTyped
      <3>3. InTree(side', todo'[i].path, todo'[i].name, todo'[i].kind)
        BY <1>1, <3>1, <3>2
      <3>4. Full(todo'[i]) = Append(B, names[i]) /\ Len(Full(todo'[i])) = Len(B) + 1
        BY <2>3
      <3>5. Deep(Full(todo[i]))' = FALSE
        <4>1. Len(B) \in Nat
          BY <2>2 DEF PlainPaths
        <4>2. Deep(Full(todo[i]))' =
                (chosen'.side = "left" /\ Len(Full(todo'[i])) > Len(Base["left"]) + 2)
          BY DEF Deep
        <4>3. CASE side = "left"
          <5>1. Len(Base["left"]) = Len(B)
            BY <4>3
          <5>2. ~(Len(Full(todo'[i])) > Len(Base["left"]) + 2)
            <6> DEFINE m == Len(Base["left"])
                       k == Len(Full(todo'[i]))
            <6>1. m \in Nat /\ k = m + 1
              BY <3>4, <4>1, <5>1
            <6> HIDE DEF m, k
            <6>2. ~(k > m + 2)
              BY <6>1
            <6> QED BY <6>2 DEF m, k
          <5> QED BY <4>2, <5>2
        <4>4. CASE side # "left"
          BY <1>1, <4>2, <4>4
        <4> QED BY <4>3, <4>4
      <3>6. \E w \in Wanted' : Leads(w, Full(todo'[i]))
        <4> DEFINE p == Append(B, names[i])
        <4>1. p \in Wanted' /\ p \in PlainPaths /\ p = Full(todo'[i])
          BY <2>3, <2>4, <3>4
        <4> HIDE DEF p
        <4>2. Leads(p, p)
          BY <4>1 DEF Leads, PlainPaths
        <4> QED BY <4>1, <4>2
      <3>7. todo'[i].glued = Deep(Full(todo[i]))'
        BY <3>1, <3>5
      <3> QED BY <3>3, <3>6, <3>7 DEF StartsWell
    <2>12. OnceOwn(queue)'
      <3>1. before' = Len(queue) /\ queue' = queue /\ Len(queue) \in Nat
        BY DEF AgreeCopy, CopyInv, CopyTyped
      <3>2. before' + 1..Len(queue') = {}
        BY <3>1
      <3> QED BY <3>2 DEF OnceOwn
    <2>13. Covers(Due', Places(todo'), Reached', closedNow')
      BY <2>5, <2>7, <2>9, <2>10
    <2>14. \A i \in 1..Len(todo') : StartsWell(todo[i])'
      BY <1>2, <2>11
    <2> QED BY <2>6, <2>12, <2>13, <2>14 DEF WalkHolds
  <1> QED BY <1>3, <1>4 DEF CopyInv

(* What the four steps of the walk have in common.                         *)
LEMMA WalkOnIs ==
  ASSUME CopyInv, Walking
  PROVE  /\ CopyTyped /\ chosen.at = "walk" /\ todo # <<>> /\ todo \in Seq(WalkSteps)
         /\ chosen.side \in DOMAIN Trees /\ Next1 \in WalkSteps
         /\ queue \in Seq(Queued) /\ before \in 0..Len(queue)
         /\ Tail(todo) \in Seq(WalkSteps)
         /\ Plainly => /\ WalkHolds /\ StartsWell(Next1) /\ Full(Next1) \in Places(todo)
                       /\ Sole(Tail(todo))
                       /\ Places(Tail(todo)) = Places(todo) \ {Full(Next1)}
                       /\ \A i \in 1..Len(Tail(todo)) : StartsWell(Tail(todo)[i])
  <1>1. /\ CopyTyped /\ chosen.at = "walk" /\ todo # <<>> /\ todo \in Seq(WalkSteps)
        /\ chosen.side \in DOMAIN Trees
        /\ queue \in Seq(Queued) /\ before \in 0..Len(queue)
    BY DEF CopyInv, CopyTyped, Walking
  <1>2. /\ Tail(todo) \in Seq(WalkSteps) /\ Next1 \in WalkSteps
        /\ 1 \in 1..Len(todo) /\ Next1 = todo[1]
        /\ \A i \in 1..Len(Tail(todo)) : i + 1 \in 1..Len(todo) /\ Tail(todo)[i] = todo[i + 1]
        /\ Full(Next1) \in Places(todo)
        /\ Sole(todo) => /\ Sole(Tail(todo))
                         /\ Places(Tail(todo)) = Places(todo) \ {Full(Next1)}
    BY <1>1, HeadAndTail DEF Next1
  <1>3. ASSUME Plainly
        PROVE  /\ WalkHolds /\ StartsWell(Next1) /\ Sole(Tail(todo))
               /\ Places(Tail(todo)) = Places(todo) \ {Full(Next1)}
               /\ \A i \in 1..Len(Tail(todo)) : StartsWell(Tail(todo)[i])
    <2>1. WalkHolds
      BY <1>3 DEF CopyInv
    <2>2. Sole(todo) /\ \A i \in 1..Len(todo) : StartsWell(todo[i])
      BY <2>1 DEF WalkHolds
    <2>3. StartsWell(Next1)
      BY <1>2, <2>2
    <2>4. \A i \in 1..Len(Tail(todo)) : StartsWell(Tail(todo)[i])
      BY <1>2, <2>2
    <2> QED BY <1>2, <2>1, <2>2, <2>3, <2>4
  <1> QED BY <1>1, <1>2, <1>3

(* A step that leaves the choice alone leaves what is due and how an entry *)
(* of the walk is found.                                                   *)
LEMMA SameChoice ==
  ASSUME chosen' = chosen
  PROVE  /\ Due' = Due /\ (Plainly' <=> Plainly)
         /\ \A e : StartsWell(e)' <=> StartsWell(e)
         /\ \A f : Deep(f)' = Deep(f)
  <1>1. Wanted' = Wanted
    BY DEF Wanted
  <1>2. \A f : Deep(f)' = Deep(f)
    BY DEF Deep
  <1>3. Due' = Due
    BY <1>1, <1>2 DEF Due
  <1>4. Plainly' <=> Plainly
    BY DEF Plainly
  <1>5. \A e : StartsWell(e)' <=> StartsWell(e)
    BY <1>1, <1>2 DEF StartsWell
  <1> QED BY <1>2, <1>3, <1>4, <1>5

(* A step that leaves the records of the walk alone leaves them as they    *)
(* were found.                                                             *)
LEMMA SameQueue ==
  ASSUME chosen'.side = chosen.side, before' = before
  PROVE  /\ queue' = queue => Reached' = Reached
         /\ OnceOwn(queue') => OnceOwn(queue)'
  <1>1. \A f : Deep(f)' = Deep(f)
    BY DEF Deep
  <1>2. ASSUME queue' = queue
        PROVE  Reached' = Reached
    BY <1>1, <1>2 DEF Reached
  <1>3. ASSUME OnceOwn(queue')
        PROVE  OnceOwn(queue)'
    BY <1>1, <1>3 DEF OnceOwn
  <1> QED BY <1>2, <1>3

LEMMA WalkKept ==
  ASSUME CopyInv, Walking, chosen' = chosen, before' = before,
         todo' \in Seq(WalkSteps), queue' \in Seq(Queued), Len(queue') >= Len(queue),
         Plainly => /\ \A i \in 1..Len(todo') : StartsWell(todo'[i])
                    /\ Sole(todo')
                    /\ Covers(Due, Places(todo'), Reached', closedNow')
                    /\ OnceOwn(queue')
  PROVE  CopyInv'
  <1>1. CopyTyped'
    <2>1. CopyTyped /\ chosen.at = "walk" /\ Len(queue') \in Nat
      BY WalkOnIs
    <2>2. before' \in 0..Len(queue')
      <3>1. before \in 0..Len(queue) /\ Len(queue) \in Nat
        BY <2>1 DEF CopyTyped
      <3> QED BY <2>1, <3>1
    <2> QED BY <2>1, <2>2 DEF CopyTyped
  <1>2. ASSUME Plainly'
        PROVE  WalkHolds'
    <2>1. Plainly /\ Due' = Due
      BY <1>2, SameChoice
    <2>2. \A i \in 1..Len(todo') : StartsWell(todo[i])'
      <3>1. \A i \in 1..Len(todo') : StartsWell(todo'[i])
        BY <2>1
      <3> QED BY <3>1 DEF StartsWell, Wanted, Deep
    <2>3. OnceOwn(queue)'
      BY <2>1, SameQueue
    <2> QED BY <2>1, <2>2, <2>3 DEF WalkHolds
  <1> QED BY <1>1, <1>2 DEF CopyInv

LEMMA OpenDirStep == CopyInv /\ OpenDir => CopyInv'
  <1> SUFFICES ASSUME CopyInv, OpenDir PROVE CopyInv'
    OBVIOUS
  <1> DEFINE side == chosen.side
             e == Next1
             p == Full(e)
             r == Tail(todo)
             b == Below(side, e)
             names == {x.name : x \in {y \in ToSet(Entries(side, p)) : Taken(side, y)}}
  <1>1. Walking /\ e.kind = "D" /\ chosen' = chosen /\ before' = before
        /\ todo' = b \o r /\ queue' = queue /\ closedNow' = closedNow
    BY DEF OpenDir, WalkOn
  <1>2. /\ CopyTyped /\ chosen.at = "walk" /\ side \in DOMAIN Trees /\ e \in WalkSteps
        /\ queue \in Seq(Queued) /\ r \in Seq(WalkSteps)
    BY <1>1, WalkOnIs
  <1>3. b \in Seq(WalkSteps) /\ Sole(b)
    BY <1>2, BelowTyped
  <1>4. todo' \in Seq(WalkSteps)
    BY <1>1, <1>2, <1>3, Joined
  <1>5. ASSUME Plainly
        PROVE  /\ \A i \in 1..Len(todo') : StartsWell(todo'[i])
               /\ Sole(todo')
               /\ Covers(Due, Places(todo'), Reached', closedNow')
               /\ OnceOwn(queue')
    <2>1. /\ WalkHolds /\ StartsWell(e) /\ p \in Places(todo) /\ Sole(r)
          /\ Places(r) = Places(todo) \ {p} /\ \A i \in 1..Len(r) : StartsWell(r[i])
      BY <1>1, <1>5, WalkOnIs
    <2>2. Covers(Due, Places(todo), Reached, closedNow) /\ p \in PlainPaths
      BY <1>2, <2>1, StartIs DEF WalkHolds
    <2>3. Entries(side, p) \in Seq(Entered)
      BY <1>2, EntriesTyped
    <2>4. names \subseteq PlainNames
      <3>1. \A x \in ToSet(Entries(side, p)) : x.name \in PlainNames
        <4>1. \A x \in ToSet(Entries(side, p)) : x \in Entered
          <5> DEFINE all == Entries(side, p)
          <5>1. \A i \in DOMAIN all : all[i] \in Entered
            <6> HIDE DEF all
            <6> QED BY <2>3 DEF all
          <5> QED BY <5>1 DEF ToSet
        <4> QED BY <4>1 DEF Entered
      <3> QED BY <3>1
    <2>5. Places(b) = {Append(p, x) : x \in names}
      <3>1. \A i \in 1..Len(b) : \E x \in names : Full(b[i]) = Append(p, x)
        <4> SUFFICES ASSUME NEW i \in 1..Len(b)
                     PROVE  \E x \in names : Full(b[i]) = Append(p, x)
          OBVIOUS
        <4>1. PICK x \in ToSet(Entries(side, p)) : Taken(side, x)
                /\ b[i] = [kind |-> x.kind, path |-> p, name |-> x.name,
                           glued |-> GluedBelow(side, e)]
          BY <1>2, BelowTyped
        <4>2. b[i].path = p /\ b[i].name = x.name
          BY <4>1
        <4> QED BY <4>1, <4>2 DEF Full
      <3>2. \A x \in names : \E i \in 1..Len(b) : Full(b[i]) = Append(p, x)
        <4> SUFFICES ASSUME NEW x \in names
                     PROVE  \E i \in 1..Len(b) : Full(b[i]) = Append(p, x)
          OBVIOUS
        <4>3. PICK z \in ToSet(Entries(side, p)) : Taken(side, z) /\ x = z.name
          OBVIOUS
        <4>1. PICK i \in 1..Len(b) : b[i].name = x
          BY <1>2, <4>3, BelowTyped
        <4>2. b[i].path = p
          <5>1. PICK y \in ToSet(Entries(side, p)) :
                  b[i] = [kind |-> y.kind, path |-> p, name |-> y.name,
                          glued |-> GluedBelow(side, e)]
            BY <1>2, BelowTyped
          <5> QED BY <5>1
        <4> QED BY <4>1, <4>2 DEF Full
      <3> HIDE DEF names, b, p
      <3> QED BY <3>1, <3>2 DEF Places
    <2>6. \A f \in Due : Leads(p, f) => \E x \in names : Leads(Append(p, x), f)
      <3> SUFFICES ASSUME NEW f \in Due, Leads(p, f)
                   PROVE  \E x \in names : Leads(Append(p, x), f)
        OBVIOUS
      <3>1. f # p
        BY <1>1, <1>2, <2>1, StartIs
      <3>2. /\ p \in DOMAIN Trees[side]
            /\ \E y \in ToSet(Trees[side][p]) : Taken(side, y) /\ Leads(Append(p, y.name), f)
        BY <1>2, <2>1, <3>1, StartIs
      <3>3. Entries(side, p) = Trees[side][p]
        BY <1>2, <3>2, TreesAre
      <3> QED BY <3>2, <3>3
    <2>7. /\ Covers(Due, (Places(todo) \ {p}) \cup Places(b), Reached, closedNow)
          /\ (Places(todo) \ {p}) \cap Places(b) = {}
      <3> DEFINE due == Due
                 open == Places(todo)
                 got == Reached
      <3> HIDE DEF names, p, due, open, got
      <3>1. LET below == {Append(p, x) : x \in names}
            IN  /\ Covers(due, (open \ {p}) \cup below, got, closedNow)
                /\ (open \ {p}) \cap below = {}
        <4>1. /\ Covers(due, open, got, closedNow) /\ p \in open
              /\ \A f \in due : Leads(p, f) => \E x \in names : Leads(Append(p, x), f)
          BY <2>1, <2>2, <2>6 DEF due, open, got
        <4>2. ASSUME NEW shut, NEW q \in open, Covers(due, open, got, shut),
                     \A f \in due : Leads(q, f) => \E x \in names : Leads(Append(q, x), f)
              PROVE  LET below == {Append(q, x) : x \in names}
                     IN  /\ Covers(due, (open \ {q}) \cup below, got, shut)
                         /\ (open \ {q}) \cap below = {}
          BY <2>4, <4>2, OpeningCovered
        <4> QED BY <4>1, <4>2
      <3> QED BY <2>5, <3>1 DEF due, open, got
    <2>8. /\ Places(todo') = Places(b) \cup Places(r) /\ Sole(todo')
          /\ \A i \in 1..Len(todo') : \/ \E j \in 1..Len(b) : todo'[i] = b[j]
                                      \/ \E j \in 1..Len(r) : todo'[i] = r[j]
      <3>1. Places(b) \cap Places(r) = {}
        BY <2>1, <2>7
      <3> HIDE DEF b, r
      <3> QED BY <1>1, <1>2, <1>3, <2>1, <3>1, Joined
    <2>9. \A i \in 1..Len(todo') : StartsWell(todo'[i])
      <3>1. \A j \in 1..Len(b) : StartsWell(b[j])
        BY <1>2, <2>1, BelowStarts
      <3> QED BY <2>1, <2>8, <3>1
    <2>10. Reached' = Reached
      BY <1>1, SameQueue
    <2>11. Covers(Due, Places(todo'), Reached', closedNow')
      <3>1. Places(todo') = (Places(todo) \ {p}) \cup Places(b)
        BY <2>1, <2>8
      <3> QED BY <1>1, <2>7, <2>10, <3>1
    <2>12. OnceOwn(queue')
      BY <1>1, <2>1 DEF WalkHolds
    <2> QED BY <2>8, <2>9, <2>11, <2>12
  <1>6. queue' \in Seq(Queued) /\ Len(queue') >= Len(queue)
    BY <1>1, <1>2
  <1> QED BY <1>1, <1>4, <1>5, <1>6, WalkKept

(* A refused place, or one that nothing due is below, goes.                *)
LEMMA RestStep ==
  ASSUME CopyInv, Walking, chosen' = chosen, before' = before, queue' = queue,
         todo' = Tail(todo),
         Plainly => \/ closedNow' = closedNow \cup {Full(Next1)}
                    \/ closedNow' = closedNow /\ \A f \in Due : ~Leads(Full(Next1), f)
  PROVE  CopyInv'
  <1> DEFINE p == Full(Next1)
  <1>1. todo' \in Seq(WalkSteps) /\ queue' \in Seq(Queued) /\ Len(queue') >= Len(queue)
    <2>1. Len(queue) \in Nat
      BY WalkOnIs
    <2> QED BY <2>1, WalkOnIs
  <1>2. ASSUME Plainly
        PROVE  /\ \A i \in 1..Len(todo') : StartsWell(todo'[i])
               /\ Sole(todo')
               /\ Covers(Due, Places(todo'), Reached', closedNow')
               /\ OnceOwn(queue')
    <2>1. /\ WalkHolds /\ p \in Places(todo) /\ Sole(todo')
          /\ Places(todo') = Places(todo) \ {p} /\ \A i \in 1..Len(todo') : StartsWell(todo'[i])
      BY <1>2, WalkOnIs
    <2>2. Covers(Due, Places(todo), Reached, closedNow)
      BY <2>1 DEF WalkHolds
    <2>3. Reached' = Reached
      BY SameQueue
    <2>4. Covers(Due, Places(todo) \ {p}, Reached, closedNow')
      <3> HIDE DEF p
      <3>1. CASE closedNow' = closedNow \cup {p}
        BY <2>1, <2>2, <3>1, RefusalCovered
      <3>2. CASE closedNow' = closedNow /\ \A f \in Due : ~Leads(p, f)
        BY <2>1, <2>2, <3>2, NothingCovered
      <3> QED BY <1>2, <3>1, <3>2 DEF p
    <2> QED BY <2>1, <2>3, <2>4 DEF WalkHolds
  <1> QED BY <1>1, <1>2, WalkKept

(* A path that is glued has nothing below it that is due.                  *)
LEMMA NothingBelowGlued ==
  ASSUME CopyTyped, chosen.at = "walk", NEW e \in WalkSteps, StartsWell(e), e.glued
  PROVE  Deep(Full(e)) /\ \A f \in Due : ~Leads(Full(e), f)
  <1> DEFINE p == Full(e)
  <1>1. Deep(p)
    BY DEF StartsWell
  <1>2. SUFFICES ASSUME NEW f \in Due, Leads(p, f) PROVE FALSE
    BY <1>1
  <1>3. p \in PlainPaths
    BY StartIs
  <1>4. chosen.side \in DOMAIN Trees /\ f \in FilesOf(chosen.side) /\ ~Deep(f)
    BY DEF CopyTyped, Due
  <1>5. f \in Seq(PlainNames) /\ p \in Seq(PlainNames)
    BY <1>3, <1>4, FilesArePlain DEF PlainPaths
  <1>6. Base[chosen.side] \in Seq(PlainNames)
    BY <1>4, MarksAssumption, TreesAre DEF PlainPaths
  <1> DEFINE k == Len(Base["left"])
             m == Len(p)
             n == Len(f)
  <1>7. chosen.side = "left" /\ m > k + 2 /\ ~(n > k + 2) /\ m <= n
    BY <1>1, <1>2, <1>4 DEF Deep, Leads
  <1>8. m \in Nat /\ n \in Nat /\ k \in Nat
    BY <1>5, <1>6, <1>7
  <1> HIDE DEF k, m, n
  <1> QED BY <1>7, <1>8

LEMMA ClosedSteps == CopyInv /\ (DirClosed \/ FileClosed) => CopyInv'
  <1> SUFFICES ASSUME CopyInv, DirClosed \/ FileClosed PROVE CopyInv'
    OBVIOUS
  <1> DEFINE p == Full(Next1)
  <1>1. /\ Walking /\ chosen' = chosen /\ before' = before /\ queue' = queue
        /\ todo' = Tail(todo)
        /\ closedNow' = closedNow \cup {Resolved(p)}
           \/ (closedNow' = closedNow /\ Next1.glued)
    BY DEF DirClosed, FileClosed, WalkOn
  <1>2. ASSUME Plainly
        PROVE  \/ closedNow' = closedNow \cup {p}
               \/ closedNow' = closedNow /\ \A f \in Due : ~Leads(p, f)
    <2>1. CopyTyped /\ chosen.at = "walk" /\ Next1 \in WalkSteps /\ StartsWell(Next1)
      BY <1>1, <1>2, WalkOnIs
    <2>2. Resolved(p) = p /\ p \in PlainPaths
      BY <2>1, StartIs
    <2>3. Next1.glued => \A f \in Due : ~Leads(p, f)
      BY <2>1, NothingBelowGlued
    <2> QED BY <1>1, <2>2, <2>3
  <1> QED BY <1>1, <1>2, RestStep

LEMMA QueueStep == CopyInv /\ QueueFile => CopyInv'
  <1> SUFFICES ASSUME CopyInv, QueueFile PROVE CopyInv'
    OBVIOUS
  <1> DEFINE e == Next1
             p == Full(e)
             q == [side |-> chosen.side, path |-> e.path, name |-> e.name]
             n == Len(queue)
  <1>1. /\ Walking /\ chosen' = chosen /\ before' = before /\ todo' = Tail(todo)
        /\ closedNow' = closedNow /\ queue' = Append(queue, q)
        /\ e.kind # "D" /\ ~e.glued /\ IsFile(chosen.side, e)
    BY DEF QueueFile, WalkOn
  <1>2. /\ CopyTyped /\ chosen.at = "walk" /\ e \in WalkSteps /\ todo' \in Seq(WalkSteps)
        /\ queue \in Seq(Queued) /\ before \in 0..n /\ n \in Nat
        /\ chosen.side \in DOMAIN Trees
    BY <1>1, WalkOnIs
  <1>3. q \in Queued /\ Full(q) = p
    <2>1. q \in Queued
      BY <1>2, TreeAssumption DEF Queued, WalkSteps, CopySides
    <2>2. q.path = e.path /\ q.name = e.name
      OBVIOUS
    <2> QED BY <2>1, <2>2 DEF Full
  <1> HIDE DEF q, p, e
  <1>4. /\ queue' \in Seq(Queued) /\ Len(queue') = n + 1 /\ queue'[n + 1] = q
        /\ \A k \in 1..n : queue'[k] = queue[k]
    BY <1>1, <1>2, <1>3, AppendProperties
  <1> HIDE DEF n
  <1>5. /\ \A k \in before + 1..n + 1 : k = n + 1 \/ (k \in before + 1..n /\ k \in 1..n)
        /\ \A k \in before + 1..n : k \in 1..n /\ k \in before + 1..n + 1
        /\ n + 1 \in before + 1..n + 1
    BY <1>2
  <1>6. ~Deep(p) => Reached' = Reached \cup {p}
    <2>0. \A f : Deep(f)' = Deep(f)
      BY <1>1 DEF Deep
    <2>1. Reached' = {Full(queue'[k]) : k \in {x \in before + 1..n + 1 : ~Deep(Full(queue'[x]))}}
      BY <1>1, <1>4, <2>0 DEF Reached
    <2>2. Reached = {Full(queue[k]) : k \in {x \in before + 1..n : ~Deep(Full(queue[x]))}}
      BY DEF Reached, n
    <2>3. \A k \in before + 1..n : Full(queue'[k]) = Full(queue[k])
      BY <1>4, <1>5
    <2>4. Full(queue'[n + 1]) = p
      BY <1>3, <1>4
    <2> QED BY <1>5, <2>1, <2>2, <2>3, <2>4
  <1>7. ASSUME Plainly
        PROVE  /\ \A i \in 1..Len(todo') : StartsWell(todo'[i])
               /\ Sole(todo')
               /\ Covers(Due, Places(todo'), Reached', closedNow')
               /\ OnceOwn(queue')
    <2>1. /\ WalkHolds /\ StartsWell(e) /\ p \in Places(todo) /\ Sole(todo')
          /\ Places(todo') = Places(todo) \ {p} /\ \A i \in 1..Len(todo') : StartsWell(todo'[i])
      BY <1>1, <1>7, WalkOnIs DEF e, p
    <2>2. Covers(Due, Places(todo), Reached, closedNow)
      BY <2>1 DEF WalkHolds
    <2>3. p \in Due
      BY <1>1, <1>2, <2>1, StartIs DEF p
    <2>4. \A f \in Due : Leads(p, f) => f = p
      <3> SUFFICES ASSUME NEW f \in Due, Leads(p, f), f # p PROVE FALSE
        OBVIOUS
      <3>1. e.kind = "D" \/ (chosen.side = "right" /\ e.kind = "W")
        BY <1>2, <2>1, StartIs DEF p
      <3> QED BY <1>1, <3>1 DEF IsFile
    <2>5. Covers(Due, Places(todo) \ {p}, Reached \cup {p}, closedNow) /\ p \notin Reached
      BY <2>1, <2>2, <2>3, <2>4, FileCovered
    <2>6. OnceOwn(queue')
      <3>0. OnceOwn(queue) /\ ~Deep(p)
        BY <2>1, <2>3 DEF WalkHolds, Due
      <3>1. /\ \A k, l \in before + 1..n :
                 ~Deep(Full(queue[k])) /\ Full(queue[k]) = Full(queue[l]) => k = l
            /\ \A k \in before + 1..n :
                 Deep(Full(queue[k])) => IsThere(chosen.side, GluedPath(Full(queue[k])))
        BY <3>0 DEF OnceOwn, n
      <3>2. \A k \in before + 1..n : Full(queue[k]) # p
        BY <2>5, <3>0 DEF Reached, n
      <3>3. \A k \in before + 1..n : Full(queue'[k]) = Full(queue[k])
        BY <1>4, <1>5
      <3>4. Full(queue'[n + 1]) = p
        BY <1>3, <1>4
      <3>5. \A k, l \in before + 1..n + 1 :
              ~Deep(Full(queue'[k])) /\ Full(queue'[k]) = Full(queue'[l]) => k = l
        BY <1>5, <3>1, <3>2, <3>3, <3>4
      <3>6. \A k \in before + 1..n + 1 :
              Deep(Full(queue'[k])) => IsThere(chosen.side, GluedPath(Full(queue'[k])))
        BY <1>5, <3>0, <3>1, <3>3, <3>4
      <3> QED BY <1>4, <3>5, <3>6 DEF OnceOwn
    <2> QED BY <1>1, <1>6, <2>1, <2>3, <2>5, <2>6 DEF Due
  <1>8. Len(queue') >= Len(queue)
    BY <1>2, <1>4 DEF n
  <1> QED BY <1>1, <1>2, <1>4, <1>7, <1>8, WalkKept

LEMMA QueueGluedStep == CopyInv /\ QueueGlued => CopyInv'
  <1> SUFFICES ASSUME CopyInv, QueueGlued PROVE CopyInv'
    OBVIOUS
  <1> DEFINE e == Next1
             p == Full(e)
             q == [side |-> chosen.side, path |-> e.path, name |-> e.name]
             n == Len(queue)
  <1>1. /\ Walking /\ chosen' = chosen /\ before' = before /\ todo' = Tail(todo)
        /\ closedNow' = closedNow /\ queue' = Append(queue, q) /\ e.glued
        /\ IsThere(chosen.side, GluedPath(p))
    BY DEF QueueGlued, WalkOn
  <1>2. /\ CopyTyped /\ chosen.at = "walk" /\ e \in WalkSteps /\ todo' \in Seq(WalkSteps)
        /\ queue \in Seq(Queued) /\ before \in 0..n /\ n \in Nat
        /\ chosen.side \in DOMAIN Trees
    BY <1>1, WalkOnIs
  <1>3. q \in Queued /\ Full(q) = p
    <2>1. q \in Queued
      BY <1>2, TreeAssumption DEF Queued, WalkSteps, CopySides
    <2>2. q.path = e.path /\ q.name = e.name
      OBVIOUS
    <2> QED BY <2>1, <2>2 DEF Full
  <1> HIDE DEF q, p, e
  <1>4. /\ queue' \in Seq(Queued) /\ Len(queue') = n + 1 /\ queue'[n + 1] = q
        /\ \A k \in 1..n : queue'[k] = queue[k]
    BY <1>1, <1>2, <1>3, AppendProperties
  <1> HIDE DEF n
  <1>5. /\ \A k \in before + 1..n + 1 : k = n + 1 \/ (k \in before + 1..n /\ k \in 1..n)
        /\ \A k \in before + 1..n : k \in 1..n /\ k \in before + 1..n + 1
        /\ n + 1 \in before + 1..n + 1
    BY <1>2
  <1>6. /\ \A k \in before + 1..n : Full(queue'[k]) = Full(queue[k])
        /\ Full(queue'[n + 1]) = p
    BY <1>3, <1>4, <1>5
  <1>7. ASSUME Plainly
        PROVE  /\ \A i \in 1..Len(todo') : StartsWell(todo'[i])
               /\ Sole(todo')
               /\ Covers(Due, Places(todo'), Reached', closedNow')
               /\ OnceOwn(queue')
    <2>1. /\ WalkHolds /\ StartsWell(e) /\ p \in Places(todo) /\ Sole(todo')
          /\ Places(todo') = Places(todo) \ {p} /\ \A i \in 1..Len(todo') : StartsWell(todo'[i])
      BY <1>1, <1>7, WalkOnIs DEF e, p
    <2>2. Covers(Due, Places(todo), Reached, closedNow) /\ OnceOwn(queue)
      BY <2>1 DEF WalkHolds
    <2>3. Deep(p) /\ \A f \in Due : ~Leads(p, f)
      BY <1>1, <1>2, <2>1, NothingBelowGlued DEF p
    <2>4. Reached' = Reached
      <3>1. \A f : Deep(f)' = Deep(f)
        BY <1>1 DEF Deep
      <3>2. Reached' = {Full(queue'[k]) :
                          k \in {x \in before + 1..n + 1 : ~Deep(Full(queue'[x]))}}
        BY <1>1, <1>4, <3>1 DEF Reached
      <3>3. Reached = {Full(queue[k]) : k \in {x \in before + 1..n : ~Deep(Full(queue[x]))}}
        BY DEF Reached, n
      <3> QED BY <1>5, <1>6, <2>3, <3>2, <3>3
    <2>5. Covers(Due, Places(todo) \ {p}, Reached, closedNow)
      BY <2>1, <2>2, <2>3, NothingCovered
    <2>6. OnceOwn(queue')
      <3>1. /\ \A k, l \in before + 1..n :
                 ~Deep(Full(queue[k])) /\ Full(queue[k]) = Full(queue[l]) => k = l
            /\ \A k \in before + 1..n :
                 Deep(Full(queue[k])) => IsThere(chosen.side, GluedPath(Full(queue[k])))
        BY <2>2 DEF OnceOwn, n
      <3>2. \A k, l \in before + 1..n + 1 :
              ~Deep(Full(queue'[k])) /\ Full(queue'[k]) = Full(queue'[l]) => k = l
        BY <1>5, <1>6, <2>3, <3>1
      <3>3. \A k \in before + 1..n + 1 :
              Deep(Full(queue'[k])) => IsThere(chosen.side, GluedPath(Full(queue'[k])))
        BY <1>1, <1>5, <1>6, <3>1
      <3> QED BY <1>4, <3>2, <3>3 DEF OnceOwn
    <2> QED BY <1>1, <2>1, <2>4, <2>5, <2>6
  <1>8. Len(queue') >= Len(queue)
    BY <1>2, <1>4 DEF n
  <1> QED BY <1>1, <1>2, <1>4, <1>7, <1>8, WalkKept

LEMMA OtherCopySteps ==
  CopyInv /\ (PressCopy \/ RefuseCopy \/ EndWalk \/ NextKey \/ UNCHANGED copyVars)
    => CopyInv'
  <1> SUFFICES ASSUME CopyInv,
                      PressCopy \/ RefuseCopy \/ EndWalk \/ NextKey \/ UNCHANGED copyVars
               PROVE  CopyInv'
    OBVIOUS
  <1>1. /\ todo' = todo /\ queue' = queue /\ before' = before /\ closedNow' = closedNow
        /\ chosen.at # "walk" => todo = <<>>
        /\ todo \in Seq(WalkSteps) /\ queue \in Seq(Queued) /\ before \in 0..Len(queue)
        /\ chosen \in ChoiceStates
    BY DEF CopyInv, CopyTyped, PressCopy, RefuseCopy, EndWalk, NextKey, copyVars
  <1>2. CASE PressCopy
    <2>0. PICK side \in DOMAIN Trees : \E names \in MarkedSets[side] :
            chosen' = [side |-> side, names |-> names, at |-> "asked"]
      BY <1>2 DEF PressCopy
    <2>1. PICK names \in MarkedSets[side] :
            chosen' = [side |-> side, names |-> names, at |-> "asked"]
      BY <2>0
    <2>2. chosen.at = "panel" /\ chosen' \in ChoiceStates
      BY <1>2, <2>1, TreeAssumption, MarksAssumption DEF PressCopy, ChoiceStates, CopySides, Paths
    <2>3. CopyTyped'
      BY <1>1, <2>1, <2>2 DEF CopyTyped
    <2>4. ~Plainly'
      BY <2>1 DEF Plainly
    <2> QED BY <2>3, <2>4 DEF CopyInv
  <1>3. CASE RefuseCopy \/ NextKey
    <2>1. chosen' = Nobody /\ chosen.at # "walk"
      BY <1>3 DEF RefuseCopy, NextKey
    <2>2. chosen' \in ChoiceStates /\ chosen'.at = "panel"
      <3>1. <<>> \in Paths
        BY DEF Paths
      <3> QED BY <2>1, <3>1 DEF Nobody, ChoiceStates, CopySides
    <2>3. CopyTyped'
      BY <1>1, <2>1, <2>2 DEF CopyTyped
    <2>4. ~Plainly'
      BY <2>2 DEF Plainly
    <2> QED BY <2>3, <2>4 DEF CopyInv
  <1>4. CASE EndWalk
    <2>1. chosen.at = "walk" /\ todo = <<>> /\ chosen' = [chosen EXCEPT !.at = "done"]
      BY <1>4 DEF EndWalk
    <2>2. /\ chosen' \in ChoiceStates /\ chosen'.at = "done" /\ chosen'.side = chosen.side
          /\ chosen'.names = chosen.names
      BY <1>1, <2>1 DEF ChoiceStates
    <2>3. CopyTyped'
      BY <1>1, <2>1, <2>2 DEF CopyTyped, CopyInv
    <2>4. ASSUME Plainly'
          PROVE  WalkHolds'
      <3>1. Plainly
        BY <2>1, <2>2, <2>4 DEF Plainly
      <3>2. WalkHolds
        BY <3>1 DEF CopyInv
      <3>3. Wanted' = Wanted
        BY <2>2 DEF Wanted
      <3>4. \A f : Deep(f)' = Deep(f)
        BY <2>2 DEF Deep
      <3>5. Due' = Due
        BY <2>2, <3>3, <3>4 DEF Due
      <3>6. Reached' = Reached /\ OnceOwn(queue)'
        BY <1>1, <2>2, <3>2, SameQueue DEF WalkHolds
      <3>7. \A i \in 1..Len(todo') : StartsWell(todo[i])'
        <4>1. Len(todo') = 0
          BY <1>1, <2>1
        <4> QED BY <4>1
      <3> QED BY <1>1, <3>2, <3>5, <3>6, <3>7 DEF WalkHolds
    <2> QED BY <2>3, <2>4 DEF CopyInv
  <1>5. CASE UNCHANGED copyVars
    <2>1. chosen' = chosen
      BY <1>5 DEF copyVars
    <2>2. CopyTyped'
      BY <1>1, <2>1 DEF CopyTyped, CopyInv
    <2>3. ASSUME Plainly'
          PROVE  WalkHolds'
      <3>1. Plainly /\ Due' = Due
        BY <2>1, <2>3, SameChoice
      <3>2. WalkHolds
        BY <3>1 DEF CopyInv
      <3>3. Reached' = Reached /\ OnceOwn(queue)'
        BY <1>1, <2>1, <3>2, SameQueue DEF WalkHolds
      <3>4. \A i \in 1..Len(todo') : StartsWell(todo[i])'
        <4>1. \A i \in 1..Len(todo) : StartsWell(todo[i])
          BY <3>2 DEF WalkHolds
        <4> QED BY <1>1, <2>1, <4>1 DEF StartsWell, Wanted, Deep
      <3> QED BY <1>1, <3>1, <3>2, <3>3, <3>4 DEF WalkHolds
    <2> QED BY <2>2, <2>3 DEF CopyInv
  <1> QED BY <1>2, <1>3, <1>4, <1>5

LEMMA CopyStep == CopyInv /\ [CopyNext]_copyVars => CopyInv'
  BY AgreeStep, OpenDirStep, ClosedSteps, QueueStep, QueueGluedStep, OtherCopySteps
  DEF CopyNext

LEMMA InitCopy == CopyInit => CopyInv
  <1> SUFFICES ASSUME CopyInit PROVE CopyInv
    OBVIOUS
  <1>1. chosen = [side |-> "left", names |-> <<>>, at |-> "panel"] /\ todo = <<>>
        /\ queue = <<>> /\ before = 0
    BY DEF CopyInit, Nobody
  <1>2. chosen \in ChoiceStates
    <2>1. <<>> \in Paths
      BY DEF Paths
    <2> QED BY <1>1, <2>1 DEF ChoiceStates, CopySides
  <1>3. chosen.at = "panel"
    BY <1>1
  <1>4. CopyTyped
    BY <1>1, <1>2, <1>3 DEF CopyTyped
  <1> QED BY <1>3, <1>4 DEF CopyInv, Plainly

LEMMA WantedIs ==
  ASSUME CopyTyped, Plainly
  PROVE  Wanted \subseteq PlainPaths
  <1> DEFINE side == chosen.side
             names == chosen.names
  <1>1. side \in DOMAIN Trees /\ names \in MarkedSets[side]
    BY DEF CopyTyped, Plainly
  <1>2. Base[side] \in PlainPaths /\ names \in Seq(STRING)
    BY <1>1, MarksAssumption, TreesAre
  <1>3. \A i \in DOMAIN names : names[i] \in PlainNames
    BY <1>2 DEF Plainly, ToSet, PlainNames
  <1>4. ASSUME NEW i \in DOMAIN names
        PROVE  Resolved(Append(Base[side], names[i])) \in PlainPaths
    <2>1. Append(Base[side], names[i]) \in PlainPaths
      BY <1>2, <1>3, LeadsBelow DEF PlainPaths
    <2> QED BY <2>1, ResolvedIs
  <1> QED BY <1>4 DEF Wanted

LEMMA EndedIsQueued == CopyInv => QueuesEach
  <1> SUFFICES ASSUME CopyInv, chosen.at = "done", ".." \notin ToSet(chosen.names)
               PROVE  LET new == SubSeq(queue, before + 1, Len(queue))
                          got == [i \in DOMAIN new |-> Append(new[i].path, new[i].name)]
                          due == {f \in FilesOf(chosen.side) :
                                    /\ \E w \in Wanted : IsPrefix(w, f)
                                    /\ ~CutOff(f) /\ ~Deep(f)}
                          own == {i \in DOMAIN new : ~Deep(got[i])}
                      IN  /\ \A i, j \in own : got[i] = got[j] => i = j
                          /\ {got[i] : i \in own} = due
                          /\ \A i \in DOMAIN new \ own :
                               IsThere(chosen.side, GluedPath(got[i]))
    BY DEF QueuesEach
  <1> DEFINE new == SubSeq(queue, before + 1, Len(queue))
             got == [i \in DOMAIN new |-> Append(new[i].path, new[i].name)]
             due == {f \in FilesOf(chosen.side) :
                       /\ \E w \in Wanted : IsPrefix(w, f)
                       /\ ~CutOff(f) /\ ~Deep(f)}
             own == {i \in DOMAIN new : ~Deep(got[i])}
             n == Len(queue)
  <1>1. /\ CopyTyped /\ Plainly /\ WalkHolds /\ todo = <<>> /\ chosen.side \in DOMAIN Trees
        /\ queue \in Seq(Queued) /\ before \in 0..n /\ n \in Nat
    BY DEF CopyInv, CopyTyped, Plainly
  <1>2. /\ Len(new) = n - before /\ DOMAIN new = 1..(n - before)
        /\ \A i \in 1..(n - before) : new[i] = queue[before + i]
    BY <1>1, SubSeqProperties
  <1> HIDE DEF new, n
  <1>3. /\ \A i \in 1..(n - before) : before + i \in before + 1..n
        /\ \A k \in before + 1..n : k - before \in 1..(n - before) /\ before + (k - before) = k
        /\ \A i, j \in 1..(n - before) : before + i = before + j => i = j
    BY <1>1
  <1>4. \A i \in 1..(n - before) : got[i] = Full(queue[before + i])
    BY <1>2 DEF Full
  <1>5. own = {i \in 1..(n - before) : ~Deep(got[i])}
    BY <1>2
  <1> HIDE DEF got
  <1>6. /\ \A k, l \in before + 1..n :
             ~Deep(Full(queue[k])) /\ Full(queue[k]) = Full(queue[l]) => k = l
        /\ \A k \in before + 1..n :
             Deep(Full(queue[k])) => IsThere(chosen.side, GluedPath(Full(queue[k])))
    BY <1>1 DEF WalkHolds, OnceOwn, n
  <1> HIDE DEF own
  <1>7. /\ \A i, j \in own : got[i] = got[j] => i = j
        /\ \A i \in DOMAIN new \ own : IsThere(chosen.side, GluedPath(got[i]))
    <2>1. ASSUME NEW i \in own, NEW j \in own, got[i] = got[j]
          PROVE  i = j
      <3>1. Full(queue[before + i]) = Full(queue[before + j])
            /\ ~Deep(Full(queue[before + i]))
        BY <1>4, <1>5, <2>1
      <3>2. before + i = before + j
        BY <1>3, <1>5, <1>6, <3>1
      <3> QED BY <1>3, <1>5, <3>2
    <2>2. ASSUME NEW i \in DOMAIN new \ own
          PROVE  IsThere(chosen.side, GluedPath(got[i]))
      <3>1. i \in 1..(n - before) /\ Deep(got[i]) /\ got[i] = Full(queue[before + i])
        BY <1>2, <1>4, <1>5, <2>2
      <3> QED BY <1>3, <1>6, <3>1
    <2> QED BY <2>1, <2>2
  <1>8. {got[i] : i \in own} = Reached
    <2>1. Reached = {Full(queue[k]) : k \in {x \in before + 1..n : ~Deep(Full(queue[x]))}}
      BY DEF Reached, n
    <2>2. {got[i] : i \in own} \subseteq Reached
      BY <1>3, <1>4, <1>5, <2>1
    <2>3. Reached \subseteq {got[i] : i \in own}
      <3> SUFFICES ASSUME NEW k \in before + 1..n, ~Deep(Full(queue[k]))
                   PROVE  \E i \in own : got[i] = Full(queue[k])
        BY <2>1
      <3>1. k - before \in own /\ got[k - before] = Full(queue[k])
        BY <1>3, <1>4, <1>5
      <3> QED BY <3>1
    <2> QED BY <2>2, <2>3
  <1>9. Covers(Due, {}, Reached, closedNow)
    <2>1. Len(todo) = 0
      BY <1>1
    <2>2. Places(todo) = {}
      BY <2>1 DEF Places
    <2> QED BY <1>1, <2>2 DEF WalkHolds
  <1>10. Reached = {f \in Due : \A c \in closedNow : ~Leads(c, f)}
    BY <1>9 DEF Covers
  <1>11. Wanted \subseteq PlainPaths /\ closedNow \subseteq PlainPaths /\ FilesOf(chosen.side) \subseteq PlainPaths
    BY <1>1, <1>9, WantedIs, FilesArePlain DEF Covers
  <1>12. \A f \in FilesOf(chosen.side) :
           /\ (\E w \in Wanted : IsPrefix(w, f)) <=> (\E w \in Wanted : Leads(w, f))
           /\ CutOff(f) <=> \E c \in closedNow : Leads(c, f)
    <2>1. \A p, q \in PlainPaths : IsPrefix(p, q) <=> Leads(p, q)
      BY PrefixLeads DEF PlainPaths
    <2> QED BY <1>11, <2>1 DEF CutOff
  <1>13. due = Reached
    BY <1>10, <1>12 DEF Due
  <1> QED BY <1>7, <1>8, <1>13 DEF got, new, own

(* When the copy is over, each file below the chosen entries that could be *)
(* opened is queued once, and nothing else but records whose path runs     *)
(* together into that of an entry that is there, in any tree, whatever     *)
(* refused to open on the way (RcreateFileFromDirR, RcreateFileFromDirL).  *)
THEOREM EachIsQueued == CopyInit /\ [][CopyNext]_copyVars => []QueuesEach
  <1>1. CopyInit => CopyInv
    BY InitCopy
  <1>2. CopyInv /\ [CopyNext]_copyVars => CopyInv'
    BY CopyStep
  <1>3. CopyInv => QueuesEach
    BY EndedIsQueued
  <1> QED BY <1>1, <1>2, <1>3, PTL
-----------------------------------------------------------------------------
(* The windows side by side.                                               *)

(* The copies of one user, and the one that is asked about.                *)
CopiesCounted ==
  /\ levelNow \in {"network", "files"} /\ copies \in 0..MaxCopies
  /\ chosen.at = "asked" => copies < MaxCopies

LEMMA CountSteps == CopyInv /\ CopiesCounted /\ [CopyNext]_copyVars => CopiesCounted'
  <1> SUFFICES ASSUME CopyInv, CopiesCounted, [CopyNext]_copyVars PROVE CopiesCounted'
    OBVIOUS
  <1>1. /\ chosen \in ChoiceStates /\ MaxCopies \in Nat
        /\ levelNow \in {"network", "files"} /\ copies \in 0..MaxCopies
        /\ chosen.at = "asked" => copies < MaxCopies
    BY CopiesAssumption DEF CopyInv, CopyTyped, CopiesCounted
  <1>2. CASE PressCopy
    BY <1>1, <1>2 DEF PressCopy, CopiesCounted
  <1>3. CASE RefuseCopy
    BY <1>1, <1>3 DEF RefuseCopy, Nobody, CopiesCounted
  <1>4. CASE AgreeCopy
    BY <1>1, <1>4 DEF AgreeCopy, ChoiceStates, CopiesCounted
  <1>5. CASE OpenDir \/ DirClosed \/ QueueFile \/ QueueGlued \/ FileClosed
    BY <1>1, <1>5 DEF OpenDir, DirClosed, QueueFile, QueueGlued, FileClosed, WalkOn,
                      CopiesCounted
  <1>6. CASE EndWalk \/ NextKey
    BY <1>1, <1>6 DEF EndWalk, NextKey, ChoiceStates, Nobody, CopiesCounted
  <1>7. CASE UNCHANGED copyVars
    BY <1>1, <1>7 DEF copyVars, CopiesCounted
  <1> QED BY <1>2, <1>3, <1>4, <1>5, <1>6, <1>7 DEF CopyNext

(* The types follow from the invariants of the windows.                    *)
LEMMA BookTypes == BookInv => BookmarksTypeOK
  <1> SUFFICES ASSUME BookInv PROVE BookmarksTypeOK
    OBVIOUS
  <1>1. /\ marksFile \in Seq(Spots) /\ Once(marksFile) /\ Elems(marksFile) \subseteq Spots \ UpSpots
        /\ book \in Books /\ wanted \subseteq Spots /\ maxY \in BookRows
    BY DEF BookInv
  <1>5. {grown, unread, torn} \subseteq BOOLEAN
    BY DEF BookInv
  <1>2. InFile = Elems(marksFile) /\ DOMAIN marksFile = 1..Len(marksFile)
    BY <1>1 DEF InFile, Elems
  <1>3. \A i, j \in DOMAIN marksFile : marksFile[i] = marksFile[j] => i = j
    BY <1>1, <1>2 DEF Once
  <1>4. /\ book.at \in {"closed", "open", "crash", "unlink", "write"}
        /\ book.first \in Nat /\ book.select \in Nat
    BY <1>1 DEF Books
  <1> QED BY <1>1, <1>2, <1>3, <1>4, <1>5 DEF BookmarksTypeOK

LEMMA FindTypes == FindInv => FindTypeOK
  <1> SUFFICES ASSUME FindInv PROVE FindTypeOK
    OBVIOUS
  <1>1. finding \in FindStates /\ HitsHold(finding)
    BY DEF FindInv, FindHolds
  <1>2. /\ finding.at \in {"closed", "ask", "list", "crash", "file", "dir", "host", "group"}
        /\ finding.button \in 1..4 /\ finding.height \in Heights
        /\ finding.index \in Seq(IndexRecords) /\ finding.hits \in Seq(Nat)
    BY <1>1 DEF FindStates, FindPlaces, FieldSet, Buttons, IndexLists, HitLists
  <1>3. /\ DOMAIN finding.index = 1..Len(finding.index)
        /\ DOMAIN finding.hits = 1..Len(finding.hits)
    BY <1>2
  <1>4. Range(finding.hits) \subseteq DOMAIN finding.index
    BY <1>1, <1>3 DEF HitsHold, Range
  <1> QED BY <1>2, <1>4 DEF FindTypeOK

LEMMA DialogTypes == DialogInv => DialogTypeOK
  <1> SUFFICES ASSUME StackInv PROVE DialogTypeOK
    BY DEF DialogInv
  <1>1. DOMAIN stack = 1..Len(stack) /\ \A i \in DOMAIN stack : stack[i] \in Frames
    BY DEF StackInv
  <1>2. ASSUME NEW i \in DOMAIN stack
        PROVE  stack[i].kind \in Messages \cup Forms \cup Windows /\ stack[i].choice \in 0..5
    BY <1>1 DEF Frames, Kinds
  <1> QED BY <1>2 DEF StackInv, DialogTypeOK

LEMMA ViewTypes == ViewInv => ViewTypeOK
  BY DEF ViewInv, ViewTyped, ViewTypeOK

LEMMA WrapperTypes == WrapperInv => WrapperTypeOK
  <1> SUFFICES ASSUME WrapperInv PROVE WrapperTypeOK
    OBVIOUS
  <1>1. /\ spare \in Nat /\ handles \in Nat /\ room \in 0..MaxSpare
        /\ spare <= room /\ handles <= room /\ over \in BOOLEAN
        /\ std \in [Std -> {"terminal", "null"}] /\ saved \in [Std -> {"terminal", Failed}]
    BY DEF WrapperInv, WrapperTyped, CountsTyped
  <1>2. spare \in 0..MaxSpare /\ handles \in 0..MaxSpare
    BY <1>1, WrapperConstants
  <1> QED BY <1>1, <1>2 DEF WrapperTypeOK

LEMMA CopyTypes == CopyInv /\ CopiesCounted => CopyTypeOK
  <1> SUFFICES ASSUME CopyInv, CopiesCounted PROVE CopyTypeOK
    OBVIOUS
  <1>1. chosen.at \in {"panel", "asked", "walk", "done"}
    BY DEF CopyInv, CopyTyped, ChoiceStates
  <1> QED BY <1>1 DEF CopyInv, CopyTyped, CopiesCounted, CopyTypeOK

(* A step of the windows is one of one of them, in which each other stays. *)
LEMMA EachMoves ==
  [WindowsNext]_windowVars =>
    /\ [BookmarksNext]_bookmarkVars /\ [FindSteps]_findVars /\ [EditorNext]_editorVars
    /\ [ViewNext]_viewVars /\ [MailNext]_mailVars /\ [DialogNext]_dialogVars
    /\ [NewIndexNext]_newIndexVars /\ [CopyNext]_copyVars /\ [CommanderNext]_vars
    /\ [WrapperNext]_wrapperVars /\ [AccountNext]_accountVars
  BY DEF WindowsNext, windowVars, others, Bookmarks0, Find0, Editor0, Viewer0, Mail0,
         Dialogs0, Index0, Copy0, Panels0, Calls0, Accounts0

(* Whatever window is at work, each of them behaves as its own module says *)
(* that it does alone: the windows have no variable in common, and what is *)
(* proved of each holds where they stand side by side.                     *)
THEOREM EachWindowAlone ==
  WindowsSpec =>
    /\ BookmarksInit /\ [][BookmarksNext]_bookmarkVars
    /\ FindInit /\ [][FindSteps]_findVars
    /\ EditorInit /\ [][EditorNext]_editorVars
    /\ ViewInit /\ [][ViewNext]_viewVars
    /\ MailInit /\ [][MailNext]_mailVars
    /\ DialogInit /\ [][DialogNext]_dialogVars
    /\ NewIndexInit /\ [][NewIndexNext]_newIndexVars
    /\ CopyInit /\ [][CopyNext]_copyVars
    /\ CommanderSpec
    /\ WrapperInit /\ [][WrapperNext]_wrapperVars
    /\ AccountInit /\ [][AccountNext]_accountVars
  <1>1. WindowsInit =>
          /\ BookmarksInit /\ FindInit /\ EditorInit /\ ViewInit /\ MailInit
          /\ DialogInit /\ NewIndexInit /\ CopyInit /\ CommanderInit
          /\ WrapperInit /\ AccountInit
    BY DEF WindowsInit
  <1> QED BY <1>1, EachMoves, PTL DEF WindowsSpec, CommanderSpec

(* The types of the variables of all windows, for any network, any files,  *)
(* any trees, any accounts and windows of any size.                        *)
THEOREM WindowsTyped == WindowsSpec => []WindowsTypeOK
  <1>1. BookmarksInit /\ [][BookmarksNext]_bookmarkVars => []BookmarksTypeOK
    BY BookTypes, InitBook, StepBook, PTL
  <1>2. FindInit /\ [][FindSteps]_findVars => []FindTypeOK
    BY FindTypes, InitFind, FindStep, PTL
  <1>3. EditorInit /\ [][EditorNext]_editorVars => []EditorTypeOK
    <2>1. EditorInv => EditorTypeOK
      BY DEF EditorInv
    <2>2. EditorInit => EditorInv
      BY InitEditor
    <2>3. EditorInv /\ [EditorNext]_editorVars => EditorInv'
      BY StepEditor
    <2> QED BY <2>1, <2>2, <2>3, PTL
  <1>4. ViewInit /\ [][ViewNext]_viewVars => []ViewTypeOK
    BY ViewTypes, InitView, ViewStep, PTL
  <1>5. MailInit /\ [][MailNext]_mailVars => []MailTypeOK
    <2>1. MailInv => MailTypeOK
      BY DEF MailInv
    <2> QED BY <2>1, InitMail, StepMail, PTL
  <1>6. DialogInit /\ [][DialogNext]_dialogVars => []DialogTypeOK
    <2>1. DialogInv /\ [DialogNext]_dialogVars => DialogInv'
      BY StepDialog
    <2> QED BY <2>1, DialogTypes, InitDialog, PTL
  <1>7. CopyInit /\ [][CopyNext]_copyVars => []CopyTypeOK
    <2>1. CopyInit => CopiesCounted
      BY CopiesAssumption DEF CopyInit, Nobody, CopiesCounted
    <2> QED BY <2>1, CopyTypes, InitCopy, CopyStep, CountSteps, PTL
  <1>8. WrapperInit /\ [][WrapperNext]_wrapperVars => []WrapperTypeOK
    <2>1. WrapperInv /\ [WrapperNext]_wrapperVars => WrapperInv'
      BY StepWrapper
    <2> QED BY <2>1, WrapperTypes, InitWrapper, PTL
  <1>9. AccountInit /\ [][AccountNext]_accountVars => []AccountTypeOK
    <2>1. AccountInv /\ [AccountNext]_accountVars => AccountInv'
      BY StepAccount
    <2>2. AccountInv /\ AccountTyped /\ [AccountNext]_accountVars => AccountTyped'
      BY StepAccountTyped
    <2>3. AccountTyped => AccountTypeOK
      BY DEF AccountTyped
    <2> QED BY <2>1, <2>2, <2>3, InitAccount, InitAccountTyped, PTL
  <1>10. /\ BookmarksTypeOK /\ FindTypeOK /\ EditorTypeOK /\ ViewTypeOK /\ MailTypeOK
         /\ DialogTypeOK /\ CopyTypeOK /\ TypeOK /\ WrapperTypeOK /\ AccountTypeOK
         => WindowsTypeOK
    BY DEF WindowsTypeOK
  <1> QED BY <1>1, <1>2, <1>3, <1>4, <1>5, <1>6, <1>7, <1>8, <1>9, <1>10,
             CommanderTyped, EachWindowAlone, PTL

(* Everything that the windows promise, where they stand side by side: the *)
(* invariants and the action properties of each, in one specification.     *)
WindowsHold ==
  /\ PaintsInside /\ BookmarksKept /\ IndexedAreFiles /\ RowsAreHits /\ TellsOfIndex
  /\ EditorShows /\ ViewInside /\ MailShown /\ DialogsHold /\ QueuesEach
  /\ OutputIsBack /\ AccountOfEach
  /\ PanelsComplete /\ PanelsSorted /\ ListIsOfPlace /\ RetriesCounted
  /\ Rows > 1 => CursorInside

THEOREM WindowsAreSafe ==
  WindowsSpec => []WindowsHold /\ ComesBack /\ NothingElseDeleted
  <1>1. /\ PaintsInside /\ BookmarksKept /\ IndexedAreFiles /\ RowsAreHits /\ TellsOfIndex
        /\ EditorShows /\ ViewInside /\ MailShown /\ DialogsHold /\ QueuesEach
        /\ OutputIsBack /\ AccountOfEach
        /\ PanelsComplete /\ PanelsSorted /\ ListIsOfPlace /\ RetriesCounted
        /\ (Rows > 1 => CursorInside)
        => WindowsHold
    BY DEF WindowsHold
  <1>2. CommanderSpec => [](Rows > 1 => CursorInside)
    <2>1. CommanderHolds => (Rows > 1 => CursorInside)
      BY DEF CommanderHolds, PanelsHold, PanelHolds, LostHolds, CursorInside
    <2> QED BY <2>1, CommanderAlways, PTL
  <1>3. WindowsSpec => /\ []PaintsInside /\ []BookmarksKept /\ []IndexedAreFiles
                       /\ []RowsAreHits /\ []TellsOfIndex /\ []EditorShows /\ []ViewInside
    BY EachWindowAlone, BookmarksPainted, BookmarksAreKept, FoundIsThere, RowsShowHits,
       StatusTellsOfIndex, EditorShowsText, ViewStaysInside, PTL
  <1>4. WindowsSpec => /\ []MailShown /\ []DialogsHold /\ []QueuesEach /\ []OutputIsBack
                       /\ []AccountOfEach
    BY EachWindowAlone, MailIsShown, DialogsShare, EachIsQueued, OutputReturns,
       AccountReturns, PTL
  <1>5. WindowsSpec => /\ []PanelsComplete /\ []PanelsSorted /\ []ListIsOfPlace
                       /\ []RetriesCounted /\ [](Rows > 1 => CursorInside)
                       /\ ComesBack /\ NothingElseDeleted
    BY <1>2, EachWindowAlone, ListsAreComplete, ListsAreSorted, ListsAreOfTheirPlace,
       AttemptsAreCounted, ComesBackUp, DeletesNothingElse, PTL
  <1> QED BY <1>1, <1>3, <1>4, <1>5, PTL

=============================================================================
