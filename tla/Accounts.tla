------------------------------ MODULE Accounts ------------------------------
(***************************************************************************)
(* The account of the network (smb-ext.c): one pair Rusername, Rpassword   *)
(* that the library asks for at each connection.  The panels use it, the   *)
(* transfers put the account of their record there while they open a file  *)
(* and the old one back, the goto window and a bookmark change it.         *)
(*                                                                         *)
(* The goto window is handed the two strings and not their variables: an   *)
(* open in between frees the strings, and what OK writes to may be any     *)
(* other memory.                                                           *)
(***************************************************************************)
EXTENDS Naturals

CONSTANTS
  Words,     \* user names and passwords
  Owner,     \* [record of the list -> its account]
  MarkAccounts,     \* accounts of bookmarks
  None       \* no string

VARIABLES
  now,       \* Rusername, Rpassword
  inter,     \* RusernameInter, RpasswordInter
  transfer,  \* the open that is under way: its point, its record
  at,        \* the window: "main", "goto", "bookmarks"
  Rrol,      \* in the goto window: 3 the fields, 2 and 1 the two buttons
  field,     \* the field that is typed in
  typed,     \* Rtuser, Rtpass
  given,     \* has the goto window strings that still exist?
  wished,    \* history: the account the user has wished last
  requests,  \* history: the requests of this transfer and their accounts
  loose      \* history: was a freed string used?

accountVars == <<now, inter, transfer, at, Rrol, field, typed, given,
                 wished, requests, loose>>

Account == [user: Words, pass: Words]

(* A record and a bookmark keep the two strings of an account.             *)
ASSUME AccountAssumption ==
  Owner \in [DOMAIN Owner -> Account] /\ MarkAccounts \subseteq Account

NoAccount == [user |-> None, pass |-> None]
Idle == [point |-> "idle", of |-> None]
Resting == transfer = Idle
window0 == <<at, Rrol, field, typed, wished, loose>>

----------------------------------------------------------------------------
(* An open for a record.  An upload makes the directories before, and who  *)
(* overwrites unlinks the old file before: both as the panel.              *)
Passes(from, to) ==
  /\ transfer.point = from /\ transfer' = [transfer EXCEPT !.point = to]
Request(what) ==
  requests' = requests \cup {[what |-> what, of |-> transfer.of, as |-> now]}

BeginOpen ==
  /\ Resting
  /\ \E r \in DOMAIN Owner : transfer' = [point |-> "begun", of |-> r]
  /\ UNCHANGED <<window0, now, inter, given, requests>>

BeforeOpen ==
  /\ Passes("begun", "save")
  /\ \/ Request("mkdir") \/ Request("unlink") \/ UNCHANGED requests
  /\ UNCHANGED <<window0, now, inter, given>>

(* VI_ST_TO_INTER, and then the account of the record takes the place of   *)
(* the old one, whose strings are freed.                                   *)
SaveAccount ==
  /\ Passes("save", "use") /\ inter' = now
  /\ UNCHANGED <<window0, now, requests, given>>

UseAccount ==
  /\ Passes("use", "open") /\ now' = Owner[transfer.of] /\ given' = FALSE
  /\ UNCHANGED <<window0, inter, requests>>

OpenFile ==
  /\ Passes("open", "back") /\ Request("open")
  /\ UNCHANGED <<window0, now, inter, given>>

(* Slip (not what the code does, used nowhere): a failed open leaves       *)
(* before the account is put back.                                         *)
BackIfOpened ==
  /\ Passes("back", "forget") /\ now' \in {now, inter}
  /\ UNCHANGED <<window0, inter, requests, given>>

AccountBack ==
  /\ Passes("back", "forget") /\ now' = inter
  /\ UNCHANGED <<window0, inter, requests, given>>

Forget ==
  /\ transfer.point = "forget" /\ transfer' = Idle /\ inter' = NoAccount
  /\ requests' = {}
  /\ UNCHANGED <<window0, now, given>>

OpenRecord ==
  BeginOpen \/ BeforeOpen \/ SaveAccount \/ UseAccount \/ OpenFile \/ AccountBack \/ Forget

----------------------------------------------------------------------------
(* 'g': a window of five fields, of which the last two are the account,    *)
(* and two buttons.  Transfers go on while it is open.                     *)
KeyAt(where) == Resting /\ at = where
quiet == <<inter, transfer, requests>>

OpenGoto ==
  /\ KeyAt("main") /\ at' = "goto" /\ given' = TRUE
  /\ typed' = now /\ Rrol' = 3 /\ field' = 1
  /\ UNCHANGED <<quiet, now, wished, loose>>

TypeField ==
  /\ KeyAt("goto") /\ Rrol = 3 /\ field \in {4, 5}
  /\ \E n \in Words :
       typed' = IF field = 4 THEN [typed EXCEPT !.user = n]
                ELSE [typed EXCEPT !.pass = n]
  /\ UNCHANGED <<quiet, now, at, Rrol, field, given, wished, loose>>

NextField ==
  /\ KeyAt("goto") /\ Rrol = 3
  /\ IF field < 5 THEN field' = field + 1 /\ UNCHANGED Rrol
     ELSE field' = 1 /\ Rrol' = 2
  /\ UNCHANGED <<quiet, now, at, typed, given, wished, loose>>

TabButton ==
  /\ KeyAt("goto") /\ Rrol # 3
  /\ Rrol' = IF Rrol = 1 THEN 3 ELSE Rrol - 1
  /\ UNCHANGED <<quiet, now, at, field, typed, given, wished, loose>>

(* What was typed in a window goes with it.                                *)
LeaveWindow ==
  /\ at' = "main" /\ given' = FALSE
  /\ typed' = NoAccount /\ Rrol' = 3 /\ field' = 1
  /\ UNCHANGED quiet

(* OK copies what was typed into the strings the window was given.         *)
PressOk ==
  /\ KeyAt("goto") /\ Rrol = 2 /\ LeaveWindow
  /\ now' \in IF given THEN {typed} ELSE Account
  /\ wished' = typed
  /\ loose' = ~given

CloseWindow ==
  /\ (KeyAt("goto") /\ Rrol # 3) \/ KeyAt("bookmarks")
  /\ LeaveWindow /\ UNCHANGED <<now, wished, loose>>

----------------------------------------------------------------------------
(* 'b': transfers go on while the window of bookmarks is open, too.        *)
OpenMarks ==
  /\ KeyAt("main") /\ at' = "bookmarks"
  /\ UNCHANGED <<quiet, now, Rrol, field, typed, given, wished, loose>>

(* A jump sets the password to the user name of the bookmark and then to   *)
(* its password; the user name of before stays.                            *)
JumpToBookmark ==
  /\ KeyAt("bookmarks") /\ LeaveWindow
  /\ \E m \in MarkAccounts : /\ now' = [now EXCEPT !.pass = m.pass]
                             /\ wished' = [wished EXCEPT !.pass = m.pass]
  /\ UNCHANGED loose

AccountInit ==
  /\ now \in Account /\ wished = now /\ inter = NoAccount
  /\ transfer = Idle /\ at = "main" /\ Rrol = 3 /\ field = 1
  /\ typed = NoAccount /\ given = FALSE
  /\ requests = {} /\ loose = FALSE

AccountNext ==
  \/ OpenRecord \/ OpenGoto \/ TypeField \/ NextField \/ TabButton
  \/ PressOk \/ CloseWindow \/ OpenMarks \/ JumpToBookmark

----------------------------------------------------------------------------
AccountTypeOK ==
  /\ now \in Account /\ inter \in Account \cup {NoAccount}
  /\ typed \in Account \cup {NoAccount} /\ wished \in Account
  /\ Rrol \in 1..3 /\ field \in 1..5
  /\ given \in BOOLEAN /\ loose \in BOOLEAN

(* Between the keys the account is the one the user has wished, however    *)
(* many records of other accounts were opened behind an open window, and   *)
(* their files are opened with the accounts of their records; except after *)
(* OK in a goto window behind which a record was opened.                   *)
AccountOfEach ==
  /\ Resting => loose \/ now = wished
  /\ \A q \in requests : q.what = "open" => q.as = Owner[q.of]
============================================================================
