--------------------------- MODULE DownloadUpload ---------------------------
(***************************************************************************)
(* The transfer engine of smbc: the download/upload list, the engine that  *)
(* works on one record of it at a time (RdownloadUpload, one call per pass *)
(* of the key loop), the dialogs of a failed transfer (Rchoice), the list  *)
(* editor as far as it changes the list (RmanageList), and the end and the *)
(* restart of the process.                                                 *)
(*                                                                         *)
(* The program is single threaded, so a call of the engine is one action;  *)
(* what interleaves with it are the keys of the user, the clock, the       *)
(* network and the disks, and the signals that end the process.            *)
(***************************************************************************)
EXTENDS Integers, Sequences, SequencesExt

CONSTANTS
  Item,        \* the files that can be in the list, one record each
  None,        \* "no record" (NULL) and "no handle" (-1)
  Uploads,     \* the items whose record has upload = 'U', the others have 'D'
  Folder,      \* the remote directory (pathR) of an item
  SizeOf,      \* the length of an item's source, in blocks of the copy buffer
  Foreign,     \* items whose destination name another file may have taken
  NoSource,    \* items whose source cannot be opened
  NoTarget,    \* items whose destination cannot be created
  Block,       \* blocks the copy buffer holds
  IntHalf,     \* 2^31: the code compares sizes as (int)st_size
  MaxDelay,    \* bound on delayRetry
  MaxLen,      \* bound on the length a foreign destination starts with
  MaxFd,       \* descriptors (local and libsmbclient) a process can have open
  AskRetry,    \* RaskRetry as the configuration file sets it
  AskDiskFull  \* RaskRetryDiskFull as the configuration file sets it

ASSUME ConstantsOK ==
  /\ None \notin Item
  /\ Uploads \subseteq Item
  /\ Foreign \subseteq Item /\ NoSource \subseteq Item /\ NoTarget \subseteq Item
  /\ SizeOf \in [Item -> Nat]
  /\ Block \in Nat \ {0} /\ IntHalf \in Nat \ {0}
  /\ MaxDelay \in Nat /\ MaxLen \in Nat /\ MaxFd \in Nat
  /\ AskRetry \in BOOLEAN /\ AskDiskFull \in BOOLEAN

VARIABLES
  list,    \* RdownloadList from its first record; while the process is down,
           \* the records of the dulist file it was saved to
  rec,     \* the fields of an item's record: active, delayRetry and due, the
           \* seconds until time(NULL) > nextRetry
  act,     \* RdownloadListAct
  rd, wr,  \* RdownloadHandleRD and WR: the item whose source, whose
           \* destination the descriptor belongs to
  leaked,  \* open descriptors that no variable of the program holds
  file,    \* the destination file of an item: its length, and whether it
           \* holds a prefix of the item's source
  fate,    \* how the engine last dropped an item as finished: "done" from
           \* the sizes it read, "blind" from sizes it could not read
  ask,     \* RaskRetry and RaskRetryDiskFull
  mode,    \* main loop, list editor, the purge when it is left, not running
  net,     \* the remote hosts answer
  room     \* the destination disks have space

program == <<list, rec, act, rd, wr, leaked, ask, mode>>
vars    == <<list, rec, act, rd, wr, leaked, file, fate, ask, mode, net, room>>

Mark   == {"X", " ", "D", "W"}
Record == [active : Mark, delay : 0..MaxDelay, due : 0..MaxDelay + 1]
File   == [len : Nat, same : BOOLEAN]

(* The record of an item that is not in the list has no fields to keep.    *)
Blank == [active |-> "X", delay |-> 0, due |-> 0]

TypeOK ==
  /\ list \in Seq(Item)
  /\ rec \in [Item -> Record]
  /\ act \in Item \cup {None}
  /\ rd \in Item \cup {None} /\ wr \in Item \cup {None}
  /\ leaked \in Nat
  /\ file \in [Item -> File]
  /\ fate \in [Item -> {"none", "done", "blind"}]
  /\ ask \in [{"retry", "full"} -> BOOLEAN]
  /\ mode \in {"main", "edit", "purge", "down"}
  /\ net \in BOOLEAN /\ room \in BOOLEAN

Init ==
  /\ list = <<>> /\ rec = [i \in Item |-> Blank]
  /\ act = None /\ rd = None /\ wr = None /\ leaked = 0
  /\ file \in [Item -> [len : 0..MaxLen, same : BOOLEAN]]
  /\ \A i \in Item : /\ file[i].same <=> file[i].len = 0
                     /\ file[i].same \/ i \in Foreign
  /\ fate = [i \in Item |-> "none"]
  /\ ask = [retry |-> AskRetry, full |-> AskDiskFull]
  /\ mode = "main" /\ net = TRUE /\ room = TRUE

-----------------------------------------------------------------------------
(* The list and the descriptors.                                           *)

InList(i)   == i \in Range(list)
Held        == (IF rd = None THEN 0 ELSE 1) + (IF wr = None THEN 0 ELSE 1)
CanOpen     == leaked + Held < MaxFd
Reads(i)    == CanOpen /\ (i \in Uploads \/ net)
Ready(i)    == rec[i].active = "X" /\ rec[i].due = 0

(* st_size after the conversion to int                                     *)
AsInt(n) == LET r == n % (2 * IntHalf) IN IF r < IntHalf THEN r ELSE r - 2 * IntHalf

(* The first record the engine may start with, by its position. (HeadOnly  *)
(* and the other definitions marked "slip" are not what the code does:     *)
(* nothing here uses them.)                                                *)
HeadOnly(k) == k = 1 /\ list # <<>> /\ Ready(list[1])   \* slip: no search
IsNext(k) == /\ k \in 1..Len(list) /\ Ready(list[k])
             /\ \A j \in 1..(k - 1) : ~Ready(list[j])

(* nextRetry = time(NULL) + delayRetry, which the clock must pass. Slip:   *)
(* NextRetryLate waits a second more.                                      *)
NextRetryLate(i) == rec' = [rec EXCEPT ![i].due = rec[i].delay + 2]
NextRetry(i) == rec' = [rec EXCEPT ![i].due = rec[i].delay + 1]

(* The record at position k is unlinked and freed.                         *)
Free(k) == /\ list' = RemoveAt(list, k)
           /\ rec' = [rec EXCEPT ![list[k]] = Blank]

Drop == act' = None /\ rd' = None /\ wr' = None

(* RremoveActFromListAndCloseFiles: the only place of the engine that      *)
(* closes each handle with the function of its own side.                   *)
RemoveAct(why) ==
  /\ \E k \in 1..Len(list) : list[k] = act /\ Free(k)
  /\ fate' = [fate EXCEPT ![act] = why]
  /\ Drop /\ UNCHANGED leaked

-----------------------------------------------------------------------------
(* Rchoice. n is the length the destination has by now, r the record as    *)
(* the dialog leaves it, open whether the two handles are open.            *)

(* Cases 2, 3 and 4 give smbc_close the local descriptor and close the one *)
(* of libsmbclient: both calls fail and both descriptors stay open.        *)
Abandon(r, n, open) ==
  /\ Drop
  /\ leaked' = leaked + (IF open THEN 2 ELSE 0)
  /\ rec' = [rec EXCEPT ![act] = r]
  /\ file' = [file EXCEPT ![act].len = n]
  /\ UNCHANGED <<list, fate>>

(* Case 1 closes, removes and reopens the destination, then forgets both   *)
(* handles; it closes them only if the reopening failed.                   *)
Overwrite(r, n, open) ==
  LET reaches  == act \notin Uploads \/ net
      before   == leaked + (IF open THEN 1 ELSE 0)
      reopened == reaches /\ act \notin NoTarget /\ before < MaxFd
  IN /\ rd' = None /\ wr' = None /\ UNCHANGED <<list, act, fate>>
     /\ leaked' = IF reopened THEN before + 1 ELSE leaked
     /\ rec' = [rec EXCEPT ![act] = r]
     /\ \/ reaches /\ file' = [file EXCEPT ![act] = [len |-> 0, same |-> TRUE]]
        \/ file' = [file EXCEPT ![act].len = n]

Choice(v, q, r, n, open) ==
  /\ ask' = IF v = 4 THEN [ask EXCEPT ![q] = FALSE] ELSE ask
  /\ \/ v = 0 /\ RemoveAct("none") /\ file' = [file EXCEPT ![act].len = n]
     \/ v = 1 /\ Overwrite(r, n, open)
     \/ v = 2 /\ Abandon([r EXCEPT !.active = "W"], n, open)
     \/ v \in {3, 4} /\ Abandon(r, n, open)

(* The answers a dialog can give and the records it can leave: the user may *)
(* change the delay while it is shown, and the one about a broken           *)
(* connection sets nextRetry. No dialog is shown once "without asking".     *)
(* Slip: OverwriteUnasked gives the wrong answer for the user.             *)
OverwriteUnasked(q, last) == IF ask[q] THEN 0..last ELSE {1}
Answer(q, last) == IF ask[q] THEN 0..last ELSE {4}
Edited(broken) ==
  IF ask["retry"]
  THEN {[rec[act] EXCEPT !.delay = d, !.due = IF broken THEN d + 1 ELSE @] :
            d \in 0..MaxDelay}
  ELSE {rec[act]}

-----------------------------------------------------------------------------
(* RdownloadUpload.                                                        *)

SourceOpens(i) == i \notin NoSource /\ Reads(i)
TargetOpens(i) == i \notin NoTarget /\ CanOpen /\ (i \in Uploads => net)

(* No handle is open: the first record that is active and due is tried.    *)
Scan ==
  /\ rd = None
  /\ \/ /\ \A k \in 1..Len(list) : ~Ready(list[k])
        /\ act' = None /\ UNCHANGED <<rec, rd>>
     \/ \E k \in 1..Len(list) :
           /\ IsNext(k)
           /\ IF SourceOpens(list[k])
              THEN act' = list[k] /\ rd' = list[k] /\ UNCHANGED rec
              ELSE act' = None /\ NextRetry(list[k]) /\ UNCHANGED rd
  /\ UNCHANGED <<list, wr, leaked, file, fate, ask>>

(* The source is open: the destination is created, or opened to resume.    *)
OpenTarget ==
  /\ rd # None /\ wr = None
  /\ IF TargetOpens(act) THEN wr' = act /\ UNCHANGED rec
                         ELSE NextRetry(act) /\ UNCHANGED wr
  /\ UNCHANGED <<list, act, rd, leaked, file, fate, ask>>

BothOpen == rd # None /\ wr # None

(* fstat fails: both handles are closed, and the call goes on with sizes   *)
(* nothing has set. They may compare in each of the three ways.            *)
StatFails ==
  /\ BothOpen /\ ~net
  /\ \/ RemoveAct("blind") /\ UNCHANGED <<file, ask>>
     \/ /\ rd' = None /\ wr' = None
        /\ \E r \in Edited(TRUE) \cup {rec[act]} : rec' = [rec EXCEPT ![act] = r]
        /\ UNCHANGED <<list, act, leaked, file, fate, ask>>
     \/ \E v \in Answer("retry", 4), r \in Edited(TRUE) :
           Choice(v, "retry", r, file[act].len, FALSE)

(* The destination is not shorter than the source. Slip: FinishEarly.      *)
FinishEarly ==
  /\ BothOpen
  /\ AsInt(file[act].len) + 1 >= AsInt(SizeOf[act])
  /\ RemoveAct("done") /\ UNCHANGED <<file, ask>>

Finish ==
  /\ BothOpen
  /\ AsInt(file[act].len) >= AsInt(SizeOf[act])
  /\ RemoveAct("done") /\ UNCHANGED <<file, ask>>

(* One buffer is read at the length of the destination and written there.  *)
(* A failed read makes the write fail too, which passes for a full copy.   *)
Read(i) == {k \in 1..Block : file[i].len + k <= SizeOf[i] /\ (net \/ i \in Uploads)}

Transfer(r) ==
  LET len == file[act].len IN
  \/ /\ Read(act) = {}
     /\ rec' = [rec EXCEPT ![act] = r]
     /\ UNCHANGED <<list, act, rd, wr, leaked, file, fate, ask>>
  \/ \E k \in Read(act) :
       \/ /\ room /\ (act \in Uploads => net)
          /\ file' = [file EXCEPT ![act].len = len + k]
          /\ rec' = [rec EXCEPT ![act] = r]
          /\ UNCHANGED <<list, act, rd, wr, leaked, fate, ask>>
       \/ /\ ~room \/ (act \in Uploads /\ ~net)
          /\ \E w \in 0..(k - 1), v \in Answer("full", 4) :
                Choice(v, "full", r, len + w, TRUE)

(* The destination is shorter. If it is not empty its tail is compared     *)
(* with the source first: tails of different files may agree.              *)
Copy ==
  /\ BothOpen
  /\ AsInt(file[act].len) < AsInt(SizeOf[act])
  /\ \/ /\ AsInt(file[act].len) > 0 => net
        /\ Transfer(rec[act])
     \/ /\ AsInt(file[act].len) > 0
        /\ ~net \/ ~file[act].same
        /\ \E v \in Answer("retry", 5), r \in Edited(~net) :
              \/ v < 5 /\ Choice(v, "retry", r, file[act].len, TRUE)
              \/ v = 5 /\ Transfer(r)

Engine == /\ mode = "main" /\ list # <<>>
          /\ Scan \/ OpenTarget \/ StatFails \/ Finish \/ Copy
          /\ UNCHANGED <<mode, net, room>>

-----------------------------------------------------------------------------
(* The user's keys.                                                        *)

(* A file is selected and copied: if it can be opened now, its record goes *)
(* to the end of the list. A file has at most one record.                  *)
Add(i) ==
  /\ mode = "main" /\ ~InList(i) /\ Reads(i)
  /\ list' = Append(list, i)
  /\ \E d \in 0..MaxDelay :
        rec' = [rec EXCEPT ![i] = [active |-> "X", delay |-> d, due |-> 1]]
  /\ fate' = [fate EXCEPT ![i] = "none"]
  /\ UNCHANGED <<act, rd, wr, leaked, file, ask, mode, net, room>>

OpenEditor == /\ mode = "main" /\ list # <<>> /\ mode' = "edit"
              /\ UNCHANGED <<list, rec, act, rd, wr, leaked, file, fate, ask, net, room>>

(* space, d and u on the record at k                                       *)
SetMark(k, m) == rec' = [rec EXCEPT ![list[k]].active = m]
Toggle(k)   == SetMark(k, IF rec[list[k]].active = "X" THEN " " ELSE "X")
Delete(k)   == SetMark(k, "D")
Undelete(k) == SetMark(k, "X")

(* The delay keys and n; the keys for all records repeat them.             *)
Delay(k) == \E d \in 0..MaxDelay : rec' = [rec EXCEPT ![list[k]].delay = d]
TryNow(k) == rec' = [rec EXCEPT ![list[k]].due = 1]

(* CTRL-d and CTRL-f look up the record after the selected one.            *)
DeleteFolder(k) ==
  rec' = [i \in Item |-> IF InList(i) /\ Folder[i] = Folder[list[k + 1]]
                         THEN [rec[i] EXCEPT !.active = "D"] ELSE rec[i]]
DeleteAll ==
  rec' = [i \in Item |-> IF InList(i) THEN [rec[i] EXCEPT !.active = "D"] ELSE rec[i]]

(* The key down moves on and in the move mode takes the record along: the  *)
(* record at k and the next one change places. The key up does the same to *)
(* the record at k + 1; space, d and u end as the key down. Slip: MoveOver *)
MoveOver(k) == list' = [list EXCEPT ![k] = list[k + 1]]
MoveDown(k) == list' = [list EXCEPT ![k] = list[k + 1], ![k + 1] = list[k]]
Down(k) == UNCHANGED list \/ (k < Len(list) /\ MoveDown(k))

Edit ==
  /\ mode = "edit"
  /\ \E k \in 1..Len(list) :
       \/ Toggle(k) /\ Down(k)
       \/ Delete(k) /\ Down(k)
       \/ Undelete(k) /\ Down(k)
       \/ Delay(k) /\ UNCHANGED list
       \/ TryNow(k) /\ UNCHANGED list
       \/ k < Len(list) /\ DeleteFolder(k) /\ UNCHANGED list
       \/ k < Len(list) /\ DeleteAll /\ UNCHANGED list
       \/ k < Len(list) /\ MoveDown(k) /\ UNCHANGED rec
  /\ UNCHANGED <<act, rd, wr, leaked, file, fate, ask, mode, net, room>>

(* q: the records marked D are freed one after the other. If the engine's  *)
(* record is among them its handles are closed as those of a download.     *)
LeaveEditor == /\ mode = "edit" /\ mode' = "purge"
               /\ UNCHANGED <<list, rec, act, rd, wr, leaked, file, fate, ask, net, room>>

(* Slip: PurgeBlindly does not look for the engine's record.               *)
PurgeBlindly ==
  /\ mode = "purge"
  /\ \E k \in 1..Len(list) : rec[list[k]].active = "D" /\ Free(k)
  /\ UNCHANGED <<act, rd, wr, leaked, file, fate, ask, mode, net, room>>

Purge ==
  /\ mode = "purge"
  /\ \E k \in 1..Len(list) :
       /\ rec[list[k]].active = "D"
       /\ \A j \in 1..(k - 1) : rec[list[j]].active # "D"
       /\ Free(k)
       /\ IF list[k] = act
          THEN Drop /\ leaked' = leaked + (IF act \in Uploads THEN Held ELSE 0)
          ELSE UNCHANGED <<act, rd, wr, leaked>>
  /\ UNCHANGED <<file, fate, ask, mode, net, room>>

Purged == /\ mode = "purge"
          /\ \A k \in 1..Len(list) : rec[list[k]].active # "D"
          /\ mode' = "main"
          /\ UNCHANGED <<list, rec, act, rd, wr, leaked, file, fate, ask, net, room>>

-----------------------------------------------------------------------------
(* The end of the process and its restart, the clock and the world.        *)

(* q in the main loop, SIGINT, SIGTERM, and the list editor looking for a  *)
(* record past the end: the list is saved.                                 *)
Exit == /\ mode # "down" /\ mode' = "down"
        /\ Drop /\ leaked' = 0
        /\ UNCHANGED <<list, rec, file, fate, ask, net, room>>

(* Any other end. The file the list came from was unlinked at the start.   *)
Crash == /\ mode # "down" /\ mode' = "down"
         /\ Drop /\ leaked' = 0
         /\ list' = <<>> /\ rec' = [i \in Item |-> Blank]
         /\ UNCHANGED <<file, fate, ask, net, room>>

Start == /\ mode = "down" /\ mode' = "main"
         /\ ask' = [retry |-> AskRetry, full |-> AskDiskFull]
         /\ UNCHANGED <<list, rec, act, rd, wr, leaked, file, fate, net, room>>

Tick == /\ \E i \in Item : rec[i].due > 0
        /\ rec' = [i \in Item |-> [rec[i] EXCEPT !.due = IF @ > 0 THEN @ - 1 ELSE 0]]
        /\ UNCHANGED <<list, act, rd, wr, leaked, file, fate, ask, mode, net, room>>

World == /\ net' \in BOOLEAN /\ room' \in BOOLEAN
         /\ UNCHANGED program /\ UNCHANGED <<file, fate>>

User == \/ \E i \in Item : Add(i)
        \/ OpenEditor \/ Edit \/ LeaveEditor

Next == Engine \/ User \/ Purge \/ Purged \/ Exit \/ Crash \/ Start \/ Tick \/ World

Spec == Init /\ [][Next]_vars

(* The main loop calls the engine on every pass, and SIGALRM makes it pass *)
(* once a second; the purge is a loop of one key; the clock does not stop. *)
(* Nothing is assumed of the user, of the network or of the disks.         *)
FairSpec == /\ Spec
            /\ WF_vars(Engine) /\ WF_vars(Purge \/ Purged) /\ WF_vars(Tick)

-----------------------------------------------------------------------------
(* The engine never mixes two records and never holds a freed one: RD and  *)
(* WR belong to the record RdownloadListAct points to, that record is in   *)
(* the list, and the destination is open only while the source is.         *)
HandlesFollowAct ==
  /\ act # None => InList(act)
  /\ rd \in {None, act} /\ wr \in {None, rd}

(* A record is in the list once, whatever is moved, freed or added.        *)
NoDuplicates == \A j, k \in 1..Len(list) : list[j] = list[k] => j = k

(* What FinishedIsWhole rests on: a record in the list has not been        *)
(* dropped, and what is written never goes beyond the source.              *)
ListedIsUnfinished == \A i \in Item : InList(i) => fate[i] = "none"
PrefixFits == \A i \in Item : file[i].same => file[i].len <= SizeOf[i]

(* A file that is dropped as finished was transferred: unless another file *)
(* is at its destination, or its size could not be read, or it does not    *)
(* fit an int, the destination holds the whole source. Interruptions,      *)
(* resumes, dialogs, restarts and crashes do not spoil it.                 *)
FinishedIsWhole ==
  \A i \in Item : /\ fate[i] = "done" /\ ~InList(i)
                  /\ file[i].same /\ SizeOf[i] < IntHalf
                  => file[i].len = SizeOf[i]

(* What has been transferred is erased only by an answer to a dialog: once *)
(* both questions are turned off ("retry without asking") no failure       *)
(* shortens a destination.                                                 *)
NeverErasesUnasked ==
  [][(\E i \in Item : file'[i].len < file[i].len) => ask["retry"] \/ ask["full"]]_vars

(* The engine keeps the promise of TransferQueue: the transfer is the file *)
(* whose source is open, and a file is finished when its sizes said so.    *)
Promise == INSTANCE TransferQueue WITH
  Size <- SizeOf, Most <- MaxLen,
  queue <- list, current <- rd,
  stored <- [i \in Item |-> file[i].len],
  finished <- {i \in Item : fate[i] = "done"}
KeepsPromise == Promise!Spec

(* While the user leaves the list alone, the hosts answer, the disks have  *)
(* space and descriptors are left, every active record leaves the list.    *)
Undisturbed == mode = "main" /\ net /\ room /\ leaked + 2 <= MaxFd
Waiting(i)  == InList(i) /\ rec[i].active = "X"
Served ==
  <>[]Undisturbed =>
    \A i \in Item \ (NoSource \cup NoTarget \cup Foreign) : Waiting(i) ~> ~Waiting(i)

-----------------------------------------------------------------------------
(* Statements of the documentation that the code does not meet.            *)

(* doc/smbcrc.1, autoresume: "If connection to remote host or to local     *)
(* file was broken and autoresume was set 1 Smbc sets retry-delay-time for *)
(* this file and immediatelly goes to next item". A record whose           *)
(* destination cannot be opened or holds another file does not keep the    *)
(* others from being served.                                               *)
NextItemServed ==
  <>[]Undisturbed => \A i \in Item \ (NoTarget \cup Foreign) : Waiting(i) ~> ~Waiting(i)

(* doc/smbc.1: "(F5) (d) - download/upload selected files and directories".*)
(* A record that leaves the list as finished was transferred, also when    *)
(* the size of a file could not be read.                                   *)
StatFailureKeepsRecord ==
  \A i \in Item \ Foreign : (fate[i] # "none" /\ ~InList(i)) => file[i].len = SizeOf[i]

(* doc/smbc.texi: "if the parameter autoresume is set to 1, the Smbc       *)
(* retries after fiew seconds without asking". Once the network is back    *)
(* for good, every active record is served, however often it was broken.   *)
RetriesGoOn ==
  <>[](mode = "main" /\ net /\ room) => \A i \in Item : Waiting(i) ~> ~Waiting(i)
=============================================================================
