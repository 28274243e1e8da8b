---------------------------- MODULE DuListFiles -----------------------------
(***************************************************************************)
(* The lists of transfers of several running smbc of one user, and the     *)
(* files ~/.smbc/dulist0, dulist1, ... they are kept in between            *)
(* (RopenSaveDownloadList, RsigTerm). The instance that holds smbc.lock     *)
(* has a child that indexes the network (RtryLockFileAndCreateIndexFile);  *)
(* the child is a fork and so has a copy of the list, which it saves too   *)
(* if it was forked with the handlers of its parent and gets a signal.     *)
(*                                                                         *)
(* Every system call on a dulist file is a step of its own: processes      *)
(* interleave between them, each may be killed, and a signal may enter     *)
(* RsigTerm again while RsigTerm saves the list.                           *)
(***************************************************************************)
EXTENDS Naturals, Sequences, FiniteSets, SequencesExt

CONSTANTS
  Instance,  \* the running smbc
  Record,    \* the records that can be put in a list, each once
  None,      \* no file, nobody
  MaxFile,   \* bound on the number X of a dulistX
  Overlap,   \* whether two processes may be loading or saving at a time
  Handlers,  \* the number of signals that RsigTerm handles; each is blocked
             \* only while its own handler runs
  ToChild    \* bound: how many of them come to a child; 0 if none goes to the
             \* process group, as Ctrl-C and kill(0, SIGTERM) do

ASSUME DuListConstants ==
  /\ None \notin Seq(Record)
  /\ MaxFile \in Nat /\ Overlap \in BOOLEAN
  /\ Handlers \in Nat /\ ToChild \in Nat

Smbc    == [of : Instance, index : {FALSE}]
Process == [of : Instance, index : BOOLEAN]
Child(p) == [p EXCEPT !.index = TRUE]
Slot    == 0..MaxFile

VARIABLES
  pc,      \* where a process is
  list,    \* its RdownloadList
  slot,    \* the number of the file it loads or saves
  open,    \* the file it has open is still the one of that name
  armed,   \* its handlers of SIGINT and SIGTERM are installed
  inside,  \* the number of these handlers it is in
  lock,    \* the instance that holds smbc.lock
  dir,     \* the records in a file, None if there is no such file
  used,    \* the records that were put in a list
  wanted,  \* the records that were neither transferred nor lost by SIGKILL
           \* or a full disk
  copied   \* the records saved beside their list: by a child, or in a file
           \* whose writing a signal has interrupted

vars == <<pc, list, slot, open, armed, inside, lock, dir, used, wanted, copied>>

Loading == {"read", "unlink"}
Saving  == {"scan", "open", "write"}

TypeOK ==
  /\ pc \in [Process -> {"down", "find", "start", "run", "end"} \cup Loading \cup Saving]
  /\ list \in [Process -> Seq(Record)]
  /\ slot \in [Process -> 0..MaxFile + 1]
  /\ open \in [Process -> BOOLEAN] /\ armed \in [Process -> BOOLEAN]
  /\ inside \in [Process -> 0..Handlers]
  /\ lock \in Smbc \cup {None}
  /\ dir \in [Slot -> Seq(Record) \cup {None}]
  /\ wanted \subseteq used /\ copied \subseteq used /\ used \subseteq Record

Init ==
  /\ pc = [p \in Process |-> "down"] /\ list = [p \in Process |-> <<>>]
  /\ slot = [p \in Process |-> 0] /\ open = [p \in Process |-> FALSE]
  /\ armed = [p \in Process |-> FALSE] /\ inside = [p \in Process |-> 0] /\ lock = None
  /\ dir = [n \in Slot |-> None]
  /\ used = {} /\ wanted = {} /\ copied = {}

Goes(p, where) == pc' = [pc EXCEPT ![p] = where]
Busy(p)  == pc[p] \in Loading \cup Saving
Turn(p)  == Overlap \/ \A q \in Process \ {p} : ~Busy(q)

-----------------------------------------------------------------------------
(* The start: some dulist file is loaded and unlinked.                     *)

Start(p) == /\ pc[p] = "down" /\ pc[Child(p)] = "down" /\ Goes(p, "find")
            /\ UNCHANGED <<list, slot, open, armed, inside, lock, dir, used, wanted, copied>>

(* readdir returns the names in no particular order.                       *)
Find(p) ==
  /\ pc[p] = "find" /\ Turn(p)
  /\ \/ /\ \A n \in Slot : dir[n] = None
        /\ Goes(p, "start") /\ UNCHANGED slot
     \/ \E n \in Slot : /\ dir[n] # None
                        /\ Goes(p, "read") /\ slot' = [slot EXCEPT ![p] = n]
  /\ UNCHANGED <<list, open, armed, inside, lock, dir, used, wanted, copied>>

Read(p) ==
  /\ pc[p] = "read" /\ Goes(p, "unlink")
  /\ list' = [list EXCEPT ![p] = IF dir[slot[p]] = None THEN <<>> ELSE dir[slot[p]]]
  /\ UNCHANGED <<slot, open, armed, inside, lock, dir, used, wanted, copied>>

(* Slip (not what the code does, used nowhere): the unlink is left out.    *)
KeepFile(p) ==
  /\ pc[p] = "unlink" /\ Goes(p, "start") /\ slot' = [slot EXCEPT ![p] = 0]
  /\ UNCHANGED <<list, open, armed, inside, lock, dir, used, wanted, copied>>

Unlink(p) ==
  /\ pc[p] = "unlink" /\ Goes(p, "start")
  /\ dir' = [dir EXCEPT ![slot[p]] = None]
  /\ open' = [q \in Process |-> open[q] /\ slot[q] # slot[p]]
  /\ slot' = [slot EXCEPT ![p] = 0]
  /\ UNCHANGED <<list, armed, inside, lock, used, wanted, copied>>

(* Slip: the child keeps the descriptor and so the lock of its parent.     *)
LockOfChild(p) ==
  /\ pc[p] = "start" /\ lock = None /\ lock' = Child(p)
  /\ pc' = [pc EXCEPT ![p] = "run", ![Child(p)] = "run"]
  /\ armed' = [armed EXCEPT ![p] = TRUE]
  /\ UNCHANGED <<list, slot, open, inside, dir, used, wanted, copied>>

(* RtryLockFileAndCreateIndexFile, at the start and from every SIGALRM,    *)
(* also one that arrives while the list is saved: the child is forked      *)
(* before the first call installs the handlers, and with the mask of the   *)
(* handler it is forked in.                                                *)
TryLock(p) ==
  /\ pc[p] = "start" \/ (pc[p] \in {"run", "end"} \cup Saving /\ lock = None)
  /\ LET after == IF pc[p] = "start" THEN "run" ELSE pc[p]
     IN  IF lock = None
         THEN /\ lock' = p
              /\ pc' = [pc EXCEPT ![p] = after, ![Child(p)] = "run"]
              /\ list' = [list EXCEPT ![Child(p)] = list[p]]
              /\ armed' = [armed EXCEPT ![p] = TRUE, ![Child(p)] = armed[p]]
              /\ inside' = [inside EXCEPT ![Child(p)] = inside[p]]
         ELSE /\ Goes(p, after) /\ armed' = [armed EXCEPT ![p] = TRUE]
              /\ UNCHANGED <<lock, list, inside>>
  /\ UNCHANGED <<slot, open, dir, used, wanted, copied>>

-----------------------------------------------------------------------------
(* The list while smbc runs.                                               *)

Add(p, r) ==
  /\ pc[p] = "run" /\ r \notin used
  /\ list' = [list EXCEPT ![p] = Append(@, r)]
  /\ used' = used \cup {r} /\ wanted' = wanted \cup {r}
  /\ UNCHANGED <<pc, slot, open, armed, inside, lock, dir, copied>>

Transferred(p) ==
  /\ pc[p] = "run"
  /\ \E k \in 1..Len(list[p]) : /\ list' = [list EXCEPT ![p] = RemoveAt(@, k)]
                                /\ wanted' = wanted \ {list[p][k]}
  /\ UNCHANGED <<pc, slot, open, armed, inside, lock, dir, used, copied>>

-----------------------------------------------------------------------------
(* The end: the list is written to the first dulistX that is not there.    *)

Ended(p) == /\ list' = [list EXCEPT ![p] = <<>>]
            /\ armed' = [armed EXCEPT ![p] = FALSE]
            /\ inside' = [inside EXCEPT ![p] = 0]
            /\ slot' = [slot EXCEPT ![p] = 0]
            /\ lock' = IF lock = p THEN None ELSE lock

(* q                                                                       *)
Quit(p) ==
  /\ pc[p] = "run" /\ Goes(p, "end")
  /\ UNCHANGED <<list, slot, open, armed, inside, lock, dir, used, wanted, copied>>

(* A signal can be delivered: to a child only if it goes to the group, or  *)
(* is sent to it.  Before the handlers are there it kills (Crash).         *)
Signalled(p) == /\ armed[p] /\ inside[p] < Handlers
                /\ p.index => inside[p] < ToChild
                /\ inside' = [inside EXCEPT ![p] = @ + 1]

Signal(p) ==
  /\ pc[p] = "run" /\ Signalled(p) /\ Goes(p, "end")
  /\ UNCHANGED <<list, slot, open, armed, lock, dir, used, wanted, copied>>

End(p) ==
  /\ pc[p] = "end" /\ Turn(p)
  /\ Goes(p, "scan") /\ slot' = [slot EXCEPT ![p] = 0]
  /\ UNCHANGED <<list, open, armed, inside, lock, dir, used, wanted, copied>>

(* Slip: the first number is taken whatever files there are.               *)
ScanBlindly(p) ==
  /\ pc[p] = "scan" /\ list[p] # <<>>
  /\ Goes(p, "open") /\ UNCHANGED <<list, slot, open, armed, inside, lock, dir, used, wanted, copied>>

Scan(p) ==
  /\ pc[p] = "scan" /\ list[p] # <<>> /\ slot[p] <= MaxFile
  /\ IF dir[slot[p]] # None
     THEN slot' = [slot EXCEPT ![p] = @ + 1] /\ UNCHANGED pc
     ELSE Goes(p, "open") /\ UNCHANGED slot
  /\ UNCHANGED <<list, open, armed, inside, lock, dir, used, wanted, copied>>

NothingToSave(p) ==
  /\ pc[p] = "scan" /\ list[p] = <<>>
  /\ Goes(p, "down") /\ Ended(p)
  /\ UNCHANGED <<open, dir, used, wanted, copied>>

(* O_CREAT | O_TRUNC, without O_EXCL                                       *)
Open(p) ==
  /\ pc[p] = "open" /\ Goes(p, "write")
  /\ dir' = [dir EXCEPT ![slot[p]] = <<>>]
  /\ open' = [open EXCEPT ![p] = TRUE]
  /\ UNCHANGED <<list, slot, armed, inside, lock, used, wanted, copied>>

(* The first k records get into the file, a torn one is dropped when it is *)
(* read.  Two writers of one file both start at its first byte.            *)
Over(new, old) == new \o SubSeq(old, Len(new) + 1, Len(old))
Written(p, k)  == SubSeq(list[p], 1, k)
Puts(p, k) ==
  /\ dir' = IF open[p] THEN [dir EXCEPT ![slot[p]] = Over(Written(p, k), @)] ELSE dir
  /\ open' = [open EXCEPT ![p] = FALSE]

Write(p) ==
  /\ pc[p] = "write" /\ Goes(p, "down") /\ Ended(p)
  /\ Puts(p, Len(list[p]))
  /\ copied' = IF p.index THEN copied \cup Range(list[p]) ELSE copied
  /\ UNCHANGED <<used, wanted>>

(* Another signal while RsigTerm runs enters it again: it saves the whole  *)
(* list once more and exits, and what it has interrupted never goes on.    *)
(* A short write sends SIGTERM itself.                                     *)
SignalAgain(p) ==
  /\ pc[p] \in {"scan", "open"} /\ Signalled(p) /\ Goes(p, "end")
  /\ slot' = [slot EXCEPT ![p] = 0]
  /\ UNCHANGED <<list, open, armed, lock, dir, used, wanted, copied>>

SignalInWrite(p) ==
  /\ pc[p] = "write" /\ Signalled(p) /\ Goes(p, "end")
  /\ slot' = [slot EXCEPT ![p] = 0]
  /\ \E k \in 0..Len(list[p]) : /\ Puts(p, k)
                                /\ copied' = copied \cup Range(Written(p, k))
  /\ UNCHANGED <<list, armed, lock, used, wanted>>

(* SIGKILL while it writes, or a write that is short when SIGTERM is       *)
(* blocked: the rest of the list is gone.                                  *)
BreakOff(p) ==
  /\ pc[p] = "write" /\ Goes(p, "down") /\ Ended(p)
  /\ \E k \in 0..Len(list[p]) :
       /\ Puts(p, k)
       /\ IF p.index
          THEN copied' = copied \cup Range(Written(p, k)) /\ UNCHANGED wanted
          ELSE /\ wanted' = wanted \ {list[p][i] : i \in k + 1..Len(list[p])}
               /\ UNCHANGED copied
  /\ UNCHANGED used

(* SIGKILL, a signal before the handlers are there, an open that fails     *)
(* when SIGTERM is blocked, or the end of the child's loop.                *)
Crash(p) ==
  /\ pc[p] \notin {"down", "write"} /\ Goes(p, "down") /\ Ended(p)
  /\ open' = [open EXCEPT ![p] = FALSE]
  /\ wanted' = IF p \in Smbc /\ pc[p] \notin Loading
               THEN wanted \ Range(list[p]) ELSE wanted
  /\ UNCHANGED <<dir, used, copied>>

Next == \/ \E p \in Smbc : \/ Start(p) \/ Find(p) \/ Read(p) \/ Unlink(p) \/ TryLock(p)
                           \/ Transferred(p) \/ Quit(p)
                           \/ \E r \in Record : Add(p, r)
        \/ \E p \in Process : \/ Signal(p) \/ SignalAgain(p) \/ SignalInWrite(p)
                              \/ End(p) \/ Scan(p) \/ NothingToSave(p) \/ Open(p) \/ Write(p)
                              \/ BreakOff(p) \/ Crash(p)

Spec == Init /\ [][Next]_vars

-----------------------------------------------------------------------------
(* A record waits in a file or in the list of an instance that has taken   *)
(* it from its file.                                                       *)
InFile(r, n) == dir[n] # None /\ r \in Range(dir[n])
InHand(r, p) == r \in Range(list[p]) /\ pc[p] # "unlink"
Files(r) == {n \in Slot : InFile(r, n)}
Hands(r) == {p \in Smbc : InHand(r, p)}

(* Whatever instances start, stop or are killed, a record that was neither *)
(* transferred nor in the list of a killed instance, nor beyond the end of *)
(* a full disk, is still to be found, also if signals interrupt a save,    *)
(* if no two processes load or save at the same time (RsigTerm,            *)
(* RopenSaveDownloadList).                                                 *)
NothingLost == \A r \in wanted : Files(r) # {} \/ Hands(r) # {}

(* A record waits in one place only, and none that was transferred comes   *)
(* back from a file, but for what a child has saved, and what stood in a   *)
(* file already when a second SIGINT or SIGTERM interrupted its writing:   *)
(* RsigTerm then saves the whole list once more under the next number.     *)
NothingTwice ==
  \A r \in used \ copied :
    Cardinality(Files(r)) + Cardinality(Hands(r)) <= IF r \in wanted THEN 1 ELSE 0

(* doc/smbc.texi: "If you do the same at one time with more that one Smbc  *)
(* in ~/.smbc/ directory will be created more that one dufileX": what each *)
(* of several instances saves is kept, also when they end at one time.     *)
EachIsSaved == NothingLost
=============================================================================
