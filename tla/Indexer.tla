------------------------------ MODULE Indexer ------------------------------
(***************************************************************************)
(* The index of all files of the network (RtryLockFileAndCreateIndexFile,  *)
(* RcreateFindIndex). The instance of smbc that gets the lock on smbc.lock *)
(* removes the index findfile and forks an indexer, which writes           *)
(* findfileprim and renames it to findfile, sleeps and starts again. The   *)
(* indexer is not told when its instance ends: it finds the lock free, or  *)
(* it goes on, for ever if it could not open smbc.lock.                    *)
(*                                                                         *)
(* A name of a file and the file itself are kept apart, since an indexer   *)
(* goes on writing what another one has opened, truncated or renamed.      *)
(***************************************************************************)
EXTENDS Integers, FiniteSets

CONSTANTS
  Instance,  \* the running smbc of one user
  Child,     \* the indexers that may be alive at a time
  Inode,     \* the files
  None,      \* no file: 0 as RindexFileFd
  Failed,    \* -1 as RindexFileFd
  IndexTime, \* RindexTime as the configuration file sets it
  OpenFails  \* whether an indexer may fail to open smbc.lock

ASSUME IndexerConstants ==
  /\ None \notin Inode /\ Failed \notin Inode \cup {None} /\ IsFiniteSet(Child)
  /\ IndexTime \in Int /\ OpenFails \in BOOLEAN
  /\ Cardinality(Inode) >= Cardinality(Child) + 2

VARIABLES
  run,      \* the instances that run
  holders,  \* who has the locked smbc.lock open: the lock is free if nobody
  pc,       \* where an indexer is, "none" if there is none
  fd,       \* RindexFileFd
  prim,     \* the file named findfileprim
  find,     \* the file named findfile
  text,     \* what is in a file: nothing, a part of what an indexer has
            \* found, all of it, or the writings of several
  blind,    \* the indexers whose RlockL is -1: they do not look at the lock
  crossed   \* the lock was taken while an earlier indexer was alive

vars == <<run, holders, pc, fd, prim, find, text, blind, crossed>>
files == <<fd, prim, find, text>>

Places == {"none", "check", "create", "scan", "copy", "rename", "sleep"}
Alive  == {c \in Child : pc[c] # "none"}

TypeOK ==
  /\ run \subseteq Instance
  /\ holders \subseteq run
  /\ pc \in [Child -> Places]
  /\ fd \in [Child -> Inode \cup {None, Failed}]
  /\ prim \in Inode \cup {None} /\ find \in Inode \cup {None}
  /\ text \in [Inode -> {"empty", "part", "whole", "mixed"}]
  /\ blind \subseteq Child /\ crossed \in BOOLEAN

Init ==
  /\ run = {} /\ holders = {} /\ pc = [c \in Child |-> "none"]
  /\ fd = [c \in Child |-> None] /\ prim = None /\ find = None
  /\ text = [n \in Inode |-> "empty"]
  /\ blind = {} /\ crossed = FALSE

-----------------------------------------------------------------------------
(* The instances.                                                          *)

Start(i) == /\ i \notin run /\ run' = run \cup {i}
            /\ UNCHANGED <<holders, pc, blind, crossed, files>>

(* At the start and from every SIGALRM. The child closes its copy of the   *)
(* descriptor, opens smbc.lock for itself without looking whether it can,  *)
(* and ends at once if nothing is to be indexed. Slips: in                 *)
(* LockKept it keeps the descriptor, in LockIfTidy a findfileprim passes   *)
(* for an indexer at work.                                                 *)
Fork(i, c) ==
  /\ i \in run /\ holders = {} /\ pc[c] = "none"
  /\ pc' = IF IndexTime = 0 THEN pc ELSE [pc EXCEPT ![c] = "check"]
  /\ blind' \in {blind} \cup (IF OpenFails /\ IndexTime # 0 THEN {blind \cup {c}} ELSE {})
  /\ find' = None
  /\ crossed' = (crossed \/ Alive # {})
  /\ UNCHANGED <<run, fd, prim, text>>
LockKept(i) == \E c \in Child : Fork(i, c) /\ holders' = {i, c}
LockIfTidy(i) == prim = None /\ \E c \in Child : Fork(i, c) /\ holders' = {i}
TryLock(i) == \E c \in Child : Fork(i, c) /\ holders' = {i}

(* q, a signal to the instance alone: the indexer is left alone.           *)
Quit(i) == /\ i \in run /\ run' = run \ {i} /\ holders' = holders \ {i}
           /\ UNCHANGED <<pc, blind, crossed, files>>

-----------------------------------------------------------------------------
(* The indexer.                                                            *)

Goes(c, where) == pc' = [pc EXCEPT ![c] = where]

Gone(c) == /\ Goes(c, "none") /\ holders' = holders \ {c}
           /\ fd' = [fd EXCEPT ![c] = None] /\ blind' = blind \ {c}

(* The top of the loop: the lock is free if the instance has ended, and    *)
(* nobody else has taken it; who could not open it goes on in any case. If *)
(* findfileprim could once not be created, RindexFileFd is not 0 any more  *)
(* and nothing is indexed again.                                           *)
Check(c) ==
  /\ pc[c] = "check"
  /\ IF holders = {} /\ c \notin blind
     THEN Gone(c)
     ELSE /\ Goes(c, IF fd[c] = None THEN "create" ELSE "sleep")
          /\ UNCHANGED <<holders, fd, blind>>
  /\ UNCHANGED <<run, prim, find, text, crossed>>

(* O_CREAT | O_TRUNC. A file that somebody is just writing is spoiled.     *)
Free == {n \in Inode : n \notin {prim, find} /\ \A c \in Child : fd[c] # n}
Truncated(n) == IF \E c \in Child : pc[c] = "copy" /\ fd[c] = n THEN "mixed" ELSE "empty"
Create(c) ==
  /\ pc[c] = "create"
  /\ \/ LET n == IF prim = None THEN CHOOSE m \in Free : TRUE ELSE prim IN
        /\ Goes(c, "scan") /\ prim' = n /\ fd' = [fd EXCEPT ![c] = n]
        /\ text' = [text EXCEPT ![n] = Truncated(n)]
     \/ /\ Goes(c, "sleep") /\ fd' = [fd EXCEPT ![c] = Failed]
        /\ UNCHANGED <<prim, text>>
  /\ UNCHANGED <<run, holders, find, blind, crossed>>

(* The network is walked into a file of the indexer's own, and copied.     *)
(* Slip: CopyNothing forgets the copy.                                     *)
CopyNothing(c) ==
  /\ pc[c] = "scan" /\ Goes(c, "rename") /\ fd' = [fd EXCEPT ![c] = None]
  /\ UNCHANGED <<run, holders, prim, find, text, blind, crossed>>

BeginCopy(c) ==
  /\ pc[c] = "scan" /\ Goes(c, "copy")
  /\ text' = [text EXCEPT ![fd[c]] = IF @ = "empty" THEN "part" ELSE "mixed"]
  /\ UNCHANGED <<run, holders, fd, prim, find, blind, crossed>>

EndCopy(c) ==
  /\ pc[c] = "copy" /\ Goes(c, "rename")
  /\ text' = [text EXCEPT ![fd[c]] = IF @ = "part" THEN "whole" ELSE "mixed"]
  /\ fd' = [fd EXCEPT ![c] = None]
  /\ UNCHANGED <<run, holders, prim, find, blind, crossed>>

Rename(c) ==
  /\ pc[c] = "rename" /\ Goes(c, "sleep")
  /\ IF prim = None THEN UNCHANGED <<prim, find>>
                    ELSE find' = prim /\ prim' = None
  /\ UNCHANGED <<run, holders, fd, text, blind, crossed>>

Sleep(c) ==
  /\ pc[c] = "sleep"
  /\ IF IndexTime > 1 THEN Goes(c, "check") /\ UNCHANGED <<holders, fd, blind>> ELSE Gone(c)
  /\ UNCHANGED <<run, prim, find, text, crossed>>

Index(c) == \/ Check(c) \/ Create(c) \/ BeginCopy(c) \/ EndCopy(c)
            \/ Rename(c) \/ Sleep(c)

(* A signal, or a fault.                                                   *)
Kill(c) == /\ pc[c] # "none" /\ Gone(c)
           /\ UNCHANGED <<run, prim, find, text, crossed>>

Next == \/ \E i \in Instance : Start(i) \/ TryLock(i) \/ Quit(i)
        \/ \E c \in Child : Index(c) \/ Kill(c)

Spec == Init /\ [][Next]_vars

(* SIGALRM comes every second, and sleeps and calls of the network end.    *)
FairSpec == /\ Spec
            /\ \A i \in Instance : WF_vars(TryLock(i))
            /\ \A c \in Child : WF_vars(Index(c))

-----------------------------------------------------------------------------
(* What a quick find reads as findfile is all that one indexer has found,  *)
(* also when indexers are killed: as long as no instance takes the lock    *)
(* while an earlier indexer is alive (RcreateFindIndex, O_TRUNC on the     *)
(* shared name, rename at the end).                                        *)
IndexIsWhole == find # None /\ ~crossed => text[find] = "whole"

(* Once no instance runs any more every indexer ends, by finding the lock  *)
(* free: none is left behind for good but those that could not open        *)
(* smbc.lock (RcreateFindIndex, RlockL).                                   *)
NoneLeftBehind == <>[](run = {}) => <>[](Alive \subseteq blind)

(* While an instance runs somebody holds the lock again and again: after   *)
(* the end of the one that held it another one takes over the indexing.    *)
(* (As long as there is room for another indexer in the model.)            *)
TakenOver ==
  \A i \in Instance : <>[](i \in run /\ Alive # Child) => []<>(holders # {})

-----------------------------------------------------------------------------
(* doc/smbc.texi: "If you run more than one instance of Smbc only one Smbc *)
(* indexing files from network process is started. If this instance of     *)
(* Smbc will be closed, next instance of Smbc creates a child process":    *)
(* two indexers do not stay.                                               *)
OneIndexer == []<>(Cardinality(Alive) <= 1)
=============================================================================
