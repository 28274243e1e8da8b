------------------------------ MODULE NewIndex ------------------------------
(***************************************************************************)
(* What an indexer tells about a new index (RcompareTwoIndexFile, the end  *)
(* of the loop of RcreateFindIndex) and how smbc shows it in the status    *)
(* line (RcheckNewIndexFile).  Indexer.tla has the files and the lock of   *)
(* the indexers; here one indexer and one smbc share the index and the     *)
(* message.                                                                *)
(*                                                                         *)
(* Of an index only the hosts of its records matter, in their order.       *)
(***************************************************************************)
EXTENDS Integers, Sequences, SequencesExt, Lists

CONSTANTS
  HostLists,    \* what a walk over the network may find: sequences of hosts
  MaxIndexes,   \* bound: indexes that are made
  MaxSecond     \* bound: the clock

ASSUME NewIndexAssumption ==
  /\ MaxIndexes \in Nat /\ MaxSecond \in Nat
  /\ \A h \in HostLists : h \in Seq(Range(h))

VARIABLES
  maker,        \* the indexer: where it is, and the index it makes
  newest,       \* findfile: its number and its hosts; 0 is no file
  walks,        \* how many indexes were made
  prime,        \* messageprim: the message of the next rename
  message,      \* the message file, its second (st_ctime) and what it tells
  status,       \* the status line and RlastTimeFileMessage
  second,       \* the clock
  placed,       \* history: the indexes that were put in place
  halted        \* history: those made known by an indexer that was killed
                \* before it put them in place

newIndexVars == <<maker, newest, walks, prime, message, status, second, placed,
                  halted>>

Started == [about |-> 0, added |-> {}, removed |-> {}]
NoIndex == [nr |-> 0, hosts |-> <<>>]

NewIndexInit ==
  /\ maker = [at |-> "none", made |-> NoIndex]
  /\ newest = NoIndex /\ walks = 0
  /\ prime = Started
  /\ message = [at |-> -1, tells |-> Started]
  /\ status = [seen |-> -1, tells |-> Started]
  /\ second = 0
  /\ placed = {} /\ halted = {}

----------------------------------------------------------------------------
(* Slip (not what the code does, used nowhere): hosts are not looked up    *)
(* before they are added, and compared with the last one only.             *)
TableOfLast(hosts) == IF hosts = <<>> THEN <<>> ELSE <<hosts[Len(hosts)]>>

(* RAddHostToHostsTable, RFindHostInToHostsTable: each host once.          *)
HostsUpTo(hosts) ==
  LET table[i \in 0..Len(hosts)] ==
        IF i = 0 THEN <<>>
        ELSE IF hosts[i] \in Range(table[i - 1]) THEN table[i - 1]
        ELSE Append(table[i - 1], hosts[i])
  IN  table
HostsTable(hosts) == HostsUpTo(hosts)[Len(hosts)]

(* RcompareTwoIndexFile: the hosts of one table that are not in the other, *)
(* both ways.  Without an old index there is nothing to tell.              *)
Lacking(t, u) == Keep(t, {i \in DOMAIN t : t[i] \notin Range(u)})

Compare(old, new) ==
  IF old.nr = 0 THEN [Started EXCEPT !.about = new.nr]
  ELSE LET o == HostsTable(old.hosts)
           n == HostsTable(new.hosts)
       IN  [about |-> new.nr, added |-> Range(Lacking(n, o)),
            removed |-> Range(Lacking(o, n))]

(* Whoever gets the lock removes the index and the message, and forks an   *)
(* indexer (RtryLockFileAndCreateIndexFile).                               *)
ForkMaker ==
  /\ maker.at = "none"
  /\ maker' = [at |-> "start", made |-> NoIndex]
  /\ newest' = NoIndex
  /\ message' = [at |-> -1, tells |-> Started]
  /\ UNCHANGED <<walks, prime, status, second, placed, halted>>

(* The message that the indexer has begun.                                 *)
TellStart ==
  /\ maker.at = "start"
  /\ maker' = [maker EXCEPT !.at = "walk"]
  /\ message' = [at |-> second, tells |-> Started]
  /\ prime' = Started
  /\ UNCHANGED <<newest, walks, status, second, placed, halted>>

MakeIndex ==
  /\ maker.at = "walk"
  /\ walks < MaxIndexes
  /\ walks' = walks + 1
  /\ \E h \in HostLists :
       LET made == [nr |-> walks + 1, hosts |-> h]
       IN  /\ maker' = [at |-> "message", made |-> made]
           /\ prime' = Compare(newest, made)
  /\ UNCHANGED <<newest, message, status, second, placed, halted>>

(* The message is renamed first, then the index.                           *)
RenameMessage ==
  /\ maker.at = "message"
  /\ maker' = [maker EXCEPT !.at = "index"]
  /\ message' = [at |-> second, tells |-> prime]
  /\ UNCHANGED <<newest, walks, prime, status, second, placed, halted>>

(* Slip: the index of the last walk is left in place.                      *)
KeepOldIndex ==
  /\ maker.at = "index"
  /\ maker' = [maker EXCEPT !.at = "walk"]
  /\ UNCHANGED <<newest, walks, prime, message, status, second, placed, halted>>

RenameIndex ==
  /\ maker.at = "index"
  /\ newest' = maker.made
  /\ placed' = placed \cup {maker.made.nr}
  /\ maker' = [maker EXCEPT !.at = "walk"]
  /\ UNCHANGED <<walks, prime, message, status, second, halted>>

KillMaker ==
  /\ maker.at # "none"
  /\ maker' = [at |-> "none", made |-> NoIndex]
  /\ halted' = IF maker.at = "index" THEN halted \cup {maker.made.nr} ELSE halted
  /\ UNCHANGED <<newest, walks, prime, message, status, second, placed>>

(* RcheckNewIndexFile, after a key: a message of another second than the   *)
(* last one is shown.  (It is cut at the width of the terminal, with a zero*)
(* byte one behind the copy.)                                              *)
CheckMessage ==
  /\ message.at # -1 /\ message.at # status.seen
  /\ status' = [seen |-> message.at, tells |-> message.tells]
  /\ UNCHANGED <<maker, newest, walks, prime, message, second, placed, halted>>

NextSecond ==
  /\ second < MaxSecond
  /\ second' = second + 1
  /\ UNCHANGED <<maker, newest, walks, prime, message, status, placed, halted>>

NewIndexNext ==
  \/ ForkMaker \/ TellStart \/ MakeIndex \/ RenameMessage \/ RenameIndex
  \/ KillMaker \/ CheckMessage \/ NextSecond

----------------------------------------------------------------------------
(* The status line tells of an index that was put in place for quick       *)
(* finds, except while the indexer is between its two renames, and after   *)
(* it was killed there; and what it tells is what has changed: a host that *)
(* it calls new is in that index, and none that it calls removed is.       *)
TellsOfIndex ==
  /\ status.tells.about \in {0, maker.made.nr} \cup placed \cup halted
  /\ message.tells.about = newest.nr =>
       /\ message.tells.added \subseteq Range(newest.hosts)
       /\ message.tells.removed \cap Range(newest.hosts) = {}
============================================================================
