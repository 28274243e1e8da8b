---------------------------- MODULE DownloadList ----------------------------
(***************************************************************************)
(* The download/upload list as it is in memory: records chained in both    *)
(* directions, the pointer RdownloadList into them (downloadlist.c), and   *)
(* the list editor, which rewires them by hand, scrolls over them and      *)
(* frees them while the engine points to one of them (RmanageList).        *)
(*                                                                         *)
(* DownloadUpload has this list as a sequence. Here only the links, the    *)
(* position and what may go wrong with them are kept.                      *)
(***************************************************************************)
EXTENDS Integers, Sequences, FiniteSets, SequencesExt

CONSTANTS
  Node,    \* the records there can be
  Null,    \* NULL
  Heights, \* the numbers of rows the window of the editor may get
  Signals  \* whether SIGTERM or SIGINT may come from outside at any time

ASSUME ListConstants == /\ IsFiniteSet(Node) /\ Null \notin Node
                        /\ Heights \subseteq Nat \ {0} /\ Signals \in BOOLEAN

VARIABLES
  next, previous,  \* the links of a record; Null in a record that is freed
  cur,             \* RdownloadList
  act,             \* RdownloadListAct
  marked,          \* the records with active = 'D'
  mode,            \* main loop, files being added, editor, purge, not running
  first, sel,      \* RlFirst, RlSelect
  rows,            \* RmaxY
  cut              \* Rcut, the move mode

links  == <<next, previous, cur>>
window == <<first, sel, rows, cut>>
vars   == <<links, act, marked, mode, window>>

TypeOK ==
  /\ next \in [Node -> Node \cup {Null}] /\ previous \in [Node -> Node \cup {Null}]
  /\ cur \in Node \cup {Null} /\ act \in Node \cup {Null}
  /\ marked \subseteq Node
  /\ mode \in {"main", "adding", "edit", "purge", "down"}
  /\ first \in Nat /\ sel \in Nat /\ rows \in Heights /\ cut \in BOOLEAN

Init ==
  /\ next = [n \in Node |-> Null] /\ previous = [n \in Node |-> Null]
  /\ cur = Null /\ act = Null /\ marked = {}
  /\ mode = "main" /\ first = 0 /\ sel = 0 /\ rows \in Heights /\ cut = FALSE

-----------------------------------------------------------------------------
(* Walks along the links.                                                  *)

(* The records from n on along the links f. A path of more records than    *)
(* there are has met a cycle, where the code would not return.             *)
Path(f, n) ==
  LET upto[k \in 0..Cardinality(Node) + 1] ==
        IF k = 0 THEN [m \in Node \cup {Null} |-> <<>>]
        ELSE [m \in Node \cup {Null} |->
                IF m = Null THEN <<>> ELSE <<m>> \o upto[k - 1][f[m]]]
  IN upto[Cardinality(Node) + 1][n]
End(f, n) == IF n = Null THEN Null ELSE Last(Path(f, n))

Count  == Len(Path(next, cur))
Nr(k)  == IF k < Count THEN Path(next, cur)[k + 1] ELSE Null
First  == End(previous, cur)
Chain  == Path(next, First)
Listed == Range(Chain)

(* The link that is given by the first pair of a list of pairs, if it      *)
(* leads from a record; the others stay.                                   *)
Relink(f, changes) ==
  [n \in Node |-> IF \E c \in changes : c[1] = n
                  THEN (CHOOSE c \in changes : c[1] = n)[2] ELSE f[n]]

(* RfreeOneTTdownloadAndGoToFirst, given n: the first of the other records  *)
(* is the pointer's new value. (FreeForward, which leaves the link back as  *)
(* it was, and the other definitions marked "slip" are not what the code   *)
(* does: nothing here uses them.)                                          *)
Unlinked(n) ==
  /\ next' = Relink(next, {<<previous[n], next[n]>>, <<n, Null>>})
  /\ marked' = marked \ {n}
Back(n) == Relink(previous, {<<next[n], previous[n]>>, <<n, Null>>})
Neighbour(n) == IF previous[n] # Null THEN previous[n] ELSE next[n]
FreeForward(n) == /\ Unlinked(n) /\ previous' = Relink(previous, {<<n, Null>>})
                  /\ cur' = End(previous, Neighbour(n))
Free(n) == Unlinked(n) /\ previous' = Back(n) /\ cur' = End(Back(n), Neighbour(n))

(* The records a and b, one behind the other, change places; RdownloadList *)
(* follows if a was the first. Slip: ExchangeOnly does not follow.         *)
ExchangeOnly(a, b) ==
  /\ next' = Relink(next, {<<previous[a], b>>, <<b, a>>, <<a, next[b]>>})
  /\ previous' = Relink(previous, {<<next[b], a>>, <<a, b>>, <<b, previous[a]>>})
  /\ UNCHANGED cur
Exchange(a, b) ==
  /\ next' = Relink(next, {<<previous[a], b>>, <<b, a>>, <<a, next[b]>>})
  /\ previous' = Relink(previous, {<<next[b], a>>, <<a, b>>, <<b, previous[a]>>})
  /\ cur' = IF previous[a] = Null THEN b ELSE cur

-----------------------------------------------------------------------------
(* Outside of the editor.                                                  *)

(* Slip: AddBehind puts the record behind RdownloadList, wherever that is.  *)
AddBehind(n) ==
  /\ mode \in {"main", "adding"} /\ mode' = "adding"
  /\ n \notin Listed
  /\ next' = Relink(next, {<<cur, n>>}) /\ previous' = [previous EXCEPT ![n] = cur]
  /\ cur' = n
  /\ UNCHANGED <<act, marked, window>>

(* RaddOneTTdownloadToLast; the files of a directory are added one after   *)
(* the other, and RdownloadList goes back to the first at the end.         *)
Add(n) ==
  LET last == End(next, cur) IN
  /\ mode \in {"main", "adding"} /\ mode' = "adding"
  /\ n \notin Listed
  /\ next' = Relink(next, {<<last, n>>})
  /\ previous' = [previous EXCEPT ![n] = last]
  /\ cur' = n
  /\ UNCHANGED <<act, marked, window>>

Added == /\ mode = "adding" /\ mode' = "main" /\ cur' = First
         /\ UNCHANGED <<next, previous, act, marked, window>>

(* The engine chooses a record, gives it up, or drops it from the list.    *)
Begin(n) == /\ mode = "main" /\ act = Null /\ n \in Listed \ marked /\ act' = n
            /\ UNCHANGED <<links, marked, mode, window>>

GiveUp == /\ mode = "main" /\ act # Null /\ act' = Null
          /\ UNCHANGED <<links, marked, mode, window>>

RemoveAct == /\ mode = "main" /\ act # Null /\ act' = Null /\ Free(act)
             /\ UNCHANGED <<mode, window>>

(* RsigTerm, or q in the main loop: the records are saved from the first   *)
(* on, and are read back in that order.                                    *)
Terminate == /\ mode = "main" \/ (Signals /\ mode # "down")
             /\ mode' = "down" /\ act' = Null
             /\ UNCHANGED <<links, marked, window>>

Start == /\ mode = "down" /\ mode' = "main" /\ cur' = First
         /\ UNCHANGED <<next, previous, act, marked, window>>

-----------------------------------------------------------------------------
(* RmanageList.                                                            *)

OpenEditor ==
  /\ mode = "main" /\ Count # 0 /\ mode' = "edit"
  /\ first' = 0 /\ sel' = 0 /\ rows' \in Heights /\ cut' = FALSE
  /\ UNCHANGED <<links, act, marked>>

(* RpaintList(f, ...) in a window of r rows: if the list ends before the   *)
(* window RsigTerm is called.                                              *)
Fits(f, r) == (f = 0 /\ Count <= r) \/ f + r <= Count
Paint(f, r) == IF Fits(f, r) THEN mode' = "edit" /\ UNCHANGED act
                             ELSE mode' = "down" /\ act' = Null

Shows(f, s) == first' = f /\ sel' = s /\ UNCHANGED <<rows, cut>> /\ Paint(f, rows)

Selected == Nr(sel)

(* KEY_DOWN; in the move mode the record goes along. Slip: Blindly.        *)
NextSelBlindly == sel + 1
NextSel == IF sel < Count - 1 THEN sel + 1 ELSE sel
Down ==
  /\ IF cut /\ next[Selected] # Null THEN Exchange(Selected, next[Selected])
                                     ELSE UNCHANGED links
  /\ IF sel + 1 = first + rows /\ first + rows < Count
     THEN Shows(first + 1, sel + 1)
     ELSE Shows(first, NextSel)

(* space, d and u end as KEY_DOWN                                          *)
Key == mode = "edit"
MoveOn     == Key /\ Down /\ UNCHANGED marked
MarkDelete == Key /\ marked' = marked \cup {Selected} /\ Down
Unmark     == Key /\ marked' = marked \ {Selected} /\ Down

Up ==
  /\ Key /\ sel > 0
  /\ IF cut THEN Exchange(previous[Selected], Selected) ELSE UNCHANGED links
  /\ IF first > 0 /\ sel = first THEN Shows(first - 1, sel - 1)
                                 ELSE Shows(first, sel - 1)
  /\ UNCHANGED marked

PageDown ==
  /\ Key /\ first + rows <= Count
  /\ IF sel + 1 = first + rows
     THEN IF sel + rows < Count THEN Shows(sel, sel + rows - 1)
                                ELSE Shows(Count - rows, Count - 1)
     ELSE Shows(first, IF sel + rows <= Count THEN first + rows - 1 ELSE Count - 1)
  /\ UNCHANGED <<links, marked>>

(* Slip: PageUpBlindly goes up by a page, whether there is one or not.     *)
PageUpBlindly == /\ Key /\ sel > 1 /\ Shows(first - rows, first - rows)
                 /\ UNCHANGED <<links, marked>>
PageUp ==
  /\ Key /\ sel > 1
  /\ IF first # sel THEN Shows(first, first)
     ELSE LET f == IF first - rows < 1 THEN 1 ELSE first - rows + 1 IN Shows(f, f)
  /\ UNCHANGED <<links, marked>>

MoveMode == /\ Key /\ cut' = ~cut
            /\ UNCHANGED <<links, act, marked, mode, first, sel, rows>>

(* CTRL-d and CTRL-f, the first for the records of one folder: both look   *)
(* up the record after the selected one, and without one RgetdownloadListNr *)
(* sends SIGTERM to the process.                                           *)
Flush(s) ==
  /\ Key
  /\ IF Nr(sel + 1) = Null THEN mode' = "down" /\ act' = Null /\ UNCHANGED marked
     ELSE /\ Nr(sel + 1) \in s /\ marked' = marked \cup s
          /\ UNCHANGED <<mode, act>>
  /\ UNCHANGED <<links, window>>

(* SIGALRM: a window whose terminal was resized is created anew, and the   *)
(* list is painted.                                                        *)
Resize == /\ Key /\ rows' \in Heights /\ Paint(first, rows')
          /\ UNCHANGED <<links, marked, first, sel, cut>>

(* q: the list is walked from RdownloadList on, and from the first again   *)
(* after each record that is freed. Slip: ForgetNothing.                   *)
Quit == /\ Key /\ mode' = "purge" /\ UNCHANGED <<links, act, marked, window>>

ForgetNothing(n) == UNCHANGED act
Forget(n) == act' = IF act = n THEN Null ELSE act

Purge ==
  /\ mode = "purge" /\ UNCHANGED window
  /\ IF cur \in marked
     THEN Forget(cur) /\ Free(cur) /\ UNCHANGED mode
     ELSE /\ IF cur # Null /\ next[cur] # Null
             THEN cur' = next[cur] /\ UNCHANGED mode
             ELSE cur' = First /\ mode' = "main"
          /\ UNCHANGED <<next, previous, act, marked>>

Next == \/ \E n \in Node : Add(n) \/ Begin(n)
        \/ Added \/ GiveUp \/ RemoveAct \/ Terminate \/ Start
        \/ OpenEditor \/ MoveOn \/ MarkDelete \/ Unmark \/ Up \/ PageDown \/ PageUp
        \/ MoveMode \/ (\E s \in SUBSET Listed : Flush(s)) \/ Resize \/ Quit \/ Purge

Spec == Init /\ [][Next]_vars

-----------------------------------------------------------------------------
(* The links agree in both directions and form no cycle, whatever was      *)
(* moved, added or freed (RmanageList, downloadlist.c).                    *)
LinkedBothWays ==
  /\ Len(Chain) <= Cardinality(Node)
  /\ \A n \in Listed : /\ next[n] # Null => previous[next[n]] = n
                       /\ previous[n] # Null => next[previous[n]] = n

(* RgetdownloadListNr and Count start at RdownloadList, as the editor and  *)
(* the engine's search do: it is the first record whenever they run.       *)
CountsFromFirst == mode \in {"main", "edit"} => cur = First

(* The engine's record is in the list, so that it has not been freed.      *)
ActListed == act # Null => act \in Listed

(* Whatever keys and changes of the window come, the selected record and   *)
(* the first one painted exist, so that RgetdownloadListNr finds them.     *)
SelectionInList == mode = "edit" => first <= sel /\ sel < Count

(* Seen from its order the list is the queue of TransferQueue: a step adds *)
(* a record at the end, takes one away or exchanges two neighbours.        *)
Queue == INSTANCE TransferQueue WITH
  Item <- Node, None <- Null, Size <- [n \in Node |-> 0], Most <- 0,
  queue <- Chain, current <- act,
  stored <- [n \in Node |-> 0], finished <- {}
IsAQueue == Queue!Spec

-----------------------------------------------------------------------------
(* doc/smbc.1 on the list menu: "(q) - exit from this menu", "(ctrl+f) -   *)
(* flush all items": no other key leaves the editor.                       *)
OnlyQuitLeaves == [][mode = "edit" => mode' # "down"]_vars
=============================================================================
