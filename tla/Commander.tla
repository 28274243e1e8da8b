----------------------------- MODULE Commander -----------------------------
(***************************************************************************)
(* The key loop of smbc (main): a left panel with a local directory, a     *)
(* right panel with workgroups, hosts, shares or files of the network, and *)
(* the reading of the lists they show.                                     *)
(*                                                                         *)
(* A list of the network is read in a loop of attempts inside one key      *)
(* (RgetMasterList, RgetHostsFromGroup, RgetSharesFromHost), with a        *)
(* bounded number of repetitions; each attempt is a step, since the hosts  *)
(* may answer differently each time.  The windows that lead to another     *)
(* place (bookmarks, find, goto) are represented by the place they return. *)
(*                                                                         *)
(* A place of the network is <<group, host, dir>>; dir is a sequence of    *)
(* names that begins with the share.  "" and <<>> stand for empty strings. *)
(***************************************************************************)
EXTENDS Panel, PanelSort, Lists, FiniteSets

CONSTANTS
  AllNames,     \* what a record can be called
  Groups,       \* what the network lists: a sequence of records
  Hosts,        \* [group -> sequence of records]
  Shares,       \* [host -> sequence of records]
  Files,        \* [<<host, dir>> -> sequence of records]
  Local,        \* [directory -> sequence of records]
  Links,        \* [path -> directory it leads to]: the symbolic links to them
  Closed,       \* local directories that cannot be read but changed
  Start,        \* the local directory it starts in (localdir)
  StartOrder,   \* the orders that smbcrc gives the panels
  LeftMarks,    \* local directories and names that bookmarks lead to
  RightMarks,   \* places of the network and names that bookmarks lead to
  Finds,        \* places and names that the find window leads to
  Typed,        \* places that are typed into the goto window
  NewDirs,      \* bound: local directories that may be made with 'c'
  Retry,        \* RretryReadGroups, RretryReadHosts, RretryReadShares
  Orders,       \* [side -> the orders it may be given]
  Marking,      \* bound: the sides whose records are marked
  Restless,     \* bound: may a panel be left that is not at rest?
  MaxTries      \* bound: attempts that tries counts

(* What a list is made of; what is read is not marked.                     *)
Record == [name: AllNames, kind: {"D", "F", "W", "H", "S"}, size: Nat,
           mark: BOOLEAN]
Unmarked == {r \in Record : ~r.mark}
Of(kinds) == {r \in Unmarked : r.kind \in kinds}

ASSUME CommanderAssumption ==
  /\ ".." \in AllNames /\ "" \notin AllNames
  /\ Groups \in Seq(Of({"W"}))
  /\ Hosts \in [DOMAIN Hosts -> Seq(Of({"H"}))]
  /\ Shares \in [DOMAIN Shares -> Seq(Of({"S"}))]
  /\ \A lists \in {Files, Local} : lists \in [DOMAIN lists -> Seq(Of({"D", "F"}))]
  /\ Start \in Seq(AllNames) /\ NewDirs \cup DOMAIN Local \subseteq Seq(AllNames)
  /\ DOMAIN Links \cap (NewDirs \cup DOMAIN Local) = {}
  /\ \A m \in LeftMarks : m.dir \in Seq(AllNames)
  /\ Retry \in Int /\ MaxTries \in Nat

VARIABLES
  panel,        \* the two panels: [left, right -> list, first, pos]
  selected,     \* Rselected
  order,        \* RsortMethod, RsortReverse, RgroupFilesDirectories
  level,        \* RremoteLevel
  place,        \* Ragroup, Rahost, Radir
  dirL,         \* RadirL
  local,        \* the local directories there are
  read,         \* the list that is being read, or NotReading
  tries,        \* history: how often it was asked for
  shown,        \* history: what the lists of the panels were read from
  astray,       \* history: was the cursor of a panel put on a record by a
                \* name that is not in its list, or below its window?
  ended         \* how the program ended: "no", "quit", "lost" or "crash"

panels == <<panel, shown, astray>>
network == <<level, place, read, tries>>
vars == <<panel, selected, order, level, place, dirL, local, read, tries,
          shown, astray, ended>>

LEVEL_WORKGROUPS == 0
LEVEL_HOSTS == 1
LEVEL_SHARES == 2
LEVEL_FILES == 3

Sides == {"left", "right"}
NotReading == [why |-> "none"]
Nowhere == [group |-> "", host |-> "", dir |-> <<>>]

UpRecord == [name |-> "..", kind |-> "D", size |-> 0, mark |-> FALSE]
Parent(d) == SubSeq(d, 1, Len(d) - 1)                        \* RchdirUp

(* What the network has for a place at a level.                            *)
Contents(map, key) == IF key \in DOMAIN map THEN map[key] ELSE <<>>
Remote(l, p) ==
  CASE l = LEVEL_WORKGROUPS -> Groups
    [] l = LEVEL_HOSTS      -> Contents(Hosts, p.group)
    [] l = LEVEL_SHARES     -> Contents(Shares, p.host)
    [] l = LEVEL_FILES      -> Contents(Files, <<p.host, p.dir>>)

(* What is not there is always refused.                                    *)
Exists(l, p) ==
  CASE l = LEVEL_WORKGROUPS -> TRUE
    [] l = LEVEL_HOSTS      -> p.group \in DOMAIN Hosts
    [] l = LEVEL_SHARES     -> p.host \in DOMAIN Shares
    [] l = LEVEL_FILES      -> <<p.host, p.dir>> \in DOMAIN Files

Refused == <<[name |-> "refused"]>> \* the answer -1

(* RinitList: the list of a panel from what was read, sorted; after a      *)
(* refusal there is nothing but the record "..".                           *)
Answered(answer) == IF answer = Refused THEN <<>> ELSE answer
InitList(answer, how) == SortList(<<UpRecord>> \o Answered(answer), how)

(* A panel gets a new cursor and is painted.  RwriteMenuTxt looks up the   *)
(* first record of the window and ends the program if it is not there.     *)
Painted(p) == p.first = 0 \/ p.first < Count(p)

SetPanel(side, p) ==
  /\ panel' = [panel EXCEPT ![side] = p]
  /\ ended' = IF Painted(p) THEN ended ELSE "lost"

(* A panel, with its old cursor or put to the top, gets a new list, and    *)
(* the cursor is put on a record by its name.                              *)
Names(p) == {p.list[i].name : i \in DOMAIN p.list}
BelowRow(p, name) ==
  /\ Count(p) > Rows
  /\ p.list[Rows + 1].name = name
  /\ \A i \in 1..Rows : p.list[i].name # name

NewList(side, old, how, answer, name, from, still) ==
  LET p == [old EXCEPT !.list = InitList(answer, how)]
  IN  /\ SetPanel(side, Select(p, name))
      /\ astray' = [astray EXCEPT ![side] =
           \/ name \in Names(p) /\ BelowRow(p, name)
           \/ name \notin Names(p) \cup {""} /\ (@ \/ At(p) > 0)]
      /\ shown' = [shown EXCEPT ![side] =
           [from |-> from, records |-> Answered(answer), how |-> how,
            stale |-> still]]

(* A bookmark has changed the place and the list could not be read.        *)
KeepList(side) ==
  /\ shown' = [shown EXCEPT ![side].stale = TRUE]
  /\ UNCHANGED <<panel, astray, ended>>

Active == panel[selected]
AnyKey == ended = "no" /\ read = NotReading
KeyIn(side) == AnyKey /\ selected = side

(* Bound: a panel is left for the other one only at rest, with the cursor  *)
(* at the top of the first list it showed.                                 *)
AtRest ==
  /\ At(Active) = 0 /\ Marked(Active) = {}
  /\ IF selected = "left" THEN dirL = Start /\ local = Local
     ELSE level = LEVEL_WORKGROUPS
Turn(side) == selected = side \/ Restless \/ AtRest

(* The record under the cursor, for a key that looks it up.                *)
OnRecord(side) == KeyIn(side) /\ InList(Active)

(* Such a key ends the program if there is none (RgoToRecordInTTlist).     *)
Lost ==
  /\ AnyKey
  /\ ~InList(Active)
  /\ ended' = "lost"
  /\ UNCHANGED <<panels, selected, order, dirL, local, network>>

----------------------------------------------------------------------------
(* Reading a list of the network.                                          *)

(* A read begins: why decides what is done with the answer, at and to are  *)
(* the level and the place to read, name is where the cursor will go.      *)
Ask(why, at, to, name) ==
  /\ read' = [why |-> why, at |-> at, to |-> to, name |-> name,
              count |-> IF at = LEVEL_FILES THEN 0 ELSE Retry,
              found |-> FALSE]
  /\ tries' = 0

(* Slip (not what the code does, used nowhere): the level and the place    *)
(* are set before the answer is looked at.                                 *)
MovesAnyway(r, answer) ==
  /\ read' = NotReading
  /\ level' = r.at
  /\ place' = r.to
  /\ IF r.why \in {"enter", "down"} /\ answer = Refused
     THEN UNCHANGED <<panels, ended>>
     ELSE NewList("right", Home(panel.right), order.right, answer, r.name,
                  <<r.at, r.to>>, FALSE)

(* What follows the answer.  Entering a record moves only if the list was  *)
(* read, going up and refreshing (RrefreshR) always show the answer; a     *)
(* bookmark has moved already, and leaves the old list in the panel if the *)
(* new one was refused.  Entering a directory ("down") leaves the level,   *)
(* and the panel shows what RinitList has at that level: at another than   *)
(* that of the files nothing, since the level was left unread.             *)
Finish(r, answer) ==
  LET own == r.why = "down" => level = r.at
  IN
  /\ read' = NotReading
  /\ IF r.why \in {"enter", "down", "bookmark"} /\ answer = Refused
     THEN /\ UNCHANGED <<level, place>>
          /\ IF r.why = "bookmark" THEN KeepList("right")
             ELSE UNCHANGED <<panels, ended>>
     ELSE /\ level' = IF own THEN r.at ELSE level
          /\ place' = r.to
          /\ NewList("right",
                     IF r.why = "refresh" THEN Home(panel.right) ELSE panel.right,
                     order.right, IF own THEN answer ELSE <<>>, r.name,
                     <<r.at, r.to>>, ~own /\ shown.right.stale)

(* Slip (not what the code does, used nowhere): the count stays.           *)
RepeatUncounted(r, found) ==
  IF r.count = 0
  THEN Finish(r, IF found THEN <<>> ELSE Refused)
  ELSE /\ read' = [r EXCEPT !.found = found]
       /\ UNCHANGED <<panels, level, place, ended>>

(* RretryAgain: the countdown of repetitions; -1 is never counted down.    *)
Repeat(r, found) ==
  IF r.count = 0
  THEN Finish(r, IF found THEN <<>> ELSE Refused)
  ELSE /\ read' = [r EXCEPT !.count = IF @ > 0 THEN @ - 1 ELSE @,
                            !.found = found]
       /\ UNCHANGED <<panels, level, place, ended>>

(* One attempt at a level.  What there is may be refused at any time, and  *)
(* any list may come back empty.                                           *)
Asked(l) == read # NotReading /\ ended = "no" /\ read.at = l
Refuse == Repeat(read, read.found)
Answers == IF Exists(read.at, read.to)
           THEN {Remote(read.at, read.to), <<>>} ELSE {}
Counted ==
  /\ tries' = IF read' = NotReading THEN 0
              ELSE IF tries < MaxTries THEN tries + 1 ELSE tries
  /\ UNCHANGED <<selected, order, dirL, local>>

(* An empty list of workgroups or of shares is asked for again without     *)
(* counting, ...                                                           *)
AskAgain ==
  /\ read' = [read EXCEPT !.found = TRUE]
  /\ UNCHANGED <<panels, level, place, ended>>
FullOrAgain ==
  \E records \in Answers :
    IF records = <<>> THEN AskAgain ELSE Finish(read, records)

GetMasterList ==
  Asked(LEVEL_WORKGROUPS) /\ (Refuse \/ FullOrAgain) /\ Counted

(* ... an empty list of hosts is counted, ...                              *)
GetHostsFromGroup ==
  /\ Asked(LEVEL_HOSTS)
  /\ \/ Refuse
     \/ \E records \in Answers :
          IF records = <<>> THEN Repeat(read, TRUE) ELSE Finish(read, records)
  /\ Counted

GetSharesFromHost ==
  Asked(LEVEL_SHARES) /\ (Refuse \/ FullOrAgain) /\ Counted

(* ... and a list of files is asked for once.                              *)
GetFileFromDirR ==
  /\ Asked(LEVEL_FILES)
  /\ \E answer \in Answers \cup {Refused} : Finish(read, answer)
  /\ Counted

Attempt ==
  GetMasterList \/ GetHostsFromGroup \/ GetSharesFromHost \/ GetFileFromDirR

----------------------------------------------------------------------------
(* Keys of the right panel that read.                                      *)

AskOnly(why, at, to, name) ==
  /\ Ask(why, at, to, name)
  /\ UNCHANGED <<panels, selected, order, level, place, dirL, local, ended>>

(* Enter on the record "..": one level up, and from a directory to the one *)
(* above it or to the shares.                                              *)
UpRight ==
  /\ OnRecord("right")
  /\ Current(Active).name = ".."
  /\ \/ level = LEVEL_HOSTS
        /\ AskOnly("up", LEVEL_WORKGROUPS, [place EXCEPT !.group = ""],
                   place.group)
     \/ level = LEVEL_SHARES
        /\ AskOnly("up", LEVEL_HOSTS, [place EXCEPT !.host = ""], place.host)
     \/ level = LEVEL_FILES
        /\ LET up == Parent(place.dir)
           IN  AskOnly("up", IF up = <<>> THEN LEVEL_SHARES ELSE LEVEL_FILES,
                       [place EXCEPT !.dir = up], Last(place.dir))

(* Enter on any other record: one level down, to what its kind says.  Only *)
(* for a directory is the level not set.                                   *)
EnterRight ==
  /\ OnRecord("right")
  /\ LET r == Current(Active)
     IN  \/ r.kind = "D" /\ r.name # ".."
            /\ AskOnly("down", LEVEL_FILES,
                       [place EXCEPT !.dir = Append(@, r.name)], "")
         \/ r.kind = "W"
            /\ AskOnly("enter", LEVEL_HOSTS, [place EXCEPT !.group = r.name], "")
         \/ r.kind = "H"
            /\ AskOnly("enter", LEVEL_SHARES, [place EXCEPT !.host = r.name], "")
         \/ r.kind = "S"
            /\ AskOnly("enter", LEVEL_FILES, [place EXCEPT !.dir = <<r.name>>], "")

(* RrefreshR for the right panel; deleting and making directories on the   *)
(* network end in it too.                                                  *)
RefreshRight == KeyIn("right") /\ AskOnly("refresh", level, place, "")

(* The level that main takes a place to have.                              *)
LevelOf(p) ==
  IF p.host # "" THEN IF p.dir # <<>> THEN LEVEL_FILES ELSE LEVEL_SHARES
  ELSE IF p.group # "" THEN LEVEL_HOSTS ELSE LEVEL_WORKGROUPS

(* A window has changed the place; the list is read afterwards.            *)
Move(why, at, to, name) ==
  /\ Ask(why, at, to, name)
  /\ level' = at
  /\ place' = to
  /\ selected' = "right"
  /\ UNCHANGED <<panels, order, dirL, local, ended>>

(* 'g' (RsetManualyLocation): the typed directory is kept behind smb: and  *)
(* the host.                                                               *)
Goto ==
  /\ KeyIn("right")
  /\ \E p \in Typed :
       Move("refresh", LevelOf(p),
            [p EXCEPT !.dir = <<"smb:", "", p.host>> \o @], "")

(* 'f': the place that was found; the find window sets the level.          *)
Find ==
  /\ KeyIn("right")
  /\ \E m \in Finds : Move("refresh", LevelOf(m.place), m.place, m.name)

(* 'b' with a bookmark of the network; it needs a record under the cursor. *)
BookmarkRight ==
  /\ OnRecord(selected)
  /\ Turn("right")
  /\ \E m \in RightMarks : Move("bookmark", LevelOf(m.place), m.place, m.name)

----------------------------------------------------------------------------
(* The left panel.  It reads at once (RgetFileFromDirL).                   *)

(* What a path leads to: opendir follows every symbolic link in it.  What  *)
(* is not there leads nowhere.                                             *)
NoDir == <<"">>
Follow(map, at, name) ==
  LET p == Append(at, name)
  IN  IF at \notin DOMAIN map THEN NoDir
      ELSE IF name = ".." THEN Parent(at)
      ELSE IF p \in DOMAIN Links /\ name \in {r.name : r \in ToSet(map[at])}
      THEN Links[p] ELSE p
RealUpTo(map, d) ==
  LET upto[k \in 0..Len(d)] ==
        IF k = 0 THEN <<>> ELSE Follow(map, upto[k - 1], d[k])
  IN  upto
Real(map, d) == RealUpTo(map, d)[Len(d)]

(* The kind of a record is what stat says of its path, so that a link to a *)
(* directory is a directory.  A link to what is gone makes stat fail: it   *)
(* is taken for whatever the record before it is.                          *)
Dangling(map, at) ==
  {i \in DOMAIN map[at] : LET d == Follow(map, at, map[at][i].name)
                          IN  d # Append(at, map[at][i].name) /\ d \notin DOMAIN map}
Readings(map, d) ==
  LET at == Real(map, d)
  IN  IF at \notin DOMAIN map \ Closed THEN {Refused}
      ELSE {[i \in DOMAIN map[at] |->
               IF i \in odd THEN [map[at][i] EXCEPT !.kind = "F"] ELSE map[at][i]] :
              odd \in SUBSET Dangling(map, at)}

GoLeft(map, how, d, name) ==
  /\ dirL' = d
  /\ \E answer \in Readings(map, d) :
       NewList("left", panel.left, how, answer, name, d, FALSE)

(* Enter on a directory: ".." always moves, another only if it can be      *)
(* read.  In "/" the key does nothing.                                     *)
EnterLeft ==
  /\ OnRecord("left")
  /\ dirL # <<>>
  /\ LET r == Current(Active)
     IN  \/ r.name = ".." /\ GoLeft(local, order.left, Parent(dirL), Last(dirL))
         \/ /\ r.name # ".." /\ r.kind = "D"
            /\ Readings(local, Append(dirL, r.name)) # {Refused}
            /\ GoLeft(local, order.left, Append(dirL, r.name), "")
  /\ UNCHANGED <<selected, order, local, network>>

(* RrefreshR for the left panel.                                           *)
RefreshLeft ==
  /\ KeyIn("left")
  /\ GoLeft(local, order.left, dirL, "")
  /\ UNCHANGED <<selected, order, local, network>>

(* 'b' with a local bookmark: a directory that cannot be read becomes      *)
(* RadirL and the old list stays.                                          *)
BookmarkLeft ==
  /\ OnRecord(selected)
  /\ Turn("left")
  /\ \E m \in LeftMarks :
       /\ selected' = "left"
       /\ dirL' = m.dir
       /\ \E answer \in Readings(local, m.dir) :
            IF answer = Refused
            THEN KeepList("left")
            ELSE NewList("left", panel.left, order.left, answer, m.name, m.dir, FALSE)
  /\ UNCHANGED <<order, local, network>>

(* RremoveDir: a directory with all there is in it.  It does not check     *)
(* that a directory could be opened, and readdir(NULL) ends the program.   *)
(* It follows no link that it meets (d_type).                              *)
Under(d, e) == IsPrefix(d, e)
Emptied(map, d) ==
  [e \in {x \in DOMAIN map : ~Under(d, x) \/ x = d} |->
     IF e = d THEN <<>> ELSE map[e]]
Unreadable(map, d) ==
  d \notin DOMAIN map \/ \E e \in Closed \cap DOMAIN map : Under(d, e)

(* unlink, and rmdir of what is no directory any more: an entry goes.      *)
Without(map, d, name) ==
  IF d \notin DOMAIN map \/ Append(d, name) \in DOMAIN map THEN map
  ELSE [map EXCEPT ![d] = Keep(@, {i \in DOMAIN map[d] : map[d][i].name # name})]

(* Slip: RremoveDir asks stat for the type of an entry, and follows the    *)
(* links that it meets.                                                    *)
RemoveFollowing(disk, r) ==
  LET d == Follow(disk.map, Real(disk.map, dirL), r.name)
      met == {p \in DOMAIN Links : Under(d, p) /\ Parent(p) \in DOMAIN disk.map}
      all == {d} \cup {Links[p] : p \in met}
  IN  [disk EXCEPT !.map = [e \in DOMAIN @ |-> IF e \in all THEN <<>> ELSE @[e]]]

(* One record, looked up by its path: the directory that the path leads to *)
(* goes empty, and then the record goes, unless it is ".." or a link,      *)
(* which rmdir refuses.                                                    *)
RemoveRecord(disk, r) ==
  LET at == Real(disk.map, dirL)
      d == Follow(disk.map, at, r.name)
      rest == Emptied(disk.map, d)
  IN  IF disk.crash THEN disk
      ELSE IF r.kind = "F"
      THEN [disk EXCEPT !.map = Without(@, at, r.name)]
      ELSE IF Unreadable(disk.map, d) THEN [disk EXCEPT !.crash = TRUE]
      ELSE IF d # Append(at, r.name) THEN [disk EXCEPT !.map = rest]
      ELSE [disk EXCEPT !.map =
              Without([e \in DOMAIN rest \ {d} |-> rest[e]], at, r.name)]

(* Ctrl-D: the marked records, or the one under the cursor if it is not    *)
(* "..".                                                                   *)
Chosen(p) ==
  IF Marked(p) # {} THEN Keep(p.list, {i \in DOMAIN p.list : p.list[i].mark})
  ELSE IF InList(p) /\ Current(p).name # ".." THEN <<Current(p)>> ELSE <<>>

(* ... one after the other.                                                *)
RemoveUpTo(disk, records) ==
  LET upto[k \in 0..Len(records)] ==
        IF k = 0 THEN disk ELSE RemoveRecord(upto[k - 1], records[k])
  IN  upto

DeleteLeft ==
  /\ KeyIn("left")
  /\ Chosen(Active) # <<>>
  /\ LET records == Chosen(Active)
         disk == RemoveUpTo([map |-> local, crash |-> FALSE], records)[Len(records)]
     IN  /\ local' = disk.map
         /\ IF disk.crash
            THEN /\ ended' = "crash"
                 /\ UNCHANGED <<panels, dirL>>
            ELSE GoLeft(disk.map, order.left, dirL, "")
  /\ UNCHANGED <<selected, order, network>>

(* 'c' on the left (RcreateDir): mkdir of a typed name, whose result is    *)
(* not looked at, and the list is read again; on the right the directory   *)
(* is made in the network and RefreshRight follows.  A window that is left *)
(* without making it is followed by the same refresh.  Where readdir puts  *)
(* the new name is not said: here it comes first.                          *)
NewRecord(name) == [name |-> name, kind |-> "D", size |-> 0, mark |-> FALSE]
CreateDir(map, name) ==
  LET at == Real(map, dirL)
      d == Append(at, name)
  IN  IF \/ at \notin DOMAIN map \/ d \in DOMAIN map
         \/ name \in {r.name : r \in ToSet(map[at])}
      THEN map
      ELSE [e \in DOMAIN map \cup {d} |->
              IF e = d THEN <<>>
              ELSE IF e = at THEN <<NewRecord(name)>> \o map[e] ELSE map[e]]
MakeDir ==
  /\ KeyIn("left")
  /\ \E d \in NewDirs :
       /\ d # <<>> /\ Parent(d) = Real(local, dirL)
       /\ local' = CreateDir(local, Last(d))
       /\ GoLeft(local', order.left, dirL, "")
  /\ UNCHANGED <<selected, order, network>>

----------------------------------------------------------------------------
(* Keys of both panels that change only the panel.                         *)

Key(p) ==
  /\ AnyKey
  /\ SetPanel(selected, p)
  /\ UNCHANGED <<selected, order, dirL, local, network, shown, astray>>

KeyHome ==
  /\ AnyKey
  /\ SetPanel(selected, Home(Active))
  /\ astray' = [astray EXCEPT ![selected] = FALSE]
  /\ UNCHANGED <<selected, order, dirL, local, network, shown>>

KeyDown     == Key(Down(Active))
KeyUp       == Key(Up(Active))
KeyEnd      == Key(End(Active))
KeyPageUp   == Key(PageUp(Active))
KeyPageDown == Key(PageDown(Active))

KeyMark     == OnRecord(selected) /\ selected \in Marking /\ Key(Mark(Active))
KeyMarkAll  == selected \in Marking /\ Key(MarkEach(Active, TRUE))
KeyMarkNone == selected \in Marking /\ Key(MarkEach(Active, FALSE))
KeyMarkOthers == selected \in Marking /\ Key(MarkOthers(Active))

(* Tab paints both panels.                                                 *)
KeyTab ==
  /\ AnyKey
  /\ \E s \in Sides \ {selected} : Turn(s) /\ selected' = s
  /\ ended' = IF \A s \in Sides : Painted(panel[s]) THEN ended ELSE "lost"
  /\ UNCHANGED <<panels, order, dirL, local, network>>

(* 'e', 'w' and 't' change the order of the selected panel; all refresh.   *)
NextMethod(o) == [o EXCEPT !.method = IF @ + 1 > 4 THEN 1 ELSE @ + 1]
Reversed(o)   == [o EXCEPT !.reverse = ~@]
Regrouped(o)  == [o EXCEPT !.group = ~@]

KeyOrder ==
  /\ AnyKey
  /\ \E o \in {NextMethod(order[selected]), Reversed(order[selected]),
              Regrouped(order[selected])} \cap Orders[selected] :
       order' = [order EXCEPT ![selected] = o]
  /\ IF selected = "left"
     THEN GoLeft(local, order'.left, dirL, "") /\ UNCHANGED network
     ELSE /\ Ask("refresh", level, place, "")
          /\ UNCHANGED <<panels, level, place, dirL, ended>>
  /\ UNCHANGED <<selected, local>>

(* RdoWindowResize, from the loop or from SIGALRM, which also comes while  *)
(* a list of the network is being read.                                    *)
Resize ==
  /\ ended = "no"
  /\ panel' = [s \in Sides |-> Home(panel[s])]
  /\ astray' = [s \in Sides |-> FALSE]
  /\ UNCHANGED <<selected, order, dirL, local, network, shown, ended>>

Quit ==
  /\ AnyKey
  /\ ended' = "quit"
  /\ UNCHANGED <<panels, selected, order, dirL, local, network>>

----------------------------------------------------------------------------
(* The start: both lists are read.  The order of the left list is reversed *)
(* as the right panel says, which is the selected one.                     *)
CommanderInit ==
  \E answer \in Readings(Local, Start) :
  LET how == [StartOrder.left EXCEPT !.reverse = StartOrder.right.reverse]
      top == [first |-> 0, pos |-> 0, list |-> <<UpRecord>>]
  IN  /\ selected = "right"
      /\ order = StartOrder
      /\ local = Local
      /\ dirL = Start
      /\ level = LEVEL_WORKGROUPS
      /\ place = Nowhere
      /\ panel = [left |-> [top EXCEPT !.list = InitList(answer, how)],
                  right |-> top]
      /\ shown = [left  |-> [from |-> Start, records |-> Answered(answer),
                            how |-> how, stale |-> FALSE],
                  right |-> [from |-> <<level, place>>, records |-> <<>>,
                             how |-> StartOrder.right, stale |-> FALSE]]
      /\ astray = [s \in Sides |-> FALSE]
      /\ read = [why |-> "refresh", at |-> level, to |-> place, name |-> "",
                 count |-> Retry, found |-> FALSE]
      /\ tries = 0
      /\ ended = "no"

CommanderNext ==
  \/ Lost \/ Attempt
  \/ UpRight \/ EnterRight \/ RefreshRight \/ Goto \/ Find \/ BookmarkRight
  \/ EnterLeft \/ RefreshLeft \/ BookmarkLeft \/ DeleteLeft \/ MakeDir
  \/ KeyHome \/ KeyDown \/ KeyUp \/ KeyEnd \/ KeyPageUp \/ KeyPageDown
  \/ KeyMark \/ KeyMarkAll \/ KeyMarkNone \/ KeyMarkOthers
  \/ KeyTab \/ KeyOrder \/ Resize \/ Quit

CommanderSpec == CommanderInit /\ [][CommanderNext]_vars

----------------------------------------------------------------------------
(* Properties.                                                             *)

(* The types of the variables.                                             *)
TypeOK ==
  /\ \A s \in Sides : panel[s].first \in Nat /\ panel[s].pos \in Nat
  /\ \A s \in Sides : \A i \in DOMAIN panel[s].list : panel[s].list[i] \in Record
  /\ selected \in Sides
  /\ level \in LEVEL_WORKGROUPS..LEVEL_FILES
  /\ tries \in 0..MaxTries
  /\ astray \in [Sides -> BOOLEAN]
  /\ ended \in {"no", "quit", "lost", "crash"}

(* The cursor is on a record of the list and in the window, whatever was   *)
(* entered, deleted, sorted or resized; only a cursor put by name on the   *)
(* row below the window, or left where it was by a name that is not in the *)
(* list, may be elsewhere, and only after one the program kills itself for *)
(* a record that is not there.                                             *)
CursorInside ==
  /\ ended = "no" => \A s \in Sides : astray[s] \/ InWindow(panel[s])
  /\ ended = "lost" => \E s \in Sides : astray[s]

(* A list is what its place had when it was read: the sort, which          *)
(* exchanges the contents of linked records while it walks over them,      *)
(* loses none and doubles none, and the keys that mark only mark.          *)
Plain(l) == [i \in DOMAIN l |-> [l[i] EXCEPT !.mark = FALSE]]
Times(l, r) == Cardinality({i \in DOMAIN l : l[i] = r})
SameRecords(l, m) ==
  /\ Len(l) = Len(m)
  /\ \A i \in DOMAIN m : Times(l, m[i]) = Times(m, m[i])
PanelsComplete ==
  \A s \in Sides :
    SameRecords(Plain(panel[s].list), <<UpRecord>> \o shown[s].records)

(* A list is in the order that was asked for, the directories first if     *)
(* they are grouped, except for its last record, and for a descending one  *)
(* of names that cannot be ranked, as one that others begin with.          *)
PanelsSorted == \A s \in Sides : SortedButLast(panel[s].list, shown[s].how)

(* The place in the title of a panel, which decides what a key deletes,    *)
(* copies or enters, is the one its list was read from, unless a bookmark  *)
(* led to a place that could not be read, or a directory was entered from  *)
(* the list that such a bookmark left in the panel.                        *)
ListIsOfPlace ==
  (ended = "no" /\ read = NotReading) =>
    /\ shown.left.stale \/ shown.left.from = dirL
    /\ shown.right.stale \/ shown.right.from = <<level, place>>

(* Whoever goes up finds the cursor on the record that he came from.       *)
ComesBack ==
  [][(read.why = "up" /\ read' = NotReading /\ read.name \in Names(panel'.right))
       => Current(panel'.right).name = read.name]_vars

(* A delete takes away nothing but records that are marked or under the    *)
(* cursor, and what is in and below the directories that their paths lead  *)
(* to: that of a link is elsewhere, and that of a marked ".." is the one   *)
(* above.  Links further down are not followed.                            *)
Targets(p) == {r.name : r \in ToSet(Chosen(p))}
NothingElseDeleted ==
  [][LET at == Real(local, dirL)
         Taken(d) == \E t \in Targets(panel.left) : Under(Follow(local, at, t), d)
     IN  \A d \in DOMAIN local :
           IF d \in DOMAIN local'
           THEN \A i \in DOMAIN local[d] :
                  \/ local[d][i] \in {local'[d][j] : j \in DOMAIN local'[d]}
                  \/ d = at /\ local[d][i].name \in Targets(panel.left)
                  \/ Taken(d)
           ELSE Taken(d)]_vars

(* A list of workgroups or shares that is refused, and a list of hosts     *)
(* whatever its answer, is asked for as often as the configuration says    *)
(* and not more, however the answers follow on each other.                 *)
RetriesCounted ==
  (read # NotReading /\ Retry >= 0 /\ (read.found => read.at = LEVEL_HOSTS)) =>
    tries <= Retry
============================================================================
