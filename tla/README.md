# Samba Commander, modelled and checked

TLA+ modules, TLC runs and TLAPS proofs about smbc ("Samba Commander"), the
two-panel ncurses client for SMB networks. Paths such as `smbc.c:2824` are
relative to `src/src/`, those of documents to `src/doc/`.

## 1. The system

smbc is one single-threaded process around a key loop (`main`, smbc.c). What
makes it more than a sequential program:

* the transfer engine is called once per pass of the key loop and does one small
  step per call, so a transfer is interleaved with everything the user does to
  the list it works on;
* signal handlers (SIGALRM every second, SIGTERM, SIGINT, SIGWINCH, SIGCHLD,
  SIGSEGV) do real work: they save lists, take locks, fork, show dialogs;
* the indexer is a forked child, which shares a lock, a process group, a
  directory and a copy of all variables with its parent;
* several smbc of one user share `~/.smbc` without any protocol but one lock;
* hosts, shares and disks fail at any call.

### Inventory

| component | state | operations | what makes it correct |
|---|---|---|---|
| transfer engine (`RdownloadUpload`, `Rchoice`, `RremoveActFromListAndCloseFiles`) | `RdownloadListAct`, `RdownloadHandleRD`/`WR`, `RaskRetry`, `RaskRetryDiskFull`, the destinations | scan, open source, open destination, stat, compare tails, copy a buffer, finish, dialogs | handles belong to the listed record; a file finished is a file transferred; nothing erased unasked; every record served |
| download/upload list (`downloadlist.c`, `RaddOneToTT...`) | a doubly linked list of records | add, free, find | a record is in it once, and in order |
| list editor (`RmanageList`) | marks, delays, order; `RlFirst`, `RlSelect` | keys, purge of marked records | the engine never keeps a freed record; the selection is in the list |
| saved lists (`RopenSaveDownloadList`, `RsigTerm`, `dulist.c`) | `~/.smbc/dulistX` | load + unlink at the start, save at the end | each record waits in exactly one place |
| index of the network (`RtryLockFileAndCreateIndexFile`, `RcreateFindIndex`, `find-index-manage.c`) | `smbc.lock`, `findfileprim`, `findfile`, the child | lock, fork, write, rename, sleep, message, compare, find | one indexer, a whole index, nobody left behind |
| lists of groups, hosts, shares, files (`RgetMasterList`, ...) | one list per level | read with retries | a retry loop ends |
| panels and main loop (`ttlist.c`, `main`) | two lists with first, position, marks and order; the two places; `RremoteLevel` | move, enter, leave, mark, sort, delete, copy, make a directory, jump | cursor inside list and window; list and place belong together; a sort permutes; a delete takes what was meant |
| find windows (`RfindFileSmb`, `RmanageFindFile`) | fields, index, hits, first, selected | index, search, page, jump | each hit is a file; the row that is seen is the one that Enter takes |
| WinPopup mailbox (`RsaveMessage`, `RtryReadMessage`) | numbered files of a directory | create, write, read + unlink | each message is shown, and whole |
| bookmarks (`bookmarks.c`, `Rbookmark`) | linked list and file | add, delete, move, use, save | file = what was added and not deleted |
| viewer (`RviewFile`) | position in the file, page | lines and pages up and down, ends, wrap | the position is in the file |
| line editor, strings (`fnet.c`) | text, cursor, window | keys | cursor inside the text and the field; the field shows the text |
| libsmbclient wrappers (`smb-pack.c`, `smb-ext.c`) | saved descriptors 1 and 2, user and password | redirect around each call, change the account around an open | descriptors restored; the account is the user's between the keys |
| conversion (`convert.c`, `convertm.c`) | iconv descriptors | convert | |
| windows, texts, errors, debug | the windows one above the other, `RdontResizeWindow`, `RactiveWindow`, the alarm | open, answer, close, draw | a dialog shown over another one leaves it as it was |
| configuration (`RreadRcfile`) | variables | read once | |
| gettext (`intl/`), `m4/`, `po/`, build files | - | third party | |

How they interact: the key loop calls the engine, the panels add to the list, the
editor reorders it and frees from it (shared `RdownloadList` and
`RdownloadListAct`); the end of the process, by key or by signal, hands the list
to a file and a later start takes it from there; SIGALRM calls the lock and the
mailbox; the child is a copy of the whole process and so also a copy of the list;
the find window reads the index the child has renamed into place, and the status
line its message; windows, dialogs and the engine share one flag, one alarm and one
variable for the active window; panels, goto window, bookmarks and transfers share
one account.

### Hard behaviours

`PROJECT.json` ("hazards") lists them at their lines. The main ones: a dialog that
closes handles and returns into code that goes on with them; a purge of the
record in transfer; resuming at the length of the destination after a restart;
sizes read as `int`; descriptors that stay open; a record that keeps the others
waiting; a load by name in several system calls; a fork inside a handler; a
child that learns of the end of its parent only by a free lock; a place that changes
before its list is read, or without it; positions computed from each other in
five windows, each in its own way; a dialog over a dialog; a directory that
several processes read, write and unlink in; strings that are freed while a window has them.

## 2. Modules

| module | what it is |
|---|---|
| `DownloadUpload` | the engine, the list, the editor's effects on it, end and restart |
| `TransferQueue` | the abstract promise of the engine |
| `DownloadUploadProofs` | invariants and the action property of `DownloadUpload`, and that it implements `TransferQueue`, proved |
| `DownloadList` | the list as linked records, and the list editor on it |
| `DownloadListProofs` | its invariants, and that it implements `TransferQueue` too, proved |
| `DuListFiles` | several smbc and their children, and the dulist files |
| `DuListProofs` | invariants of `DuListFiles`, proved |
| `Indexer` | the lock, the indexers and the two index files |
| `IndexerProofs` | invariants of `Indexer`, proved |
| `NewIndex` | the comparison of two indexes, the message about it and the status line |
| `Panel` | one panel: the keys that move and mark, as operators from panel to panel |
| `PanelSort` | the sort of a panel |
| `Commander` | the key loop over two panels, and the reading of the lists of the network |
| `CommanderProofs` | its invariants and action properties, with the keys and the sort of a panel, proved |
| `CopyKey` | the walk of the copy key that fills the download/upload list |
| `FindWindow` | the index as a file, quick and slow find, the list of hits |
| `Bookmarks` | the window of bookmarks and their file |
| `Viewer` | the viewer of a file |
| `LineEditor` | the line editor of all windows with a field |
| `Dialogs` | the stack of windows and what they share |
| `Mailbox` | the messages between several writers and several smbc |
| `WindowProofs` | invariants of `Dialogs`, `LineEditor`, `Bookmarks`, `Mailbox`, `FindWindow`, `NewIndex` and `Viewer`, proved |
| `Wrappers` | the descriptors 1 and 2 around a call of libsmbclient |
| `Accounts` | the one account and who changes it |
| `Windows` | all windows side by side, one of them at work |
| `LibraryProofs` | next to the library: the return of the descriptors (`Wrappers`), whose the account is (`Accounts`), and that a copy queues each file (`CopyKey`); and `Windows`: that each window behaves there as it does alone, so that all of them keep their types and promises; proved |
| `Lists` | what is left of a list at some of its places, and lists one after the other, as recursive functions |
| `DataInduction` | induction over numbers and over the places of a sequence, and what is in a sequence; proved |
| `MCDownloadUpload`, `MCDownloadList`, `MCDuListFiles`, `MCIndexer` | instances for TLC |
| `MCCommander`, `MCWindows` | a small network, and small instances of all windows |

### DownloadUpload

| TLA+ | code |
|---|---|
| `list`, `rec` | `RdownloadList`; `active`, `delayRetry`, `nextRetry` of a record. `nextRetry` is kept as `due`, the seconds until `time(NULL) > nextRetry` |
| `act`, `rd`, `wr` | `RdownloadListAct`, `RdownloadHandleRD`, `RdownloadHandleWR`; a handle is named by the record whose file it is |
| `leaked` | descriptors that are open and in no variable |
| `file` | a destination: its length and whether it is a prefix of the source |
| `fate` | history: how the engine dropped a record |
| `ask` | `RaskRetry`, `RaskRetryDiskFull` |
| `mode` | key loop, list editor, purge, not running |
| `net`, `room` | the hosts answer, the disks have space |

`Engine` is one call of `RdownloadUpload`: `Scan` (nothing open), `OpenTarget`
(source open), `StatFails`, `Finish`, `Copy` (both open). A dialog (`Rchoice`) is
answered inside the call that shows it, as in the code, which waits for the key:
`Choice` with its answers 0 (remove), 1 (overwrite), 2 (wait), 3 (retry), 4
(retry without asking) and 5 (continue). `Edit` is one key of `RmanageList`,
`LeaveEditor`, `Purge` and `Purged` are its end. `Exit` saves the list, `Crash`
does not.

Abstractions: a file has at most one record and a destination of its own, so two
records for one destination are not covered; the source does not change while it
is transferred; lengths count blocks of a buffer of `Block`; local and
libsmbclient descriptors share the bound `MaxFd`; the keys for all records are
repetitions of the keys for one; the fields of a freed record are reset, since
they no longer exist; while the process is down `list` is the content of its
dulist file (`DuListFiles` models that file itself); the option `-p`
(`RdontDownload`: the engine is never called, smbc.c:6793) is left out; the dialog on a failed stat has the same answers as
the one on a broken connection.

### TransferQueue

A queue of files, one current transfer, lengths, and the set of finished files.
`KeepsPromise` is `TransferQueue!Spec` under the mapping written out above it: the
current transfer is the file whose *source is open* (not `RdownloadListAct`, which
stays set after `Overwrite` has closed the handles), and a file is finished when
the sizes said so.

### DownloadList

The list in memory: `next` and `previous` of each record, `RdownloadList` as `cur`
and `RdownloadListAct` as `act`. `Path` is a walk along links, and `Count`, `Nr`, `First`
are the functions of downloadlist.c, which all start at `cur`. `Free` and
`Exchange` are the hand-written changes of links: unlinking a record, and moving one in the
move mode of the editor (one definition for both directions, whose
assignments end in the same links). `Down`, `Up`, `PageDown`, `PageUp`, `Flush`
(CTRL-d, CTRL-f) and `Quit` are keys of `RmanageList`, `first` and `sel` its position, `rows`
the height of its window. `Paint` is the loop over the rows: if the list ends
first, `RsigTerm` is called (smbc.c:1197). `Purge` is one pass of the loop after q.
The fields of a record are left to `DownloadUpload`, except for the mark D.

`IsAQueue` maps the chain of records to the queue of `TransferQueue`, the same
abstract module `DownloadUpload` implements; so both models of one list promise
the same.

`Signals = FALSE` leaves out signals from outside, so that an end of the program
in the editor is one the editor causes itself.

### DuListFiles

A process is an instance of smbc or its indexing child (`Child(p)`). The load is
`Find`, `Read`, `Unlink`, the save is `Scan` for a free number, `Open` (`O_CREAT |
O_TRUNC`), `Write`; each is a step, so processes interleave between them.
`open[p]` says whether the file a process writes is still the one of that name.
`TryLock` forks: the child has a copy of the list, and it has the handlers of
SIGINT and SIGTERM only when the fork came from SIGALRM and not from the start
(`armed`); SIGALRM also comes while the list is saved.

A signal enters `RsigTerm` from the key loop (`Signal`) and again while it saves the list
(`SignalAgain`, `SignalInWrite`): `signal()` blocks a signal only while its own handler runs, and
SIGTERM, SIGINT and the handler of SIGSEGV all lead there. `inside[p]` counts the handlers a process
is in, `Handlers` bounds them. The inner one saves the whole list under the next free number
and exits, so what it has interrupted never goes on: a save that had got through in part
leaves its records in two files (`copied`), which is the case `NothingTwice` names. A short write sends
SIGTERM itself and so is `SignalInWrite`, or `BreakOff` where SIGTERM is blocked. The signals come
to the process group (Ctrl-C, or the code's own `kill(0, SIGTERM)`) or to an instance alone (`ToChild` bounds those that come to a child), at
different moments for each process. `Quit` is the end by q, which saves without a handler, `Crash` any other end.

Abstractions: a record at the end of a file that was not written as a whole is dropped when
the file is read; a process that hangs is like one that stops; an
instance is started again under the same name only when its last child has
ended; numbers of files are bounded by `MaxFile`, and a scan that would go
further is not followed.

`Overlap = FALSE` lets one process at a time be loading or saving. It is the
condition under which the files are safe; nothing in the code ensures it, and
the run `EachIsSaved` shows what happens without it.

### Indexer

`holders` is who has the locked description of `smbc.lock` open: a forked child
shares it until it closes its copy. `TryLock` is the handler of SIGALRM (or the
start): `flock`, removal of `findfile`, fork. The child runs `Check`, `Create`
(`findfileprim`, `O_TRUNC`), `BeginCopy` / `EndCopy` (the network is walked into
a private file, then copied), `Rename`, `Sleep`. The child opens `smbc.lock` for itself and does not look
whether it could (5628): if not it is `blind`, never tests the lock (5640) and goes on for ever, with its
instance or without. `OpenFails` says whether this may happen. Names and files are kept apart,
since an indexer goes on writing to a file another one has truncated or renamed.

Abstractions: the message file (`messageprim`) is left out, walking the network
is one step, at most `Child` indexers are alive at a time, and taking the lock,
closing and leaving are one step of the child, as nobody can act on the moment
in between except by trying the lock once more.

### NewIndex

`maker` is an indexer between its start and its two renames, `newest` the index that
is in place, `message` the file that tells of it, `status` what the status line has read.
`HostsTable` is the table of hosts `RcompareTwoIndexFile` builds from the records,
`Compare` what it writes, `CheckMessage` `RcheckNewIndexFile`, which knows a new message
only by the second of its `st_ctime`. `KillMaker` ends the indexer between any two
steps. Of an index only the hosts matter, in their order; cutting the message at the width
of the terminal is left out.

### Panel, PanelSort, Commander

`Panel` is a record of list, `first` and `pos` (`RlistLeft`, `RleftFirst`, `RleftPos` and
the same for the right side); each key is an operator. The code has each key twice;
the model has it once. `PutOn` is `RsetSelect`, with the row below the window it may
leave the cursor in. `PanelSort` is `RsortList` as it walks: contents of records are
exchanged while two cursors go over the list, first by kind, then in each part. The
comparison of names, equal when one begins with the other, is a constant set of pairs, of which
`OrderAssumption` says that it is transitive and asymmetric: letters are compared one by
one, and the first that differ decide.

| `Commander` | code |
|---|---|
| `panel`, `selected`, `order` | the two panels, `Rselected`, `RsortMethod...`, `RsortReverse...`, `RgroupFilesDirectories` |
| `level`, `place`, `dirL` | `RremoteLevel`; `Ragroup`, `Rahost`, `Radir`; `RadirL` |
| `read`, `tries` | the list a key is reading, the repetitions left; history: how often it was asked for |
| `local` | the local directories |
| `shown`, `astray` | history: what each list was read from; whether a cursor was put by name where no record is |
| `ended` | by q, by `kill(0, SIGTERM)` for a record that is not there, or by a crash |

`Attempt` is one request for a list: the hosts may answer with it, with nothing or with a
refusal, each time differently, so each is a step, and the keys wait. `EnterRight`,
`UpRight`, `Goto`, `Find`, `BookmarkRight` are the ways to another place, `RemoveRecord`
and `RemoveUpTo` the walk of a delete, `MakeDir` the key c. `EnterRight` on a directory leaves the level as it
is and reads the list that level has (7306), which after a refused bookmark may be one of shares or hosts.

The local disk has symbolic links: `Links` says where each leads, and `Follow` and `Real` follow them in a
path. `Readings` is what `RgetFileFromDirL` makes of a directory: `stat` gives a link the kind and size of its
target, and a link that leads nowhere those of the record before, whose `stat` result is still there. `RremoveDir` opens
a path through its links, so a chosen link to a directory has the target emptied; further down it goes by the type in the
directory entry, and unlinks links. A chosen directory that cannot be opened ends smbc in `readdir(NULL)`.
 `Lost` is any key that looks up
the record under a cursor that is on none. Abstractions: bookmarks, find and goto window
are represented by the places they return (their own modules have the windows); the form
of the key m is left out; file systems that tell no types in directory entries are left out; when a delete ends smbc
the disk is as it was before that record; a list is painted only as far as its first record is looked up.

### CopyKey

The key d after its question: `OpenDir`, `QueueFile` and `EndWalk` are the recursive walks
`RcreateFileFromDirR` and `RcreateFileFromDirL`, one directory or file per step, each of which may refuse to
open. A path built without the slash it needs is `glued` (3490): the last name of the directory and the name of
the file run together (`RunTogether`), and if the directory above has an entry of that name, it is what is
opened and queued (`QueueGlued`), a second time if it is in the copy anyway; else there is nothing to open (`FileClosed`).
What the list does with the records afterwards is in `DownloadList`. The trees are constants, of which
`TreeAssumption` says what file systems hold to: a name is once in its directory, and a directory below
the one of the panel is listed in the one above it; `MarksAssumption`, that a panel has each entry once.

### FindWindow

An index file is a sequence of fields: a count, then five for a record
(`RecordFields`), parsed by `Loaded` as the code does. `WalkPath` is the walk of a slow
find from a place or from marked records: `Walks` has the calls that are in each other
(`Deepest` of them at most, as no path of the network is longer). The list of hits has `first`, `select`
and the rows that are painted, which walk over the index by themselves (`RowWalk`, `PaintedRow`);
Enter takes the selected hit. `below` is a history: the last page down has put the selection near the
end of the hits and left the window where it was (smbc.c:4959). `resized` is one too:
`RresizeFindFile` changes the height and neither the first row nor the selection.

### Bookmarks

Bookmarks, selection and first row; `PageDownBookmark`, `UpBookmark` and the others are
the keys. `ResizeBookmark` gives the window other rows (`maxY`) and paints from the same first row; painting
beyond the last bookmark ends smbc (6465, `at = "crash"`), which needs a window that is made
higher while it is scrolled (`grown`). `OpenBookmarks` takes a file it cannot open for none (`unread`).
`UnlinkBookmarks` and then `WriteBookmarks` or `WritePart` are the end of the window: the new file cannot be made,
about which nothing is said, or a write is short, which ends smbc, or it is killed, so that of the bookmarks only the
first ones are in the file, or none. `torn` notes that a file was removed which was not written again as a whole.
`CrashBookmarks` is a key that uses the selected bookmark of an empty list.

### Viewer, LineEditor

A file is a sequence of letters, ends of lines and zero bytes; `ReadAndPaint` reads a
page at `Rseek` and lays it out byte by byte (`PagePainted`), which decides where the next page and line begin
(`RfirstLineLen`, `RPageLen`). `LineTurn` and `PageTurn` are one turn of the loops of Up and
page up, which read the file backwards, a byte at a time. What is behind a full page in the buffer is any garbage.
The line editor has the text, `startidx` and `wxx` as in the code, and the columns it has
painted, as it repaints only some of them. Typing is followed while the cursor is in the
buffer; stars of a password are left out.

### Dialogs

`stack` is the windows that are open: messages of `RshowMessage`, forms with fields
and buttons, windows of their own loop. `Push` and `Pop` do what opening and closing does
to `RdontResizeWindow`, `RactiveWindow` and the alarm. `EngineAsks`, `SigAlarm` and `Sigwinch` come at
any key any of them waits for. `FallThrough` is the key 0, which leaves the question for
the code behind it.

### Mailbox

`letter[w]` is a writer (`RsaveMessage`), `reader[r]` an smbc in `RtryReadMessage`, `dir` the
directory of numbered files. `OpenMessage` takes a name that was read from the directory
before; the open may fail because the file is gone or for any other reason, and the name is removed in both cases (6271).
`ShowMessage` shows what is written so far, or less if a read fails; `UnlinkMessage` removes whatever has that name by
now, or cannot (`UnlinkFails`) and finds it again. `CrashOnMessage` is the copy of a string out of memory that is already free. The
text of a message is the number of parts that are written (`TextParts`). The histories name the cases in which
a message may be lost: `mailRead` (read while it was written, or not to its end), `blind` (removed by an smbc that
could not open it or that was `robbed` of the name it works on).

### Wrappers, Accounts

`Wrappers` is one call with `RmsgOff` before and `RmsgOn` after it, one system call per step,
with a table of descriptors that may be full: `dup` is not tested, `open` of `/dev/null` is.
`Accounts` is `Rusername` and `Rpassword`: `SaveAccount` .. `AccountBack` are the open of a
record (`VI_ST_TO_INTER` and back), the goto window edits copies and writes them through the
pointers it was given, which a transfer may have freed (`given`), and a jump to a
 sets the password twice and the user never. The callbacks of the library between two steps
see the account of that step (`requests`).

### Windows

smbc has one keyboard: while a window is open the others rest. `Windows` puts the
modules side by side, `window` says which one is at work, and the others keep their initial
state. So one run checks eleven parts without the product of their states. The modules have
no variable in common (what windows do share in the code is within one module: the panels, the
dialogs, the account), and the theorem `EachWindowAlone` says that nothing is lost by this:
in a behaviour of `WindowsSpec` each part is a behaviour of its own specification.

## 3. Runs

| run | result | what it shows |
|---|---|---|
| `DownloadUpload` | holds | `TypeOK`, `HandlesFollowAct`, `NoDuplicates`, `FinishedIsWhole`, `NeverErasesUnasked`, `KeepsPromise` |
| `DownloadUploadLive` | holds | `Served` |
| `DownloadList` | holds | `TypeOK`, `LinkedBothWays`, `CountsFromFirst`, `ActListed`, `SelectionInList`, `IsAQueue` |
| `DuListFiles` | holds | `TypeOK`, `NothingLost`, `NothingTwice` |
| `Indexer` | holds | `TypeOK`, `IndexIsWhole`, `NoneLeftBehind`, `TakenOver` |
| `Windows` | holds | the twenty properties below |
| `NextItemServed` | violated | a destination that cannot be opened blocks the whole list |
| `RetriesGoOn` | violated | retries use up the descriptors |
| `StatFailure` | violated | after a failed stat a record may be dropped untransferred |
| `EachIsSaved` | violated | two instances that end at once overwrite one list |
| `OneIndexer` | violated | two indexers may go on for ever |
| `OnlyQuitLeaves` | violated | CTRL-f on the last record ends the program |

The run `Windows`:

| module | properties |
|---|---|
| all | `WindowsTypeOK` |
| `Commander`, `Panel` | `CursorInside`, `ListIsOfPlace`, `RetriesCounted`, `ComesBack`, `NothingElseDeleted` |
| `PanelSort` | `PanelsComplete`, `PanelsSorted` |
| `CopyKey` | `QueuesEach` |
| `FindWindow` | `IndexedAreFiles`, `RowsAreHits` |
| `NewIndex` | `TellsOfIndex` |
| `Bookmarks` | `PaintsInside`, `BookmarksKept` |
| `Viewer` | `ViewInside` |
| `LineEditor` | `EditorShows` |
| `Dialogs` | `DialogsHold` |
| `Mailbox` | `MailShown` |
| `Wrappers` | `OutputIsBack` |
| `Accounts` | `AccountOfEach` |

Several of these properties name the cases in which the code does not keep them, as a
condition on a history variable (`astray`, `shown.stale`, `unsteady`, `behind`, `grown`, `torn`, `mailRead`, `blind`,
`copied`, `loose`, ...); section 5 lists the cases. The property then says that there are no others.

Bounds. A record interacts with others through the order of the list, the scan,
the single `RdownloadListAct` and the descriptors, all of which two records show;
one is a download of two blocks (so a transfer can be interrupted half way)
onto a name another file may have (so tails can differ), the other an upload
(so every asymmetry of `Rchoice` and of the purge is met). `MaxFd = 4` lets
a transfer go on after a first pair of descriptors was lost, so that both
questions can be turned off while files are open, and lets descriptors run out
after the second. `IntHalf = 4` is above all sizes: that
a file of 2^31 bytes and more breaks `FinishedIsWhole` is why that property has a
condition on the size. `MaxDelay = 0` in the runs: a delay only postpones the
second a record is ready again, which `due` already does; the theorems hold
for every `MaxDelay`. In `DownloadList` five records in windows of two and of three rows make every
branch of the paging keys fire. In `DuListFiles` two instances with a child each, two records
and two file numbers let every pair of processes meet on one number and a save be repeated
under the next; `Handlers = 2` lets a signal interrupt the handler of another one, so that a record is in two files, and a child gets one signal (`EachIsSaved`
has three numbers, `Overlap` and no signals to the group). In
`Indexer` two instances, two indexers and four files let an indexer survive its
instance and meet the next one; each may be without the lock (`OpenFails`; not in `OneIndexer`, where
two indexers go on for ever although both test it).

Bounds of `Windows`. Panels have windows of two rows and lists of up to five records, so that the window
is scrolled and every branch of the page keys is taken (`CommanderProofs` has any length); the left one is sorted
by name with its directories grouped, the right one by size, not at all or by descending names, ungrouped, with
a file b that is the equal of ba and of bb, which are not each other's; the network has an empty directory,
and each answer may be empty or a refusal; one repetition (`Retry`) and two counted attempts let the bound of the
configuration be met and passed. A panel is left for the other only at rest (`Restless = FALSE`),
and records are marked on the left only (`Marking`), where they can be deleted: what the panels share, the selection, is still met.
The local disk has a directory that cannot be opened and a link to a directory elsewhere; a bookmark of the right panel leads to a
host, which may refuse, so that a directory is then entered at another level.
Four bookmarks, one of which is "..", in a window of one or two rows, so that it grows and shrinks while it is scrolled. The trees of `CopyKey`
are two directories deep with a link on both sides, and the left one has a file beside a directory whose name is that of the
directory and of a file in it run together; two copies one after the other. The
network of `FindWindow` has a name three times, a hidden one and an entry that is neither host nor share; its
six files are more than the window of two or four rows (`Heights`) shows, so that every branch of its page keys is
taken, and `Deepest = 5` is above its deepest path.
`NewIndex` makes two indexes in two seconds of the clock. Texts of the viewer have lines shorter
and longer than its two columns, more lines than its two rows, zero bytes and nothing. The buffer of the line editor has six
bytes, the field three columns. `MaxDepth = 3` puts a dialog over a dialog over a window.
Two writers, two readers and two numbers let a number be used again under a reader; a text of one part
is shown or not; the two messages are alike, and so are the two readers (`MailAlike`).
Five free descriptors are two more than a call needs. Two records of other accounts, one bookmark.

Deadlock is checked in every run but `Windows`, where windows close and the program ends
by q.

Fairness. `DownloadUpload`: the key loop calls the engine on every pass, and
SIGALRM makes `getch` return every second; the purge is a loop without input;
the clock goes on. Nothing is assumed of the user, the network or the disks:
`Served` itself says when they must behave. It speaks of records whose source
and destination can be opened and whose destination is not taken, while nobody
is in the editor, and while two descriptors are left. `Indexer`: SIGALRM tries
the lock every second, and each call of an indexer returns; nothing makes
an instance end. The windows wait for keys, which nobody has to press: they have no fairness and
no liveness.

`Served`, `NoneLeftBehind` and `TakenOver` are properties of the code's scheduling:
`IsNext` takes the *first* ready record of the list, and what keeps a record at
the front from starving the others is only that a failure moves its `nextRetry`.

## 4. Proofs

From the named assumptions on the constants alone, for any number of records, processes, files,
sizes, delays, rows and descriptors:

| theorem | module | statement |
|---|---|---|
| `TypeCorrect` | `DownloadUploadProofs` | `Spec => []TypeOK` |
| `HandlesFollow` | | `Spec => []HandlesFollowAct` |
| `OnceInList` | | `Spec => []NoDuplicates` |
| `WholeWhenFinished` | | `Spec => []FinishedIsWhole` |
| `ErasesOnlyWhenAsked` | | `Spec => NeverErasesUnasked` |
| `CallsHaveWork` | | `Spec => []CanGoOn` |
| `TransfersAdvance` | | `Spec => Advances` |
| `ImplementsQueue` | | `SizesFit /\ Spec => KeepsPromise` |
| `ListTyped` | `DownloadListProofs` | `Spec => []TypeOK` |
| `LinksAgree` | | `Spec => []LinkedBothWays` |
| `FirstIsCounted` | | `Spec => []CountsFromFirst` |
| `ActIsListed` | | `Spec => []ActListed` |
| `SelectionExists` | | `Spec => []SelectionInList` |
| `ListIsAQueue` | | `Spec => IsAQueue` |
| `DuListTyped` | `DuListProofs` | `~Overlap` implies `Spec => []TypeOK` |
| `DuListLosesNothing` | | `~Overlap` implies `Spec => []NothingLost` |
| `DuListDoublesNothing` | | `~Overlap` implies `Spec => []NothingTwice` |
| `IndexerTyped` | `IndexerProofs` | `Spec => []TypeOK` |
| `WholeIndex` | | `Spec => []IndexIsWhole` |
| `IndexersRunOut` | | once no instance runs, no indexer starts, and each step of one that is not `blind` lowers its `Rank` and raises no other |
| `CommanderTyped` | `CommanderProofs` | `CommanderSpec => []TypeOK` |
| `ListsAreComplete` | | `CommanderSpec => []PanelsComplete` |
| `ListsAreSorted` | | `CommanderSpec => []PanelsSorted` |
| `ListsAreOfTheirPlace` | | `CommanderSpec => []ListIsOfPlace` |
| `AttemptsAreCounted` | | `CommanderSpec => []RetriesCounted` |
| `ComesBackUp` | | `CommanderSpec => ComesBack` |
| `DeletesNothingElse` | | `CommanderSpec => NothingElseDeleted` |
| `CursorStays` | | `Rows > 1` implies `CommanderSpec => []CursorInside` |
| `KeysStayInside` | | the six keys that move the cursor keep `InWindow` |
| `PutOnTheRecord` | | where `RsetSelect` leaves the cursor |
| `DialogsShare` | `WindowProofs` | `DialogInit /\ [][DialogNext]_dialogVars => []DialogsHold` |
| `EditorShowsText` | | the same for `LineEditor` and `EditorShows` |
| `BookmarksPainted`, `BookmarksAreKept` | | for `Bookmarks`, `PaintsInside` and `BookmarksKept` |
| `MailIsShown` | | for `Mailbox` and `MailShown` |
| `FoundIsThere`, `RowsShowHits` | | for `FindWindow`, `IndexedAreFiles` and `RowsAreHits` |
| `StatusTellsOfIndex` | | for `NewIndex` and `TellsOfIndex` |
| `ViewStaysInside` | | for `Viewer` and `ViewInside` |
| `OutputReturns` | `LibraryProofs` | for `Wrappers` and `OutputIsBack` |
| `AccountReturns` | | for `Accounts` and `AccountOfEach` |
| `EachIsQueued` | | for `CopyKey` and `QueuesEach` |
| `EachWindowAlone` | | `WindowsSpec` implies the specification of each window |
| `WindowsTyped` | | `WindowsSpec => []WindowsTypeOK` |
| `WindowsAreSafe` | | `WindowsSpec` implies all other properties of the run `Windows`, `CursorInside` if `Rows > 1` |

`Rows > 1`: in a window of one row `RsetSelect` shows the record above the one it was
asked for (`PutOnTheRecord`), and the two properties do not hold. The assumptions on
constants say what every instance of the code has: a buffer with room for a byte and an end,
a field of two columns or more, texts that fit their buffer, names that are not empty, lists as
they are read (nothing marked), `..` among the names, files only in shares and below, paths shorter than
`Deepest`, windows of a row or more (smbc does not start in a terminal of less than 25 lines, smbc.c:274), an account for each
record and bookmark. `MaxFile`, `MaxSpare`, `MaxDepth` and `MaxCopies` are any numbers.

The inductive invariant of the engine is

    Inv == TypeOK /\ HandlesFollowAct /\ NoDuplicates
           /\ ListedIsUnfinished /\ PrefixFits /\ FinishedIsWhole

`HandlesFollowAct` needs `NoDuplicates`: `RremoveActFromListAndCloseFiles` and
the purge unlink *one* occurrence of a record, and only if there is no other is
the record really gone. `FinishedIsWhole` is not inductive: that a finished
destination is *exactly* as long as the source needs `PrefixFits` (nothing was
ever written beyond the source, through any sequence of short writes and
resumes), and that later steps do not touch it needs `ListedIsUnfinished` and
`HandlesFollowAct` (what is written belongs to a listed record). The proof has one
lemma per action, and under it one step per conjunct that the action disturbs;
`RemoveAtLemma` says what unlinking does to a sequence.

`ErasesOnlyWhenAsked` goes through `NextKeeps`: a step that shortens a destination
can only come from answer 1 of a dialog, and `Answer` excludes it when the
question is off.

`CanGoOn` and `Advances` (in `DownloadUploadProofs`) are the safety half of `Served`; no run has them. `OpenTransfer` collects what the invariant
says of a transfer that is open while nothing disturbs it: it has the record's own handles, so of the two descriptors
that are left one serves the destination, and `PrefixFits` bounds its length by the source, so that both lengths survive the
conversion to int and a shorter destination has a block left to be read. The other way a call could be spent, a
question about the tail, needs a tail that differs. `Advances` alone would allow a call that does
*nothing*, which is no step at all in TLA+; that there is none is what `CanGoOn` says. Both need
that the destination is a prefix of the source: over another file's content the engine asks.

`ImplementsQueue` maps each action to one of `TransferQueue` or to a stutter.
`SizesFit` says that all sizes and the lengths destinations may start with are
below 2^31; without it `AsInt` of a length may be negative, the engine takes a
long file for a short one, and the queue's promise fails.

The linked list. `LinkedBothWays` is not inductive: from the links of two neighbours nothing
follows about a walk, and every operation walks. The invariant of `DownloadListProofs` says
that there is *one sequence* the links are those of: `IsLinked(Chain, next, previous)`, with each
record once, each link leading to the next and the previous place, and no links at all in
records outside; and `Pointed`, that `RdownloadList` is one of its records. `PathIs` (an induction
over the length of a walk) shows that a walk along such links finds that sequence,
`Forward` and `Backward` that it ends at the last and the first record from anywhere in the middle, which is
where `RdownloadList` is while files are added and while the list is purged. `AddLinks`, `FreeLinks` and
`SwapLinks` are the three rewirings: given a sequence and its links, the assignments
leave the links of `Append`, `RemoveAt` or the exchange. The rest is arithmetic of places: `EditorFits` (what
is painted ends within the list or shows all of it) is not needed for the selection, but for
the refinement: without it a key could move a record *and* end the program in one step,
which is no step of the queue.

The saved lists. `Shape` says that one process at most is in the files (`OneBusy`, by
`~Overlap`), what it knows of the file it is at (`FileFollows`: it has read all of what it
unlinks, and writes into an empty file that still has its name), and that who has not
loaded has no list; `Known` that lists and files hold only records that were
put in a list. `CalmSteps` shows that nine of the eighteen actions leave every place of a
record as it is (among them the second signal of a save that has not begun to write). `PutsPlaces` says what a file and the other files have after the first k
records of a list were written. For `NothingLost` each of the others gives the record another place
before it takes one; for `NothingTwice` the invariant `Alone` says more than the property: a
record is *once* in its list or file (or else unlinking one occurrence would leave another
behind), in one file or in one hand, and nowhere when it is no longer wanted.

The mailbox. `NamesHold` is what the reader relies on: unless another smbc has removed a name he
has read in the directory (`robbed`), each of his names still has a message, and the
one he is about to remove is the one he has shown, or one he could not open. `Excused` is what may be removed: a message of
which all that is written was shown, or one named in `mailRead` or `blind`; `ReadsMessages` says that only what could be opened is shown.

The dialogs. The invariant of `DialogsShare` says of each window of the stack which of the shared
variables it has set and what the one below it had set before (`FrameHolds`, `OverHolds`), of the top
one that it waits with them (`TopHolds`), and where `RactiveWindow` points (`ActiveHolds`).
The line editor: `EditorShows` is inductive with the types; `PaintingShows` and the lemmas
after it say which columns a key repaints. The bookmarks: `BookInv` follows a bookmark from the list to
the file (`wanted` is what is in the file, then within the list, then what of it is not
marked, as long as nothing was `torn` or `unread`), `Fits` says that the first row shown is 0 or leaves a full window
below it, if the window was not made higher while it was scrolled; a lower window fits as well.
That the file has each bookmark once is `KeepOnce` of `DataInduction`.

The find window. `FoundIsThere` is about writing and reading: `IndexFile` writes counts and records as
one sequence of fields, `Loaded` cuts what it finds after the first count into fives. That both
agree needs that each record has five fields (so each list has a multiple of five), which an
induction over the depth of the walk (`Walks`) and over the entries of a directory shows together with
what the property says: each record is of a file that is listed where it says (`IsOfFile`). With one count
the fives are the records again; with more they are not, which is the exception of the property.
`RowsShowHits` rests on `HitsHold`: the numbers of the hits go up and are records of the index. So the walk of
`RpaintList` over the index (`RowIsHit`) is at each row where the table of hits says, since
it only ever reads forward to the next number. `ScrollHolds` is the arithmetic of the six keys, with the cases
`below` and `resized` in which the code leaves the selection outside the window.

The new index. `NumbersHold`: an index in place is older than the one that is being made. `MadeHolds`
follows what is told of the index that is made through the two renames: first in `messageprim`, then in the
message while the index is not yet in place, then of the newest index. `CompareIs` says what `RcompareTwoIndexFile`
computes: hosts of the one table that are not in the other (`TableIs`: a table has the hosts of the index, each
once). `AboutHolds`: only the indexer that is between its renames has told of an index that is not
in place; if it is killed there, that is the case `halted`.

The viewer. A line down adds `RfirstLineLen` to the position, and a page down `RPageLen`; that the
result is in the file needs to know from which page the length was measured (`LayoutHolds`: the page that is
shown, with some garbage behind it and some length left from before). `FirstNewline` and `FirstWrapped` say what the layout computes of a page:
a line that ends in the page is not longer than what was read of the file. `LineTurnsAre` and `PageTurnsAre` follow the loops of Up
and page up: each turn goes back by one byte and stops at the beginning of the file.

The panels. `CommanderHolds` has a part for each property: `PanelsHold` (each panel holds the
records that were read for it, with ".." first, as often as they were read, in the order it was given, and its cursor
is inside or astray), `LostHolds` (who ends the program was astray), `PlacesHold` (what a
list was read from, and that one with directories is a list of files, by `DirsAmong`, so that a directory is entered at
another level only from a list that a refused bookmark has left), `ReadHolds` with `Counts` (the attempts made and those left), `LocalsHold` (the
disk). `ArrangedIsSame` and the lemmas before it follow the two nested walks of `RrecSort` and
`RpreSort`: each exchange permutes the records, so every sort does, also the one that forgets the last
record. That they sort goes through `Walked`: with the outer cursor at i and the inner one at c, the records before
i are in order, and the one at i may follow those that c has passed. `ComparedWalks` shows that a
comparison keeps this if what is exchanged and what must not stand in that order `Agree`:
whatever may follow the one record may follow the other after the exchange. `OrdersAgree` derives that
from `OrderAssumption` for an ascending order; for a descending one, in which *equal* records are exchanged too, it
needs that the records can be ranked (`Ranked`), and there is no proof without, since b, ba and bb are not sorted.
`GroupedDivides` says what the grouping leaves behind, directories and then one other kind, for which a list of
the network must not mix kinds (`CommanderAssumption`); `SortSorts` puts the two stretches together. `RemoveSpares` follows `RremoveDir` down a tree, from the directory the path
leads to: `FollowShrinks` and `RealShrinks` say that what a path leads to on a smaller disk is what it led to
before or nothing, so that each record of a delete empties the directory its own path names.

The wrappers. `CopiesFit`: if `dup` fails the table is full, and is still full at the next
system call, which is the `open` that ends smbc; so whoever gets beyond it has both copies.
`Balanced` counts the descriptors. The account: `HeldAccount` says in which of the two pairs the
user's account is at each point of an open.

The copy key. `QueuesEach` speaks of the end of a walk, and `Covers` of every step before it: the
places still to be opened, the places that refused and the files queued have between them all that
is due. None of the first is below another or below a refused place, and no queued file is below any of these, so
that nothing can be queued twice. A step replaces a place by its entries (`OpeningCovered`, which needs
that a directory has each name once, and that what is due below it is below one of its entries: `ChildLeads`
and `ListedAbove`), queues a file (`FileCovered`), notes a refusal (`RefusalCovered`), or drops a place
nothing due is below (`NothingCovered`): a glued path of an upload, which `StartsWell` says is one
that lies deeper than a chosen directory. A record that is queued for a glued path is not among those the
files are counted by (`own` in `QueuesEach`); `QueueGluedStep` shows that it leaves these as they are. When nothing is left to be opened, what is due and not refused is queued.
With ".." among the entries the places are below each other and the invariant says only the types.

`IndexIsWhole` says something of `findfile` only at the end of a long way: the
invariant of `IndexerProofs` follows the file there. `FdFollows` says in which places
of its loop an indexer has a file open; `OneAtWork` that there is one indexer while
no lock was taken beside a living one; `PrimFollows` that this indexer's file is
`findfileprim`, empty, partial and whole in turn, whatever a killed
predecessor left there; `FindFollows` that `findfile` is whole and is not
`findfileprim`, so that no truncation reaches it. `FreeFile` counts names and
indexers to show that a new file can always be created. `IndexersRunOut` is the safety half of `NoneLeftBehind`:
an indexer that tests the lock is at most six steps from its end (`Rank`) when it finds the lock free, and once no instance runs it is free for good.

Data. What a recursive function computes for every sequence is proved in `DataInduction` by
induction over sets: `UpTo` (a set with 0 that goes from each number to the next has all
up to n, from the well-foundedness of finite sets) and `Recursion` (there is a function with such values).
Each recursive function has a lemma that unfolds it so (`PathUpToIs`, `KeepUpToIs`,
`OuterIs`, ...). Operators that take an operator (`SelectSeq`, folds) stay out of reach of this; in modules
with theorems their place is taken by `Keep`, with a set of places.

The windows side by side. `EachMoves` names what a step of `WindowsNext` is for each of the eleven
tuples of variables, a step of that window or a stutter, so each window's specification follows
(`EachWindowAlone`) and with it what is proved of it alone. `WindowsTyped` collects the types from the invariants
of the windows. For three windows these say more than their properties need. In the viewer
`filepos` is a number only because each key sets it from a turn of the loops of Up and page up that stops at
the beginning, or from a position that is not negative (`ViewInv` and `LineTurnsAre` say so, also after the
position -1 that Up leaves in `Rseek`). In the accounts `AccountTyped` needs that a goto window writes
words that were typed, and that a record or a bookmark gives an account (`AccountAssumption`). In the copy key
`CopiesCounted` needs that who is asked has a copy left: it is counted with the answer.
`WindowsAreSafe` is then one theorem that has each promise of the run.

Only model-checked: the liveness properties `Served`, `NoneLeftBehind` and `TakenOver`, which are out of
the prover's reach with the fairness they rest on; the measures that two of them count down are theorems
(`TransfersAdvance`, `IndexersRunOut`). Each other property of a passing run is a theorem.

## 5. Where code and documents differ

The six violated runs, with the lines quoted in `PROJECT.json`:

* smbc.c:3123 - after a failed open of the destination `RdownloadListAct` and
  `RdownloadHandleRD` stay set, so each later call tries the same destination
  (`NextItemServed`);
* smbc.c:2934 - the tests of `upload` in cases 2-4 of `Rchoice` are the wrong way
  round and both descriptors stay open (`RetriesGoOn`);
* smbc.c:3158 - after a failed `fstat` the sizes that were not read are compared
  (`StatFailure`);
* smbc.c:3983 - the number of a new dulist file is searched for, then the file is
  opened without `O_EXCL` (`EachIsSaved`);
* smbc.c:5641 - the indexer of an ended instance does not end if another
  instance is quicker to take the lock (`OneIndexer`);
* smbc.c:1497 - CTRL-f looks up the record after the selected one, and without
  one `kill(0, SIGTERM)` ends smbc (`OnlyQuitLeaves`). A terminal that is enlarged
  while the list is scrolled ends it too (smbc.c:1197).

What the models have as the code does it, and a property names as its exception:

* panels: the last record of a list is never sorted, and two names one of which begins with
  the other are equal, also to the sort: a list with descending names may come out unsorted if it has a name
  that others begin with (aba, bab, ba, baa become baa, ba, bab, aba) (`PanelsSorted`); a cursor put by name may be left in the row below the window,
  and a name that is gone leaves it where it was, from where the next key ends
  the program (`CursorInside`); a bookmark changes the place and the level
  before its list is read, and from the list that stays if it is refused a directory is entered at the new
  level (7306), so that shares or hosts are shown for it (`ListIsOfPlace`); `*` and `+` mark "..", and a
  delete then empties the parent directory, a copy queues what is in it; a delete of a link to a directory empties
  the directory it leads to, elsewhere, and leaves the link (3772: `NothingElseDeleted` counts as chosen the directories that the
  paths of the chosen records lead to, `QueuesEach` leaves the copies of ".." out); a chosen directory that cannot be opened ends smbc;
* smbcrc.1:195-220 bounds the repetitions; an empty list of workgroups, or of shares, or a host with
  only hidden shares is asked for without end (`RetriesCounted`);
* copy: the paths of an upload lack a slash below the second level, and what is there is not
  queued, unless an entry of the directory above has the glued name, which is queued instead, perhaps a second time (`QueuesEach`);
* find: a slow find with several marked records writes a count for each, and the index is read
  with one (`IndexedAreFiles`); a page down near the end
  of the hits selects the last hit but one and leaves the window where it is (smbc.c:4959), although
  ChangeLog:268 says that the selected file is shown, and after a resize, too,
  the selection may be outside the window (`RowsAreHits`);
* bookmarks: the file is removed before it is written (bookmarks.c:211), and all or some of the bookmarks are gone if the new one
  cannot be opened, a write is short or smbc is killed, or if the old one could not be opened when the window was
  (`BookmarksKept`); a window that is made higher while it is scrolled is painted beyond the end of the list, a SIGSEGV
  (smbc.c:6534, 6465: `PaintsInside`);
* line editor: Delete at the end of the text leaves the cursor behind it (`EditorShows`);
  viewer: Up at position 1 seeks to -1 (`ViewInside`);
* mailbox: a message is unlinked by name whoever owns the name by now, also by an smbc that could not open it (smbc.c:6239, 6271), and
  is read while it is written or not to its end (`MailShown`); the text is copied out of freed memory;
* saved lists: a second SIGTERM or SIGINT while the list is being written, or a short write, saves the list once more, so what
  had been written is in two files (smbc.c:5583), and what a child saves is in its parent's list, too (`NothingTwice`);
* indexer: one that could not open `smbc.lock` never looks at the lock and stays when its instance has ended (smbc.c:5628, 5640: `NoneLeftBehind`);
* dialogs: closing a dialog lowers `RdontResizeWindow` for the one below it, a pass of the
  engine starts the alarm again under windows that stopped it, `RactiveWindow` keeps pointing to a
  closed window, and the key 0 in the question about a delete goes on to the next question
  (`DialogsHold`);
* goto window: after a transfer has opened a record behind it OK writes to freed memory
  (`AccountOfEach`); a bookmark sets the password twice and the user never (smbc.c:6734);
  directories of an upload are made, and files to be overwritten removed, with the account of the panel.

Noted while reading, not shown by a run: page up stops at the second record
(1604), and page down can select a record below the window (1593); a record marked inactive while it is
being transferred goes on until something fails (3130-3369 never test `active`);
smbc.texi:411 says the dulist with the smallest number is loaded, `readdir` gives
any; smbcrc: `reversesort-left` and `-right` set the sort method (3672) and smbcrc.1
spells them differently, `autoresume` takes words where smbcrc.1 says 1 and 0 (3688), and a
last line without an end loses its last letter (3628); the first list of the left panel is
reversed as the right panel is configured to be.

## 6. Plan

Done: 1 `DownloadUpload` with its proofs, 2 `TransferQueue` and the refinement,
3 `DuListFiles` and its proofs, 4 `Indexer` and its proofs, 5 `DownloadList` and its proofs, 6 the windows:
`Panel`, `PanelSort`, `Commander`, `CopyKey`, `FindWindow`, `NewIndex`, `Bookmarks`, `Viewer`,
`LineEditor`, `Dialogs`, 7 `Mailbox`, `Wrappers` and `Accounts` with their proofs; proofs of `Commander`, `Dialogs`, `LineEditor`,
`Bookmarks`, `FindWindow`, `NewIndex`, `Viewer` and `CopyKey`, and of all windows side by side (`Windows`).

Left, in this order:

8. Destinations shared by two records in `DownloadUpload` (smbc.c:3097), with the paths of a record.
9. `DuListFormat`: writing and parsing a dulist file, and the tool `dulist`.
10. `HumanSize`, paths, parsing of smbcrc.

## 7. Not modelled

Drawing, texts, the debug log, gettext and the build have no state the rest
reads. The parsing of smbcrc happens once and appears as constants. Character conversion
has no state but the descriptors of iconv. The form that sends a
WinPopup message only starts smbclient. `libsmbclient`, ncurses and the file system appear only as what their calls
may answer. Races of a signal handler with the list it walks (smbc.c:2871) are
undefined behaviour on freed memory and are listed as a hazard without a
property. The functions on strings and paths (`fnet.c`), and `RgetHumanSize`, appear as what they do to
modelled data.
