------------------------------ MODULE CopyKey ------------------------------
(***************************************************************************)
(* The key (d) of the main loop (smbc.c:8055): it asks, and then queues a  *)
(* record of the download/upload list for every file below the chosen      *)
(* entries, walking through directories that may refuse to open            *)
(* (RcreateFileFromDirR from the network, RcreateFileFromDirL to it).      *)
(*                                                                         *)
(* Paths are sequences of names.  A path that the code builds without the  *)
(* slash a file name needs is "glued": it opens as a directory, but a name *)
(* put behind it runs together with the last name of the path, and what is *)
(* opened is the entry of that name in the directory above, if there is    *)
(* one.                                                                    *)
(***************************************************************************)
EXTENDS Integers, Sequences, SequencesExt, FiniteSets, Lists

CONSTANTS
  Trees,       \* side -> path -> its entries, in the order of readdir
  Base,        \* side -> the path of the panel, Radir and RadirL
  RunTogether(_, _),   \* the name that two names make without a slash
  MarkedSets,    \* the sets of entries the user may have marked, by side
  MaxCopies    \* bound: copies by one user

\* Directories have each name once, and are directories where their parents
\* list them, up to the one of the panel ("." and ".." are passed over).
ASSUME TreeAssumption ==
  /\ DOMAIN Trees \subseteq {"left", "right"}
  /\ \A side \in DOMAIN Trees : \A path \in DOMAIN Trees[side] :
       LET entries == Trees[side][path]
       IN  /\ path \in Seq(STRING \ {".."})
           /\ entries \in Seq([name : STRING \ {".."}, kind : STRING])
           /\ \A i, j \in DOMAIN entries : entries[i].name = entries[j].name => i = j
           /\ \A n \in 1..Len(path) : n > Len(Base[side]) /\ IsPrefix(Base[side], path) =>
                LET above == SubSeq(path, 1, n - 1)
                IN  /\ above \in DOMAIN Trees[side]
                    /\ \E e \in ToSet(Trees[side][above]) : e.name = path[n] /\ e.kind = "D"

\* The panel shows the directory it is in, and each of its entries is marked once.
ASSUME MarksAssumption ==
  \A side \in DOMAIN Trees :
    /\ Base[side] \in DOMAIN Trees[side]
    /\ \A names \in MarkedSets[side] :
         /\ names \in Seq(STRING)
         /\ \A i, j \in DOMAIN names : names[i] = names[j] => i = j
         /\ \A i \in DOMAIN names : names[i] # ".." =>
              \E e \in ToSet(Trees[side][Base[side]]) : e.name = names[i]

ASSUME CopiesAssumption == MaxCopies \in Nat

VARIABLES
  levelNow,    \* RremoteLevel
  chosen,      \* what the question is about: side, entries, asked or not
  todo,        \* the walk: what is still to be opened, depth first
  queue,       \* RdownloadList, the records in order
  before,      \* Len(queue) when this walk began
  closedNow,   \* history: what this walk could not open, and below it
  copies
copyVars == <<levelNow, chosen, todo, queue, before, closedNow, copies>>

\* what a path leads to: ".." is resolved by the file systems
ResolvedUpTo(path) ==
  LET upto[i \in 0..Len(path)] ==
        IF i = 0 THEN <<>>
        ELSE IF path[i] # ".." THEN Append(upto[i - 1], path[i])
        ELSE IF upto[i - 1] = <<>> THEN <<>> ELSE Front(upto[i - 1])
  IN  upto
Resolved(path) == ResolvedUpTo(path)[Len(path)]
Entries(side, path) ==
  LET at == Resolved(path)
  IN  IF at \in DOMAIN Trees[side] THEN Trees[side][at] ELSE <<>>
KindOf(side, path, name) ==
  IF side = "right" /\ levelNow = "network" THEN "W"     \* groups, hosts, shares
  ELSE IF name = ".." THEN "D"
  ELSE (CHOOSE e \in ToSet(Entries(side, path)) : e.name = name).kind

Nobody == [side |-> "left", names |-> <<>>, at |-> "panel"]

CopyInit ==
  /\ levelNow \in {"network", "files"} /\ chosen = Nobody
  /\ todo = <<>> /\ queue = <<>> /\ before = 0 /\ closedNow = {} /\ copies = 0

(***************************************************************************)
(* The key.  Marked records are copied at any level (RexistAnySelect), the *)
(* record under the cursor only where there are files, and never "..".     *)
(* The marks stay when the walk is over, so that the same entries may be   *)
(* queued again.                                                           *)
(***************************************************************************)
PressCopy ==
  /\ chosen.at = "panel" /\ copies < MaxCopies
  /\ \E side \in DOMAIN Trees :
       \E names \in MarkedSets[side] : \E marked \in BOOLEAN :
         /\ \/ marked
            \/ levelNow = "files" /\ Len(names) = 1 /\ names # <<"..">>
         /\ chosen' = [side |-> side, names |-> names, at |-> "asked"]
  /\ UNCHANGED <<levelNow, todo, queue, before, closedNow, copies>>

RefuseCopy ==
  /\ chosen.at = "asked" /\ chosen' = Nobody
  /\ UNCHANGED <<levelNow, todo, queue, before, closedNow, copies>>

\* an entry of the walk: RsmbDownloadDir or RsmbDownloadFile with its path
Entry(side, path, name, glued) ==
  [kind |-> KindOf(side, path, name), path |-> path, name |-> name, glued |-> glued]

\* RcreateFileFromDirR and RcreateFileFromDirL, called for each chosen record
AgreeCopy ==
  /\ chosen.at = "asked" /\ chosen' = [chosen EXCEPT !.at = "walk"]
  /\ LET from == Base[chosen.side]
     IN  todo' = [i \in DOMAIN chosen.names |->
                    Entry(chosen.side, from, chosen.names[i], FALSE)]
  /\ before' = Len(queue) /\ closedNow' = {} /\ copies' = copies + 1
  /\ UNCHANGED <<levelNow, queue>>

(***************************************************************************)
(* One step of the walk.  In the download a sub-directory gets its slash;  *)
(* in the upload the first directory has one and each below it is built as *)
(* Rname, "/" and the name, so that the files in it are looked for under a *)
(* glued path.  The download takes directories and files, the upload       *)
(* everything that is not a directory as a file.                           *)
(***************************************************************************)
IsFile(side, e) == e.kind = "F" \/ (side = "left" /\ e.kind # "D")
Walking == chosen.at = "walk" /\ todo # <<>>
Next1  == Head(todo)
Full(e) == Append(e.path, e.name)
TakenFiles(side, e) == e.kind \in {"D", "F"}         \* a slip
Taken(side, e)      == side = "left" \/ e.kind \in {"D", "F"}
GluedBelow(side, e) == side = "left" /\ e.path # Base["left"]

Below(side, e) ==
  LET all    == Entries(side, Full(e))
      inside == Keep(all, {i \in DOMAIN all : Taken(side, all[i])})
  IN  [i \in DOMAIN inside |->
         [kind |-> inside[i].kind, path |-> Full(e), name |-> inside[i].name,
          glued |-> GluedBelow(side, e)]]

WalkOn(rest) == /\ todo' = rest
                /\ UNCHANGED <<levelNow, chosen, before, copies>>

OpenDir ==
  /\ Walking /\ Next1.kind = "D"
  /\ WalkOn(Below(chosen.side, Next1) \o Tail(todo))
  /\ UNCHANGED <<queue, closedNow>>

\* opendir fails, and the walk goes on behind the directory
DirClosed ==
  /\ Walking /\ Next1.kind = "D" /\ WalkOn(Tail(todo))
  /\ closedNow' = closedNow \cup {Resolved(Full(Next1))} /\ UNCHANGED queue

\* open and fstat succeed: RaddOneTTdownloadToLast
QueueFile ==
  /\ Walking /\ Next1.kind # "D" /\ ~Next1.glued /\ WalkOn(Tail(todo))
  /\ IsFile(chosen.side, Next1)
  /\ queue' = Append(queue, [side |-> chosen.side, path |-> Next1.path,
                             name |-> Next1.name])
  /\ UNCHANGED closedNow

\* a glued path may be that of another entry, which is queued in its place, also
\* if it is a directory
GluedPath(file) ==
  LET n == Len(file)
  IN  Append(SubSeq(file, 1, n - 2), RunTogether(file[n - 1], file[n]))
IsThere(side, path) ==
  \E e \in ToSet(Entries(side, Front(path))) : e.name = Last(path)

QueueGlued ==
  /\ Walking /\ Next1.kind # "D" /\ Next1.glued /\ WalkOn(Tail(todo))
  /\ IsThere(chosen.side, GluedPath(Full(Next1)))
  /\ queue' = Append(queue, [side |-> chosen.side, path |-> Next1.path,
                             name |-> Next1.name])
  /\ UNCHANGED closedNow

\* they do not: the descriptor is closed, and nothing is said
FileClosed ==
  /\ Walking /\ Next1.kind # "D" /\ WalkOn(Tail(todo))
  /\ closedNow' = IF Next1.glued THEN closedNow
                  ELSE closedNow \cup {Resolved(Full(Next1))}
  /\ UNCHANGED queue

\* the list goes back to its first record, the panels are painted again
EndWalk ==
  /\ chosen.at = "walk" /\ todo = <<>> /\ chosen' = [chosen EXCEPT !.at = "done"]
  /\ UNCHANGED <<levelNow, todo, queue, before, closedNow, copies>>
NextKey ==
  /\ chosen.at = "done" /\ chosen' = Nobody
  /\ UNCHANGED <<levelNow, todo, queue, before, closedNow, copies>>

CopyNext == \/ PressCopy \/ RefuseCopy \/ AgreeCopy \/ OpenDir \/ DirClosed
            \/ QueueFile \/ QueueGlued \/ FileClosed \/ EndWalk \/ NextKey

----------------------------------------------------------------------------
CopyTypeOK ==
  /\ levelNow \in {"network", "files"} /\ copies \in 0..MaxCopies
  /\ chosen.at \in {"panel", "asked", "walk", "done"} /\ before \in 0..Len(queue)
  /\ todo # <<>> => chosen.at = "walk"

\* the files of a tree at or below a path, and the part of a path's way that
\* a directory that did not open cuts off
FilesOf(side) == UNION {{Append(d, e.name) : e \in {x \in ToSet(Trees[side][d]) :
                           IsFile(side, x)}} : d \in DOMAIN Trees[side]}
Wanted == {Resolved(Append(Base[chosen.side], chosen.names[i])) : i \in DOMAIN chosen.names}
CutOff(file) == \E c \in closedNow : IsPrefix(c, file)
Deep(file)   == chosen.side = "left" /\ Len(file) > Len(Base["left"]) + 2

\* What a copy has queued when it is over are files that are there, each once, and
\* all of those below the chosen entries that could be opened; an upload queues only
\* what is in a chosen directory itself (smbc.c:3379, 3477), and further down no more
\* than records whose path and name run together into that of another entry.  Where
\* ".." is among the entries the directory of the panel is below it and below itself,
\* so those copies are left out.
QueuesEach ==
  chosen.at = "done" /\ ".." \notin ToSet(chosen.names) =>
    LET new == SubSeq(queue, before + 1, Len(queue))
        got == [i \in DOMAIN new |-> Append(new[i].path, new[i].name)]
        own == {i \in DOMAIN new : ~Deep(got[i])}
        due == {f \in FilesOf(chosen.side) :
                  /\ \E w \in Wanted : IsPrefix(w, f)
                  /\ ~CutOff(f) /\ ~Deep(f)}
    IN  /\ \A i, j \in own : got[i] = got[j] => i = j
        /\ {got[i] : i \in own} = due
        /\ \A i \in DOMAIN new \ own : IsThere(chosen.side, GluedPath(got[i]))
============================================================================
