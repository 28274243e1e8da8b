------------------------ MODULE DownloadUploadProofs ------------------------
(* Proofs about DownloadUpload, and that it implements TransferQueue.       *)
EXTENDS DownloadUpload, DataInduction

(* A size below 2^31 survives the conversion to int.                       *)
LEMMA AsIntSmall ==
  ASSUME NEW n \in Nat, n < IntHalf
  PROVE  AsInt(n) = n
  BY ConstantsOK DEF AsInt

-----------------------------------------------------------------------------
(* The inductive invariant. FinishedIsWhole is not inductive: it rests on  *)
(* ListedIsUnfinished (a record is dropped once) and on PrefixFits (nothing *)
(* is written beyond the source).                                          *)
Inv == /\ TypeOK /\ HandlesFollowAct /\ NoDuplicates
       /\ ListedIsUnfinished /\ PrefixFits /\ FinishedIsWhole

(* The fields of a freed record are typed.                                 *)
LEMMA BlankIsRecord == Blank \in Record
  BY ConstantsOK DEF Blank, Record, Mark

(* What remains of the list when the record at k is freed.                 *)
LEMMA FreeLemma ==
  ASSUME TypeOK, NoDuplicates, NEW k \in 1..Len(list), Free(k)
  PROVE  /\ list' \in Seq(Item)
         /\ rec' \in [Item -> Record]
         /\ NoDuplicates'
         /\ \A i \in Item : InList(i)' <=> InList(i) /\ i # list[k]
  <1> DEFINE n == Len(list)
  <1>1. n \in Nat /\ list \in Seq(Item)
    BY LenProperties DEF TypeOK
  <1>2. /\ list' \in Seq(Item) /\ Len(list') = n - 1
        /\ \A j \in 1..(n - 1) : list'[j] = IF j < k THEN list[j] ELSE list[j + 1]
    BY <1>1, RemoveAtLemma DEF Free
  <1>3. rec' \in [Item -> Record]
    BY BlankIsRecord DEF Free, TypeOK
  <1>4. NoDuplicates'
    BY <1>1, <1>2 DEF NoDuplicates
  <1>5. ASSUME NEW i \in Item PROVE InList(i)' <=> InList(i) /\ i # list[k]
    <2>1. InList(i) <=> \E j \in 1..n : list[j] = i
      BY <1>1 DEF InList, Range
    <2>2. InList(i)' <=> \E j \in 1..(n - 1) : list'[j] = i
      BY <1>1, <1>2 DEF InList, Range
    <2>3. ASSUME NEW j \in 1..(n - 1), list'[j] = i PROVE InList(i) /\ i # list[k]
      BY <2>1, <2>3, <1>1, <1>2 DEF NoDuplicates
    <2>4. ASSUME NEW j \in 1..n, list[j] = i, j # k PROVE InList(i)'
      <3>1. CASE j < k
        BY <3>1, <2>2, <2>4, <1>1, <1>2
      <3>2. CASE j > k
        <4>1. j - 1 \in 1..(n - 1) /\ list'[j - 1] = list[j]
          BY <3>2, <1>1, <1>2
        <4> QED BY <4>1, <2>2, <2>4
      <3> QED BY <3>1, <3>2, <2>4, <1>1
    <2> QED BY <2>1, <2>2, <2>3, <2>4
  <1> QED BY <1>2, <1>3, <1>4, <1>5

(* Steps that neither change the list nor drop a record.                   *)
LEMMA SameList ==
  ASSUME Inv, UNCHANGED <<list, fate>>, TypeOK', HandlesFollowAct', PrefixFits',
         \A i \in Item : ~InList(i) => file'[i] = file[i]
  PROVE  Inv'
  <1>1. \A i \in Item : InList(i)' <=> InList(i)
    BY DEF InList, Range
  <1>2. NoDuplicates'
    BY DEF Inv, NoDuplicates
  <1>3. ListedIsUnfinished'
    BY <1>1 DEF Inv, ListedIsUnfinished
  <1>4. FinishedIsWhole'
    BY <1>1 DEF Inv, FinishedIsWhole
  <1> QED BY <1>2, <1>3, <1>4 DEF Inv

-----------------------------------------------------------------------------
(* The engine.                                                             *)

LEMMA RemoveActLemma ==
  ASSUME Inv, NEW why \in {"none", "done", "blind"}, RemoveAct(why)
  PROVE  /\ list' \in Seq(Item) /\ rec' \in [Item -> Record]
         /\ fate' \in [Item -> {"none", "done", "blind"}]
         /\ act' = None /\ rd' = None /\ wr' = None /\ leaked' = leaked
         /\ act \in Item /\ fate'[act] = why
         /\ \A i \in Item \ {act} : fate'[i] = fate[i]
         /\ \A i \in Item : InList(i)' <=> InList(i) /\ i # act
         /\ NoDuplicates' /\ ListedIsUnfinished' /\ HandlesFollowAct'
  <1>1. PICK k \in 1..Len(list) : list[k] = act /\ Free(k)
    BY DEF RemoveAct
  <1>2. /\ list' \in Seq(Item) /\ rec' \in [Item -> Record] /\ NoDuplicates'
        /\ \A i \in Item : InList(i)' <=> InList(i) /\ i # act
    BY <1>1, FreeLemma DEF Inv
  <1>3. act \in Item
    BY <1>1, ElementOfSeq DEF Inv, TypeOK
  <1>4. /\ fate' \in [Item -> {"none", "done", "blind"}]
        /\ fate'[act] = why /\ \A i \in Item \ {act} : fate'[i] = fate[i]
    BY <1>3 DEF RemoveAct, Inv, TypeOK
  <1>5. act' = None /\ rd' = None /\ wr' = None /\ leaked' = leaked
    BY DEF RemoveAct, Drop
  <1>6. HandlesFollowAct'
    BY <1>5 DEF HandlesFollowAct
  <1>7. ListedIsUnfinished'
    BY <1>2, <1>4 DEF Inv, ListedIsUnfinished
  <1> QED BY <1>2, <1>3, <1>4, <1>5, <1>6, <1>7

(* What a dialog leaves of a record is a record.                           *)
LEMMA EditedLemma ==
  ASSUME TypeOK, act \in Item, NEW b \in BOOLEAN, NEW r \in Edited(b)
  PROVE  r \in Record
  <1>1. rec[act] \in Record
    BY DEF TypeOK
  <1>2. CASE r = rec[act]
    BY <1>1, <1>2
  <1>3. ASSUME NEW d \in 0..MaxDelay,
               r = [rec[act] EXCEPT !.delay = d, !.due = IF b THEN d + 1 ELSE @]
        PROVE  r \in Record
    <2>1. /\ rec[act] = [active |-> rec[act].active, delay |-> rec[act].delay,
                         due |-> rec[act].due]
          /\ rec[act].active \in Mark /\ rec[act].due \in 0..(MaxDelay + 1)
      BY <1>1 DEF Record
    <2>2. CASE b
      <3>1. r = [active |-> rec[act].active, delay |-> d, due |-> d + 1]
        BY <1>3, <2>1, <2>2
      <3>2. d + 1 \in 0..(MaxDelay + 1)
        BY ConstantsOK
      <3> QED BY <2>1, <3>1, <3>2 DEF Record
    <2>3. CASE ~b
      <3>1. r = [active |-> rec[act].active, delay |-> d, due |-> rec[act].due]
        BY <1>3, <2>1, <2>3
      <3> QED BY <2>1, <3>1 DEF Record
    <2> QED BY <2>2, <2>3
  <1> QED BY <1>2, <1>3 DEF Edited

(* Waiting or retrying (Rchoice 2, 3 and 4) keeps the invariant, for any   *)
(* length n the destination has reached.                                   *)
LEMMA AbandonLemma ==
  ASSUME Inv, act \in Item, UNCHANGED <<mode, net, room>>,
         ask' \in [{"retry", "full"} -> BOOLEAN],
         NEW r \in Record, NEW n \in Nat, NEW open \in BOOLEAN,
         file[act].same => n <= SizeOf[act], Abandon(r, n, open)
  PROVE  Inv'
  <1>1. /\ file' \in [Item -> File] /\ file'[act] = [file[act] EXCEPT !.len = n]
        /\ \A i \in Item \ {act} : file'[i] = file[i]
    BY DEF Abandon, Inv, TypeOK, File
  <1>2. TypeOK'
    BY <1>1 DEF Abandon, Drop, Inv, TypeOK
  <1>3. HandlesFollowAct'
    BY DEF Abandon, Drop, HandlesFollowAct
  <1>4. PrefixFits'
    <2>1. file'[act].same = file[act].same /\ file'[act].len = n
      BY <1>1 DEF Inv, TypeOK, File
    <2> QED BY <1>1, <2>1 DEF Inv, PrefixFits
  <1>5. act # None
    BY ConstantsOK
  <1>6. UNCHANGED <<list, fate>> /\ InList(act)
    BY <1>5 DEF Abandon, Inv, HandlesFollowAct
  <1> QED BY <1>1, <1>2, <1>3, <1>4, <1>6, SameList

(* Overwriting (Rchoice 1) keeps the invariant, whether the new            *)
(* destination could be opened or not.                                     *)
LEMMA OverwriteLemma ==
  ASSUME Inv, act \in Item, UNCHANGED <<mode, net, room>>,
         ask' \in [{"retry", "full"} -> BOOLEAN],
         NEW r \in Record, NEW n \in Nat, NEW open \in BOOLEAN,
         file[act].same => n <= SizeOf[act], Overwrite(r, n, open)
  PROVE  Inv'
  <1>1. \/ file' = [file EXCEPT ![act] = [len |-> 0, same |-> TRUE]]
        \/ file' = [file EXCEPT ![act].len = n]
    BY DEF Overwrite
  <1>2. /\ file' \in [Item -> File]
        /\ \A i \in Item \ {act} : file'[i] = file[i]
        /\ file'[act].same => file'[act].len <= SizeOf[act]
    <2>1. CASE file' = [file EXCEPT ![act] = [len |-> 0, same |-> TRUE]]
      <3>1. [len |-> 0, same |-> TRUE] \in File
        BY DEF File
      <3>2. /\ file' \in [Item -> File] /\ file'[act].len = 0
            /\ \A i \in Item \ {act} : file'[i] = file[i]
        BY <2>1, <3>1 DEF Inv, TypeOK
      <3>3. SizeOf[act] \in Nat
        BY ConstantsOK
      <3> QED BY <3>2, <3>3
    <2>2. CASE file' = [file EXCEPT ![act].len = n]
      <3>1. file[act] \in File /\ [file[act] EXCEPT !.len = n] \in File
        BY DEF Inv, TypeOK, File
      <3>2. /\ file' \in [Item -> File] /\ file'[act] = [file[act] EXCEPT !.len = n]
            /\ \A i \in Item \ {act} : file'[i] = file[i]
        BY <2>2, <3>1 DEF Inv, TypeOK
      <3>3. file'[act].same = file[act].same /\ file'[act].len = n
        BY <3>1, <3>2 DEF File
      <3> QED BY <3>2, <3>3
    <2> QED BY <1>1, <2>1, <2>2
  <1>3. leaked' \in Nat
    BY DEF Overwrite, Inv, TypeOK
  <1>4. TypeOK'
    BY <1>2, <1>3 DEF Overwrite, Inv, TypeOK
  <1>5. act # None
    BY ConstantsOK
  <1>6. UNCHANGED <<list, fate, act>> /\ InList(act) /\ rd' = None /\ wr' = None
    BY <1>5 DEF Overwrite, Inv, HandlesFollowAct
  <1>7. HandlesFollowAct'
    BY <1>6 DEF HandlesFollowAct, InList, Range
  <1>8. PrefixFits'
    BY <1>2 DEF Inv, PrefixFits
  <1> QED BY <1>2, <1>4, <1>6, <1>7, <1>8, SameList

(* "Without asking" only turns a question off.                             *)
LEMMA AskLemma ==
  ASSUME TypeOK, NEW q \in {"retry", "full"}, NEW v,
         ask' = IF v = 4 THEN [ask EXCEPT ![q] = FALSE] ELSE ask
  PROVE  ask' \in [{"retry", "full"} -> BOOLEAN]
  BY DEF TypeOK

(* A dialog is answered when the destination has n blocks, n not beyond    *)
(* the source.                                                             *)
LEMMA ChoiceLemma ==
  ASSUME Inv, act \in Item, UNCHANGED <<mode, net, room>>,
         NEW q \in {"retry", "full"}, NEW v \in Nat, NEW r \in Record,
         NEW n \in Nat, NEW open \in BOOLEAN,
         file[act].same => n <= SizeOf[act], Choice(v, q, r, n, open)
  PROVE  Inv'
  <1>1. ask' \in [{"retry", "full"} -> BOOLEAN]
    BY AskLemma DEF Inv, Choice
  <1>2. CASE RemoveAct("none") /\ file' = [file EXCEPT ![act].len = n]
    <2>1. /\ list' \in Seq(Item) /\ rec' \in [Item -> Record]
          /\ fate' \in [Item -> {"none", "done", "blind"}]
          /\ act' = None /\ rd' = None /\ wr' = None /\ leaked' = leaked
          /\ fate'[act] = "none"
          /\ \A i \in Item \ {act} : fate'[i] = fate[i]
          /\ \A i \in Item : InList(i)' <=> InList(i) /\ i # act
          /\ NoDuplicates' /\ ListedIsUnfinished' /\ HandlesFollowAct'
      BY <1>2, RemoveActLemma
    <2>2. file[act] \in File /\ [file[act] EXCEPT !.len = n] \in File
      BY DEF Inv, TypeOK, File
    <2>3. /\ file' \in [Item -> File] /\ file'[act] = [file[act] EXCEPT !.len = n]
          /\ \A i \in Item \ {act} : file'[i] = file[i]
      BY <1>2, <2>2 DEF Inv, TypeOK
    <2>4. file'[act].same = file[act].same /\ file'[act].len = n
      BY <2>2, <2>3 DEF File
    <2>5. TypeOK'
      BY <1>1, <2>1, <2>3 DEF Inv, TypeOK
    <2>6. PrefixFits'
      BY <2>3, <2>4 DEF Inv, PrefixFits
    <2>7. FinishedIsWhole'
      BY <2>1, <2>3 DEF Inv, FinishedIsWhole
    <2> QED BY <2>1, <2>5, <2>6, <2>7 DEF Inv
  <1>3. CASE Overwrite(r, n, open)
    BY <1>1, <1>3, OverwriteLemma
  <1>4. CASE Abandon([r EXCEPT !.active = "W"], n, open)
    <2>1. [r EXCEPT !.active = "W"] \in Record
      BY DEF Record, Mark
    <2> QED BY <1>1, <1>4, <2>1, AbandonLemma
  <1>5. CASE Abandon(r, n, open)
    BY <1>1, <1>5, AbandonLemma
  <1> QED BY <1>2, <1>3, <1>4, <1>5 DEF Choice

(* A position of the list holds an item, and that item is in the list.     *)
LEMMA ListElement ==
  ASSUME TypeOK, NEW k \in 1..Len(list)
  PROVE  list[k] \in Item /\ InList(list[k])
  <1>1. Len(list) \in Nat /\ list \in [1..Len(list) -> Item]
    BY LenProperties DEF TypeOK
  <1> QED BY <1>1 DEF InList, Range

(* Setting nextRetry keeps the record typed.                               *)
LEMMA NextRetryLemma ==
  ASSUME TypeOK, NEW i \in Item, NextRetry(i)
  PROVE  rec' \in [Item -> Record]
  <1>1. rec[i].delay \in 0..MaxDelay /\ rec[i] \in Record
    BY DEF TypeOK, Record
  <1>2. rec[i].delay + 1 \in 0..(MaxDelay + 1)
    BY <1>1, ConstantsOK
  <1>3. [rec[i] EXCEPT !.due = rec[i].delay + 1] \in Record
    BY <1>1, <1>2 DEF Record
  <1> QED BY <1>3 DEF NextRetry, TypeOK

(* Looking for the next record to start with keeps the invariant.          *)
LEMMA ScanStep ==
  ASSUME Inv, Scan, UNCHANGED <<mode, net, room>>
  PROVE  Inv'
  <1>1. UNCHANGED <<list, wr, leaked, file, fate, ask>> /\ rd = None
    BY DEF Scan
  <1>2. wr = None
    BY <1>1 DEF Inv, HandlesFollowAct
  <1>3. /\ act' \in Item \cup {None} /\ rd' \in {None, act'}
        /\ act' # None => InList(act')
        /\ rec' \in [Item -> Record]
    <2>1. CASE act' = None /\ UNCHANGED <<rec, rd>>
      BY <1>1, <2>1 DEF Inv, TypeOK
    <2>2. ASSUME NEW k \in 1..Len(list),
                 \/ act' = list[k] /\ rd' = list[k] /\ UNCHANGED rec
                 \/ act' = None /\ NextRetry(list[k]) /\ UNCHANGED rd
          PROVE  /\ act' \in Item \cup {None} /\ rd' \in {None, act'}
                 /\ act' # None => InList(act')
                 /\ rec' \in [Item -> Record]
      <3>1. list[k] \in Item /\ InList(list[k])
        BY ListElement DEF Inv
      <3>2. CASE act' = list[k] /\ rd' = list[k] /\ UNCHANGED rec
        BY <3>1, <3>2 DEF Inv, TypeOK
      <3>3. CASE act' = None /\ NextRetry(list[k]) /\ UNCHANGED rd
        BY <1>1, <3>1, <3>3, NextRetryLemma DEF Inv
      <3> QED BY <2>2, <3>2, <3>3
    <2> QED BY <2>1, <2>2 DEF Scan, IsNext
  <1>4. TypeOK'
    BY <1>1, <1>3 DEF Inv, TypeOK
  <1>5. HandlesFollowAct'
    BY <1>1, <1>2, <1>3 DEF HandlesFollowAct, InList, Range
  <1>6. PrefixFits'
    BY <1>1 DEF Inv, PrefixFits
  <1> QED BY <1>1, <1>4, <1>5, <1>6, SameList

(* Opening the destination keeps the invariant.                            *)
LEMMA OpenTargetStep ==
  ASSUME Inv, OpenTarget, UNCHANGED <<mode, net, room>>
  PROVE  Inv'
  <1>1. /\ UNCHANGED <<list, act, rd, leaked, file, fate, ask>>
        /\ act \in Item /\ rd = act
    BY DEF OpenTarget, Inv, TypeOK, HandlesFollowAct
  <1>2. wr' \in {None, act} /\ rec' \in [Item -> Record]
    BY <1>1, NextRetryLemma DEF OpenTarget, Inv, TypeOK
  <1>3. TypeOK'
    BY <1>1, <1>2 DEF Inv, TypeOK
  <1>4. HandlesFollowAct'
    BY <1>1, <1>2 DEF Inv, HandlesFollowAct, InList, Range
  <1>5. PrefixFits'
    BY <1>1 DEF Inv, PrefixFits
  <1> QED BY <1>1, <1>3, <1>4, <1>5, SameList

(* While both handles are open the record of the engine is in the list.    *)
LEMMA BothOpenLemma ==
  ASSUME Inv, BothOpen
  PROVE  act \in Item /\ rd = act /\ wr = act /\ InList(act)
  BY DEF Inv, TypeOK, HandlesFollowAct, BothOpen

(* Steps that only leave a record as a dialog or the user set it.          *)
LEMMA OnlyRecord ==
  ASSUME Inv, rec' \in [Item -> Record],
         UNCHANGED <<list, act, rd, wr, leaked, file, fate, ask>>,
         mode' \in {"main", "edit", "purge", "down"}, net' \in BOOLEAN, room' \in BOOLEAN
  PROVE  Inv'
  <1>1. TypeOK'
    BY DEF Inv, TypeOK
  <1>2. HandlesFollowAct'
    BY DEF Inv, HandlesFollowAct, InList, Range
  <1>3. PrefixFits'
    BY DEF Inv, PrefixFits
  <1> QED BY <1>1, <1>2, <1>3, SameList

(* Dropping a record as finished keeps the invariant: its destination      *)
(* holds the whole source, as FinishedIsWhole asks.                        *)
LEMMA FinishStep ==
  ASSUME Inv, Finish, UNCHANGED <<mode, net, room>>
  PROVE  Inv'
  <1>1. /\ list' \in Seq(Item) /\ rec' \in [Item -> Record]
        /\ fate' \in [Item -> {"none", "done", "blind"}]
        /\ act' = None /\ rd' = None /\ wr' = None /\ leaked' = leaked
        /\ act \in Item /\ fate'[act] = "done"
        /\ \A i \in Item \ {act} : fate'[i] = fate[i]
        /\ \A i \in Item : InList(i)' <=> InList(i) /\ i # act
        /\ NoDuplicates' /\ ListedIsUnfinished' /\ HandlesFollowAct'
    BY RemoveActLemma DEF Finish
  <1>2. UNCHANGED <<file, ask>>
    BY DEF Finish
  <1>3. TypeOK'
    BY <1>1, <1>2 DEF Inv, TypeOK
  <1>4. PrefixFits'
    BY <1>2 DEF Inv, PrefixFits
  <1>5. ASSUME file[act].same, SizeOf[act] < IntHalf
        PROVE  file[act].len = SizeOf[act]
    <2>1. SizeOf[act] \in Nat /\ file[act].len \in Nat
      BY <1>1, ConstantsOK DEF Inv, TypeOK, File
    <2>2. file[act].len <= SizeOf[act]
      BY <1>1, <1>5 DEF Inv, PrefixFits
    <2>3. AsInt(file[act].len) >= AsInt(SizeOf[act])
      BY DEF Finish
    <2>4. IntHalf \in Nat
      BY ConstantsOK
    <2>5. AsInt(file[act].len) = file[act].len /\ AsInt(SizeOf[act]) = SizeOf[act]
      BY <1>5, <2>1, <2>2, <2>4, AsIntSmall
    <2> QED BY <2>1, <2>2, <2>3, <2>5
  <1>6. FinishedIsWhole'
    BY <1>1, <1>2, <1>5 DEF Inv, FinishedIsWhole
  <1> QED BY <1>1, <1>3, <1>4, <1>6 DEF Inv

(* A failed fstat keeps the invariant in each of its outcomes.             *)
LEMMA StatFailsStep ==
  ASSUME Inv, StatFails, UNCHANGED <<mode, net, room>>
  PROVE  Inv'
  <1>1. act \in Item /\ rd = act /\ wr = act /\ InList(act)
    BY BothOpenLemma DEF StatFails
  <1>2. CASE RemoveAct("blind") /\ UNCHANGED <<file, ask>>
    <2>1. /\ list' \in Seq(Item) /\ rec' \in [Item -> Record]
          /\ fate' \in [Item -> {"none", "done", "blind"}]
          /\ act' = None /\ rd' = None /\ wr' = None /\ leaked' = leaked
          /\ fate'[act] = "blind"
          /\ \A i \in Item \ {act} : fate'[i] = fate[i]
          /\ \A i \in Item : InList(i)' <=> InList(i) /\ i # act
          /\ NoDuplicates' /\ ListedIsUnfinished' /\ HandlesFollowAct'
      BY <1>2, RemoveActLemma
    <2>2. TypeOK'
      BY <1>2, <2>1 DEF Inv, TypeOK
    <2>3. PrefixFits'
      BY <1>2 DEF Inv, PrefixFits
    <2>4. FinishedIsWhole'
      BY <1>2, <2>1 DEF Inv, FinishedIsWhole
    <2> QED BY <2>1, <2>2, <2>3, <2>4 DEF Inv
  <1>3. ASSUME rd' = None, wr' = None, UNCHANGED <<list, act, leaked, file, fate, ask>>,
               NEW r \in Edited(TRUE) \cup {rec[act]}, rec' = [rec EXCEPT ![act] = r]
        PROVE  Inv'
    <2>1. r \in Record
      BY <1>1, <1>3, EditedLemma DEF Inv, TypeOK
    <2>2. TypeOK'
      BY <1>3, <2>1 DEF Inv, TypeOK
    <2>3. HandlesFollowAct'
      BY <1>3 DEF Inv, HandlesFollowAct, InList, Range
    <2>4. PrefixFits'
      BY <1>3 DEF Inv, PrefixFits
    <2> QED BY <1>3, <2>2, <2>3, <2>4, SameList
  <1>4. ASSUME NEW v \in Answer("retry", 4), NEW r \in Edited(TRUE),
               Choice(v, "retry", r, file[act].len, FALSE)
        PROVE  Inv'
    <2>1. r \in Record
      BY <1>1, EditedLemma DEF Inv
    <2>3. v \in Nat
      BY DEF Answer
    <2>2. /\ file[act].len \in Nat
          /\ file[act].same => file[act].len <= SizeOf[act]
      BY <1>1 DEF Inv, TypeOK, File, PrefixFits
    <2> QED BY <1>1, <1>4, <2>1, <2>2, <2>3, ChoiceLemma
  <1> QED BY <1>2, <1>3, <1>4 DEF StatFails

(* Copying one buffer, also in part, keeps the invariant: what is written  *)
(* ends within the source.                                                 *)
LEMMA TransferStep ==
  ASSUME Inv, BothOpen, NEW r \in Record, Transfer(r), UNCHANGED <<mode, net, room>>
  PROVE  Inv'
  <1> DEFINE len == file[act].len
  <1>1. act \in Item /\ rd = act /\ wr = act /\ InList(act)
    BY BothOpenLemma
  <1>2. file[act] \in File /\ len \in Nat /\ SizeOf[act] \in Nat
    BY <1>1, ConstantsOK DEF Inv, TypeOK, File
  <1>3. CASE /\ rec' = [rec EXCEPT ![act] = r]
             /\ UNCHANGED <<list, act, rd, wr, leaked, file, fate, ask>>
    <2>1. rec' \in [Item -> Record]
      BY <1>3 DEF Inv, TypeOK
    <2> QED BY <1>3, <2>1, OnlyRecord DEF Inv, TypeOK
  <1>4. ASSUME NEW k \in Read(act) PROVE k \in Nat /\ len + k <= SizeOf[act]
    BY ConstantsOK DEF Read
  <1>5. ASSUME NEW k \in Read(act),
               file' = [file EXCEPT ![act].len = len + k],
               rec' = [rec EXCEPT ![act] = r],
               UNCHANGED <<list, act, rd, wr, leaked, fate, ask>>
        PROVE  Inv'
    <2>1. k \in Nat /\ len + k <= SizeOf[act]
      BY <1>4
    <2>2. [file[act] EXCEPT !.len = len + k] \in File
      BY <1>2, <2>1 DEF File
    <2>3. /\ file' \in [Item -> File] /\ file'[act] = [file[act] EXCEPT !.len = len + k]
          /\ \A i \in Item \ {act} : file'[i] = file[i]
      BY <1>1, <1>5, <2>2 DEF Inv, TypeOK
    <2>4. file'[act].len = len + k
      BY <1>2, <2>3 DEF File
    <2>5. TypeOK'
      BY <1>5, <2>3 DEF Inv, TypeOK
    <2>6. HandlesFollowAct'
      BY <1>5 DEF Inv, HandlesFollowAct, InList, Range
    <2>7. PrefixFits'
      BY <2>1, <2>3, <2>4 DEF Inv, PrefixFits
    <2> QED BY <1>1, <1>5, <2>3, <2>5, <2>6, <2>7, SameList
  <1>6. ASSUME NEW k \in Read(act), NEW w \in 0..(k - 1), NEW v \in Answer("full", 4),
               Choice(v, "full", r, len + w, TRUE)
        PROVE  Inv'
    <2>1. v \in Nat
      BY DEF Answer
    <2>2. len + w \in Nat /\ len + w <= SizeOf[act]
      BY <1>2, <1>4
    <2> QED BY <1>1, <1>6, <2>1, <2>2, ChoiceLemma
  <1> QED BY <1>3, <1>5, <1>6 DEF Transfer

(* Comparing the tail and then copying keeps the invariant.                *)
LEMMA CopyStep ==
  ASSUME Inv, Copy, UNCHANGED <<mode, net, room>>
  PROVE  Inv'
  <1>1. BothOpen /\ act \in Item
    BY BothOpenLemma DEF Copy
  <1>2. CASE Transfer(rec[act])
    <2>1. rec[act] \in Record
      BY <1>1 DEF Inv, TypeOK
    <2> QED BY <1>1, <1>2, <2>1, TransferStep
  <1>3. ASSUME NEW v \in Answer("retry", 5), NEW r \in Edited(~net),
               \/ v < 5 /\ Choice(v, "retry", r, file[act].len, TRUE)
               \/ v = 5 /\ Transfer(r)
        PROVE  Inv'
    <2>1. r \in Record
      BY <1>1, EditedLemma DEF Inv, TypeOK
    <2>2. CASE Choice(v, "retry", r, file[act].len, TRUE)
      <3>1. v \in Nat
        BY DEF Answer
      <3>2. /\ file[act].len \in Nat
            /\ file[act].same => file[act].len <= SizeOf[act]
        BY <1>1 DEF Inv, TypeOK, File, PrefixFits
      <3> QED BY <1>1, <2>1, <2>2, <3>1, <3>2, ChoiceLemma
    <2>3. CASE Transfer(r)
      BY <1>1, <2>1, <2>3, TransferStep
    <2> QED BY <1>3, <2>2, <2>3
  <1> QED BY <1>2, <1>3 DEF Copy

(* A call of the engine keeps the invariant.                               *)
LEMMA EngineStep ==
  ASSUME Inv, Engine
  PROVE  Inv'
  BY ScanStep, OpenTargetStep, StatFailsStep, FinishStep, CopyStep DEF Engine

-----------------------------------------------------------------------------
(* The user, the purge, the end and the restart of the process, the clock. *)

LEMMA AddStep ==
  ASSUME Inv, NEW i \in Item, Add(i)
  PROVE  Inv'
  <1> DEFINE n == Len(list)
  <1>1. n \in Nat /\ list \in Seq(Item)
    BY LenProperties DEF Inv, TypeOK
  <1>2. /\ list' \in Seq(Item) /\ Len(list') = n + 1
        /\ \A j \in 1..n : list'[j] = list[j]
        /\ list'[n + 1] = i
    BY <1>1, AppendProperties DEF Add
  <1>3. \A j \in Item : InList(j)' <=> InList(j) \/ j = i
    BY <1>1, <1>2 DEF InList, Range
  <1>4. NoDuplicates'
    <2>1. \A j \in 1..n : list[j] # i
      BY <1>1 DEF Add, InList, Range
    <2> QED BY <1>1, <1>2, <2>1 DEF Inv, NoDuplicates
  <1>5. rec' \in [Item -> Record]
    <2>1. PICK d \in 0..MaxDelay :
            rec' = [rec EXCEPT ![i] = [active |-> "X", delay |-> d, due |-> 1]]
      BY DEF Add
    <2>2. [active |-> "X", delay |-> d, due |-> 1] \in Record
      BY ConstantsOK DEF Record, Mark
    <2> QED BY <2>1, <2>2 DEF Inv, TypeOK
  <1>6. /\ fate' = [fate EXCEPT ![i] = "none"]
        /\ UNCHANGED <<act, rd, wr, leaked, file, ask, mode, net, room>>
    BY DEF Add
  <1>7. TypeOK'
    BY <1>2, <1>5, <1>6 DEF Inv, TypeOK
  <1>8. HandlesFollowAct'
    BY <1>3, <1>6 DEF Inv, TypeOK, HandlesFollowAct
  <1>9. ListedIsUnfinished'
    BY <1>3, <1>6 DEF Inv, TypeOK, ListedIsUnfinished
  <1>10. PrefixFits'
    BY <1>6 DEF Inv, PrefixFits
  <1>11. FinishedIsWhole'
    BY <1>3, <1>6 DEF Inv, TypeOK, FinishedIsWhole
  <1> QED BY <1>4, <1>7, <1>8, <1>9, <1>10, <1>11 DEF Inv

(* Exchanging two neighbours of the list keeps the invariant, also when    *)
(* the mark of one is set.                                                 *)
LEMMA MoveDownLemma ==
  ASSUME Inv, NEW k \in 1..Len(list), k < Len(list), MoveDown(k),
         rec' \in [Item -> Record],
         UNCHANGED <<act, rd, wr, leaked, file, fate, ask, mode, net, room>>
  PROVE  Inv'
  <1> DEFINE n == Len(list)
  <1>1. n \in Nat /\ list \in [1..n -> Item]
    BY LenProperties DEF Inv, TypeOK
  <1>2. /\ list' \in [1..n -> Item]
        /\ list'[k] = list[k + 1] /\ list'[k + 1] = list[k]
        /\ \A j \in 1..n : j # k /\ j # k + 1 => list'[j] = list[j]
    BY <1>1 DEF MoveDown
  <1>3. list' \in Seq(Item) /\ Len(list') = n
    BY <1>1, <1>2
  <1>4. \A i \in Item : InList(i)' <=> InList(i)
    BY <1>1, <1>2 DEF InList, Range
  <1>5. NoDuplicates'
    BY <1>1, <1>2, <1>3 DEF Inv, NoDuplicates
  <1>6. TypeOK'
    BY <1>3 DEF Inv, TypeOK
  <1>7. HandlesFollowAct'
    BY <1>4 DEF Inv, TypeOK, HandlesFollowAct
  <1>8. ListedIsUnfinished' /\ PrefixFits' /\ FinishedIsWhole'
    BY <1>4 DEF Inv, ListedIsUnfinished, PrefixFits, FinishedIsWhole
  <1> QED BY <1>5, <1>6, <1>7, <1>8 DEF Inv

(* The keys of the list editor that set fields of the records.             *)
LEMMA EditedRecords ==
  ASSUME TypeOK, NEW k \in 1..Len(list),
         \/ Toggle(k) \/ Delete(k) \/ Undelete(k) \/ Delay(k) \/ TryNow(k)
         \/ DeleteFolder(k) \/ DeleteAll
  PROVE  rec' \in [Item -> Record]
  <1>1. list[k] \in Item /\ rec \in [Item -> Record]
    BY ListElement DEF TypeOK
  <1>2. \A i \in Item, m \in Mark : [rec[i] EXCEPT !.active = m] \in Record
    BY <1>1 DEF Record
  <1>3. CASE \E m \in Mark : SetMark(k, m)
    BY <1>1, <1>2, <1>3 DEF SetMark
  <1>4. CASE Delay(k)
    <2>1. PICK d \in 0..MaxDelay : rec' = [rec EXCEPT ![list[k]].delay = d]
      BY <1>4 DEF Delay
    <2>2. [rec[list[k]] EXCEPT !.delay = d] \in Record
      BY <1>1 DEF Record
    <2> QED BY <1>1, <2>1, <2>2
  <1>5. CASE TryNow(k)
    <2>1. 1 \in 0..(MaxDelay + 1)
      BY ConstantsOK
    <2>2. [rec[list[k]] EXCEPT !.due = 1] \in Record
      BY <1>1, <2>1 DEF Record
    <2> QED BY <1>1, <1>5, <2>2 DEF TryNow
  <1>6. CASE DeleteFolder(k)
    BY <1>1, <1>2, <1>6 DEF DeleteFolder, Mark
  <1>7. CASE DeleteAll
    BY <1>1, <1>2, <1>7 DEF DeleteAll, Mark
  <1>8. (Toggle(k) \/ Delete(k) \/ Undelete(k)) => \E m \in Mark : SetMark(k, m)
    BY DEF Toggle, Delete, Undelete, Mark
  <1> QED BY <1>3, <1>4, <1>5, <1>6, <1>7, <1>8

(* A key of the list editor keeps the invariant.                           *)
LEMMA EditStep ==
  ASSUME Inv, Edit
  PROVE  Inv'
  <1>1. UNCHANGED <<act, rd, wr, leaked, file, fate, ask, mode, net, room>>
    BY DEF Edit
  <1>2. PICK k \in 1..Len(list) :
          \/ /\ \/ Toggle(k) \/ Delete(k) \/ Undelete(k) \/ Delay(k) \/ TryNow(k)
                \/ DeleteFolder(k) \/ DeleteAll
             /\ Down(k)
          \/ k < Len(list) /\ MoveDown(k) /\ UNCHANGED rec
    BY DEF Edit, Down
  <1>3. rec' \in [Item -> Record]
    BY <1>2, EditedRecords DEF Inv, TypeOK
  <1>4. CASE UNCHANGED list
    BY <1>1, <1>3, <1>4, OnlyRecord DEF Inv, TypeOK
  <1>5. CASE k < Len(list) /\ MoveDown(k)
    BY <1>1, <1>3, <1>5, MoveDownLemma
  <1> QED BY <1>2, <1>4, <1>5 DEF Down

(* Freeing a record marked D keeps the invariant, the engine's record      *)
(* included.                                                               *)
LEMMA PurgeStep ==
  ASSUME Inv, Purge
  PROVE  Inv'
  <1>1. PICK k \in 1..Len(list) :
          /\ Free(k)
          /\ IF list[k] = act
             THEN Drop /\ leaked' = leaked + (IF act \in Uploads THEN Held ELSE 0)
             ELSE UNCHANGED <<act, rd, wr, leaked>>
    BY DEF Purge
  <1>2. UNCHANGED <<file, fate, ask, mode, net, room>>
    BY DEF Purge
  <1>3. /\ list' \in Seq(Item) /\ rec' \in [Item -> Record] /\ NoDuplicates'
        /\ \A i \in Item : InList(i)' <=> InList(i) /\ i # list[k]
    BY <1>1, FreeLemma DEF Inv
  <1>4. list[k] \in Item /\ InList(list[k])
    BY ListElement DEF Inv
  <1>5. /\ act' \in Item \cup {None} /\ rd' \in Item \cup {None}
        /\ wr' \in Item \cup {None} /\ leaked' \in Nat
        /\ HandlesFollowAct'
    <2>1. CASE list[k] = act
      BY <1>1, <2>1 DEF Drop, Held, HandlesFollowAct, Inv, TypeOK
    <2>2. CASE list[k] # act
      BY <1>1, <1>3, <2>2 DEF HandlesFollowAct, Inv, TypeOK
    <2> QED BY <2>1, <2>2
  <1>6. TypeOK'
    BY <1>2, <1>3, <1>5 DEF Inv, TypeOK
  <1>7. ListedIsUnfinished' /\ PrefixFits'
    BY <1>2, <1>3 DEF Inv, ListedIsUnfinished, PrefixFits
  <1>8. FinishedIsWhole'
    BY <1>2, <1>3, <1>4 DEF Inv, ListedIsUnfinished, FinishedIsWhole
  <1> QED BY <1>3, <1>5, <1>6, <1>7, <1>8 DEF Inv

(* The end of the process keeps the invariant, with or without its list.   *)
LEMMA DropStep ==
  ASSUME Inv, Exit \/ Crash
  PROVE  Inv'
  <1>1. /\ act' = None /\ rd' = None /\ wr' = None /\ leaked' = 0 /\ mode' = "down"
        /\ UNCHANGED <<file, fate, ask, net, room>>
    BY DEF Exit, Crash, Drop
  <1>2. HandlesFollowAct'
    BY <1>1 DEF HandlesFollowAct
  <1>3. PrefixFits'
    BY <1>1 DEF Inv, PrefixFits
  <1>4. CASE UNCHANGED <<list, rec>>
    <2>1. TypeOK'
      BY <1>1, <1>4 DEF Inv, TypeOK
    <2> QED BY <1>1, <1>2, <1>3, <1>4, <2>1, SameList
  <1>5. CASE list' = <<>> /\ rec' = [i \in Item |-> Blank]
    <2>1. list' \in Seq(Item) /\ Len(list') = 0
      BY <1>5, EmptySeq
    <2>2. \A i \in Item : ~InList(i)'
      BY <1>5 DEF InList, Range
    <2>3. TypeOK'
      BY <1>1, <1>5, <2>1, BlankIsRecord DEF Inv, TypeOK
    <2>4. NoDuplicates' /\ ListedIsUnfinished'
      BY <2>1, <2>2 DEF NoDuplicates, ListedIsUnfinished
    <2>5. FinishedIsWhole'
      <3>1. SUFFICES ASSUME NEW i \in Item, fate[i] = "done", file[i].same,
                            SizeOf[i] < IntHalf
                     PROVE  file[i].len = SizeOf[i]
        BY <1>1 DEF FinishedIsWhole
      <3>2. ~InList(i)
        BY <3>1 DEF Inv, ListedIsUnfinished
      <3> QED BY <3>1, <3>2 DEF Inv, FinishedIsWhole
    <2> QED BY <1>2, <1>3, <2>3, <2>4, <2>5 DEF Inv
  <1> QED BY <1>4, <1>5 DEF Exit, Crash

(* A second that passes keeps the invariant.                               *)
LEMMA TickStep ==
  ASSUME Inv, Tick
  PROVE  Inv'
  <1>1. ASSUME NEW i \in Item
        PROVE  [rec[i] EXCEPT !.due = IF @ > 0 THEN @ - 1 ELSE 0] \in Record
    <2>1. rec[i] \in Record /\ rec[i].due \in 0..(MaxDelay + 1)
      BY DEF Inv, TypeOK, Record
    <2>2. (IF rec[i].due > 0 THEN rec[i].due - 1 ELSE 0) \in 0..(MaxDelay + 1)
      BY <2>1, ConstantsOK
    <2> QED BY <2>1, <2>2 DEF Record
  <1>2. rec' \in [Item -> Record]
    BY <1>1 DEF Tick
  <1> QED BY <1>2, OnlyRecord DEF Tick, Inv, TypeOK

(* The restart keeps the invariant.                                        *)
LEMMA StartStep ==
  ASSUME Inv, Start
  PROVE  Inv'
  <1>1. TypeOK'
    BY ConstantsOK DEF Start, Inv, TypeOK
  <1>2. HandlesFollowAct'
    BY DEF Start, Inv, HandlesFollowAct, InList, Range
  <1>3. PrefixFits'
    BY DEF Start, Inv, PrefixFits
  <1> QED BY <1>1, <1>2, <1>3, SameList DEF Start

-----------------------------------------------------------------------------
(* The theorems.                                                           *)

LEMMA InitInv == Init => Inv
  <1> SUFFICES ASSUME Init PROVE Inv
    OBVIOUS
  <1>1. list = <<>> /\ list \in Seq(Item) /\ Len(list) = 0
    BY EmptySeq DEF Init
  <1>2. \A i \in Item : ~InList(i)
    BY <1>1 DEF InList, Range
  <1>3. file \in [Item -> File]
    <2>1. file \in [Item -> [len : 0..MaxLen, same : BOOLEAN]]
      BY DEF Init
    <2>2. \A x \in [len : 0..MaxLen, same : BOOLEAN] : x \in File
      BY ConstantsOK DEF File
    <2> QED BY <2>1, <2>2
  <1>4. TypeOK
    BY <1>1, <1>3, BlankIsRecord, ConstantsOK DEF Init, TypeOK
  <1>5. HandlesFollowAct /\ NoDuplicates /\ ListedIsUnfinished /\ FinishedIsWhole
    BY <1>1, <1>2 DEF Init, HandlesFollowAct, NoDuplicates, ListedIsUnfinished,
                      FinishedIsWhole
  <1>6. PrefixFits
    BY ConstantsOK DEF Init, PrefixFits
  <1> QED BY <1>4, <1>5, <1>6 DEF Inv

(* Every step keeps the invariant.                                         *)
LEMMA NextInv == Inv /\ [Next]_vars => Inv'
  <1> SUFFICES ASSUME Inv, [Next]_vars PROVE Inv'
    OBVIOUS
  <1>1. CASE Engine
    BY <1>1, EngineStep
  <1>2. CASE User
    <2>1. CASE \E i \in Item : Add(i)
      BY <2>1, AddStep
    <2>2. CASE OpenEditor
      BY <2>2, OnlyRecord DEF OpenEditor, Inv, TypeOK
    <2>3. CASE Edit
      BY <2>3, EditStep
    <2>4. CASE LeaveEditor
      BY <2>4, OnlyRecord DEF LeaveEditor, Inv, TypeOK
    <2> QED BY <1>2, <2>1, <2>2, <2>3, <2>4 DEF User
  <1>3. CASE Purge
    BY <1>3, PurgeStep
  <1>4. CASE Purged
    BY <1>4, OnlyRecord DEF Purged, Inv, TypeOK
  <1>5. CASE Exit \/ Crash
    BY <1>5, DropStep
  <1>6. CASE Start
    BY <1>6, StartStep
  <1>7. CASE Tick
    BY <1>7, TickStep
  <1>8. CASE World
    BY <1>8, OnlyRecord DEF World, program, Inv, TypeOK
  <1>9. CASE UNCHANGED vars
    BY <1>9, OnlyRecord DEF vars, Inv, TypeOK
  <1> QED BY <1>1, <1>2, <1>3, <1>4, <1>5, <1>6, <1>7, <1>8, <1>9 DEF Next

(* The invariant holds in every state.                                     *)
LEMMA Invariance == Spec => []Inv
  BY InitInv, NextInv, PTL DEF Spec

(* Every variable keeps its type, whatever the user, the network, the      *)
(* disks and the signals do: RdownloadUpload, Rchoice and RmanageList leave *)
(* no record with a field out of its range.                                *)
THEOREM TypeCorrect == Spec => []TypeOK
  <1>1. Inv => TypeOK
    BY DEF Inv
  <1> QED BY <1>1, Invariance, PTL

(* RdownloadListAct never points to a freed record, and the handles of two *)
(* records are never mixed (RdownloadUpload, RmanageList).                 *)
THEOREM HandlesFollow == Spec => []HandlesFollowAct
  <1>1. Inv => HandlesFollowAct
    BY DEF Inv
  <1> QED BY <1>1, Invariance, PTL

(* Freeing, moving and adding keep every record in the list at most once   *)
(* (downloadlist.c, the move mode of RmanageList).                         *)
THEOREM OnceInList == Spec => []NoDuplicates
  <1>1. Inv => NoDuplicates
    BY DEF Inv
  <1> QED BY <1>1, Invariance, PTL

(* What RdownloadUpload drops as finished is whole, if its size fits an    *)
(* int and no other file is at the destination: for any number of files,   *)
(* any lengths, any interruptions, answers, restarts and crashes.          *)
THEOREM WholeWhenFinished == Spec => []FinishedIsWhole
  <1>1. Inv => FinishedIsWhole
    BY DEF Inv
  <1> QED BY <1>1, Invariance, PTL

-----------------------------------------------------------------------------
(* Nothing transferred is erased unasked.                                  *)

Shrinks == \E i \in Item : file'[i].len < file[i].len
Asks    == ask["retry"] \/ ask["full"]

(* A destination that does not get shorter is no file that shrinks.        *)
LEMMA GrowLemma ==
  ASSUME TypeOK, act \in Item, NEW n \in Nat, n >= file[act].len,
         file' = [file EXCEPT ![act].len = n]
  PROVE  ~Shrinks
  <1>1. file[act] \in File /\ [file[act] EXCEPT !.len = n].len = n
    BY DEF TypeOK, File
  <1>2. /\ file'[act].len = n
        /\ \A i \in Item \ {act} : file'[i] = file[i]
    BY <1>1 DEF TypeOK
  <1>3. \A i \in Item : file[i].len \in Nat
    BY DEF TypeOK, File
  <1> QED BY <1>2, <1>3 DEF Shrinks

(* A step that leaves the destinations alone shortens none.                *)
LEMMA SameFiles ==
  ASSUME TypeOK, UNCHANGED file
  PROVE  ~Shrinks
  <1>1. \A i \in Item : file[i].len \in Nat
    BY DEF TypeOK, File
  <1> QED BY <1>1 DEF Shrinks

(* The answer of a dialog that is not shown is "retry": it never is        *)
(* "overwrite", the only one to shorten a destination.                     *)
LEMMA ChoiceKeeps ==
  ASSUME TypeOK, act \in Item, NEW q \in {"retry", "full"}, NEW last, NEW r,
         NEW v \in Answer(q, last), NEW n \in Nat, n >= file[act].len, NEW open,
         Choice(v, q, r, n, open), ~ask[q]
  PROVE  ~Shrinks
  <1>1. v = 4
    BY DEF Answer
  <1>2. Abandon(r, n, open)
    BY <1>1 DEF Choice
  <1> QED BY <1>2, GrowLemma DEF Abandon

(* Copying does not shorten a destination if no question is asked.         *)
LEMMA TransferKeeps ==
  ASSUME Inv, act \in Item, NEW r, Transfer(r), ~ask["full"]
  PROVE  ~Shrinks
  <1> DEFINE len == file[act].len
  <1>1. len \in Nat
    BY DEF Inv, TypeOK, File
  <1>2. \A k \in Read(act) : k \in Nat
    BY ConstantsOK DEF Read
  <1>3. CASE UNCHANGED file
    BY <1>3, SameFiles DEF Inv
  <1>4. ASSUME NEW k \in Read(act), file' = [file EXCEPT ![act].len = len + k]
        PROVE  ~Shrinks
    <2>1. len + k \in Nat /\ len + k >= file[act].len
      BY <1>1, <1>2
    <2> QED BY <1>4, <2>1, GrowLemma DEF Inv
  <1>5. ASSUME NEW k \in Read(act), NEW w \in 0..(k - 1), NEW v \in Answer("full", 4),
               Choice(v, "full", r, len + w, TRUE)
        PROVE  ~Shrinks
    <2>1. len + w \in Nat /\ len + w >= file[act].len
      BY <1>1, <1>2
    <2> QED BY <1>5, <2>1, ChoiceKeeps DEF Inv
  <1> QED BY <1>3, <1>4, <1>5 DEF Transfer

(* No call of the engine shortens a destination if no question is asked.   *)
LEMMA EngineKeeps ==
  ASSUME Inv, Engine, ~Asks
  PROVE  ~Shrinks
  <1>1. ~ask["retry"] /\ ~ask["full"]
    BY DEF Asks
  <1>2. BothOpen => /\ act \in Item /\ file[act].len \in Nat
                    /\ file[act].len >= file[act].len
    BY BothOpenLemma DEF Inv, TypeOK, File
  <1>3. ASSUME BothOpen, NEW last, NEW v \in Answer("retry", last), NEW r, NEW open,
               Choice(v, "retry", r, file[act].len, open)
        PROVE  ~Shrinks
    <2>1. TypeOK
      BY DEF Inv
    <2> QED BY <1>1, <1>2, <1>3, <2>1, ChoiceKeeps
  <1>4. CASE UNCHANGED file
    BY <1>4, SameFiles DEF Inv
  <1>5. CASE StatFails /\ file' # file
    <2>1. PICK v \in Answer("retry", 4), r \in Edited(TRUE) :
            Choice(v, "retry", r, file[act].len, FALSE)
      BY <1>5 DEF StatFails
    <2>2. BothOpen
      BY <1>5 DEF StatFails
    <2> QED BY <1>3, <2>1, <2>2
  <1>6. CASE Copy
    <2>1. act \in Item /\ file[act].len \in Nat
      BY <1>2, <1>6 DEF Copy
    <2>2. ASSUME NEW r, Transfer(r) PROVE ~Shrinks
      BY <1>1, <2>1, <2>2, TransferKeeps
    <2>3. ASSUME NEW v \in Answer("retry", 5), NEW r,
                 Choice(v, "retry", r, file[act].len, TRUE)
          PROVE  ~Shrinks
      BY <1>6, <1>3, <2>3 DEF Copy
    <2> QED BY <1>6, <2>2, <2>3 DEF Copy
  <1> QED BY <1>4, <1>5, <1>6 DEF Engine, Scan, OpenTarget, Finish

(* No step shortens a destination if no question is asked.                 *)
LEMMA NextKeeps == Inv /\ [Next]_vars => (Shrinks => Asks)
  <1> SUFFICES ASSUME Inv, [Next]_vars, ~Asks PROVE ~Shrinks
    OBVIOUS
  <1>1. CASE Engine
    BY <1>1, EngineKeeps
  <1>2. CASE ~Engine
    <2>1. UNCHANGED file
      BY <1>2 DEF Next, User, Add, OpenEditor, Edit, LeaveEditor, Purge, Purged,
                  Exit, Crash, Start, Tick, World, vars
    <2> QED BY <2>1, SameFiles DEF Inv
  <1> QED BY <1>1, <1>2

(* Once both questions are turned off, no step of the program makes a      *)
(* destination shorter: the answer that RdownloadUpload gives by itself is *)
(* never the one for which Rchoice removes the file.                       *)
THEOREM ErasesOnlyWhenAsked == Spec => NeverErasesUnasked
  <1>1. Inv /\ [Next]_vars =>
          [(\E i \in Item : file'[i].len < file[i].len) => ask["retry"] \/ ask["full"]]_vars
    BY NextKeeps DEF Shrinks, Asks
  <1> QED BY <1>1, Invariance, PTL DEF Spec, NeverErasesUnasked
-----------------------------------------------------------------------------
(* What Served needs of each call: an open transfer goes on.               *)

(* An open transfer goes on.  A call of RdownloadUpload that nobody        *)
(* disturbs finds something to do (CanGoOn), and what it does is to open   *)
(* the destination, to lengthen it, or to drop the file as finished: it    *)
(* asks nothing and gives nothing up (Advances).  So a transfer ends after *)
(* one call for each block at most and two more.                           *)
Sound(i) == i \in Item \ NoTarget /\ SizeOf[i] < IntHalf /\ file[i].same
GoesOn ==
  \/ wr = None /\ wr' = rd /\ rd' = rd
  \/ file'[rd].len > file[rd].len /\ UNCHANGED <<rd, wr>>
  \/ fate'[rd] = "done" /\ rd \notin Range(list') /\ rd' = None
CanGoOn ==
  Undisturbed /\ Sound(rd) =>
    IF wr = None THEN TargetOpens(rd)
    ELSE AsInt(file[rd].len) < AsInt(SizeOf[rd]) => Read(rd) # {}
Advances == [][Engine /\ Undisturbed /\ Sound(rd) => GoesOn]_vars

(* The record of an open transfer, and the lengths that the engine         *)
(* compares: no more than the source has, and within an int.               *)
LEMMA OpenTransfer ==
  ASSUME Inv, Undisturbed, Sound(rd)
  PROVE  /\ rd # None /\ act = rd /\ InList(rd) /\ wr \in {None, rd}
         /\ leaked + 2 <= MaxFd /\ leaked \in Nat /\ MaxFd \in Nat /\ net /\ room
         /\ file[rd].len \in Nat /\ SizeOf[rd] \in Nat /\ file[rd].len <= SizeOf[rd]
         /\ AsInt(file[rd].len) = file[rd].len /\ AsInt(SizeOf[rd]) = SizeOf[rd]
  <1>1. rd \in Item /\ rd # None /\ act = rd /\ InList(rd) /\ wr \in {None, rd}
    BY ConstantsOK DEF Sound, Inv, HandlesFollowAct
  <1>2. net /\ room /\ leaked + 2 <= MaxFd /\ leaked \in Nat /\ MaxFd \in Nat
    BY ConstantsOK DEF Undisturbed, Inv, TypeOK
  <1>3. /\ file[rd].len \in Nat /\ SizeOf[rd] \in Nat
        /\ file[rd].len <= SizeOf[rd] /\ SizeOf[rd] < IntHalf
    BY <1>1, ConstantsOK DEF Sound, Inv, TypeOK, File, PrefixFits
  <1>4. file[rd].len < IntHalf
    BY <1>3, ConstantsOK
  <1> QED BY <1>1, <1>2, <1>3, <1>4, AsIntSmall

(* There is a descriptor for the destination, or a block to be read.       *)
LEMMA CanGoOnHolds == Inv => CanGoOn
  <1> SUFFICES ASSUME Inv, Undisturbed, Sound(rd)
               PROVE  IF wr = None THEN TargetOpens(rd)
                      ELSE AsInt(file[rd].len) < AsInt(SizeOf[rd]) => Read(rd) # {}
    BY DEF CanGoOn
  <1>1. CASE wr = None
    <2>1. CanOpen
      BY <1>1, OpenTransfer DEF CanOpen, Held
    <2> QED BY <1>1, <2>1, OpenTransfer DEF TargetOpens, Sound
  <1>2. CASE wr # None /\ AsInt(file[rd].len) < AsInt(SizeOf[rd])
    <2>1. file[rd].len + 1 <= SizeOf[rd] /\ net
      BY <1>2, OpenTransfer
    <2>2. 1 \in Read(rd)
      BY <2>1, ConstantsOK DEF Read
    <2> QED BY <1>2, <2>2
  <1> QED BY <1>1, <1>2

(* A call goes on with the transfer that is open.                          *)
LEMMA GoesOnStep ==
  ASSUME Inv, Engine, Undisturbed, Sound(rd)
  PROVE  GoesOn
  <1>1. /\ rd # None /\ act = rd /\ InList(rd) /\ wr \in {None, rd} /\ net /\ room
        /\ file[rd].len \in Nat /\ rd \in Item /\ file[rd].same
    BY OpenTransfer DEF Sound
  <1>2. CASE OpenTarget
    <2>1. TargetOpens(act)
      BY <1>1, <1>2, CanGoOnHolds DEF OpenTarget, CanGoOn
    <2> QED BY <1>1, <1>2, <2>1 DEF OpenTarget, GoesOn
  <1>3. CASE Finish
    <2>1. PICK k \in 1..Len(list) : list[k] = act /\ Free(k)
      BY <1>3 DEF Finish, RemoveAct
    <2>2. rd \notin Range(list')
      BY <1>1, <2>1, FreeLemma DEF Inv, InList
    <2>3. fate'[rd] = "done" /\ rd' = None
      BY <1>1, <1>3 DEF Finish, RemoveAct, Drop, Inv, TypeOK
    <2> QED BY <2>2, <2>3 DEF GoesOn
  <1>4. CASE Copy
    <2>1. Transfer(rec[act])
      BY <1>1, <1>4 DEF Copy
    <2>2. Read(act) # {}
      BY <1>1, <1>4, CanGoOnHolds DEF Copy, BothOpen, CanGoOn
    <2>3. PICK k \in Read(act) :
            /\ file' = [file EXCEPT ![act].len = file[act].len + k]
            /\ UNCHANGED <<list, act, rd, wr, leaked, fate, ask>>
      BY <1>1, <2>1, <2>2 DEF Transfer
    <2>4. file[act] \in File /\ k \in Nat /\ k > 0
      BY <1>1, ConstantsOK DEF Read, Inv, TypeOK
    <2>5. file'[act].len = file[act].len + k
      BY <1>1, <2>3, <2>4 DEF Inv, TypeOK, File
    <2> QED BY <1>1, <2>3, <2>4, <2>5 DEF GoesOn
  <1> QED BY <1>1, <1>2, <1>3, <1>4 DEF Engine, Scan, StatFails

(* A call of RdownloadUpload that nobody disturbs finds something to do    *)
(* for an open transfer, whatever failed before, for any files and any     *)
(* buffer: the handles it needs are left, and a shorter destination is one *)
(* that a block can still be read for.                                     *)
THEOREM CallsHaveWork == Spec => []CanGoOn
  BY CanGoOnHolds, Invariance, PTL

(* And what it does is to go on: it asks nothing, it gives nothing up, and *)
(* each block it writes is one less (RdownloadUpload).                     *)
THEOREM TransfersAdvance == Spec => Advances
  <1>1. Inv /\ [Next]_vars => [Engine /\ Undisturbed /\ Sound(rd) => GoesOn]_vars
    BY GoesOnStep
  <1> QED BY <1>1, Invariance, PTL DEF Spec, Advances

-----------------------------------------------------------------------------
(* DownloadUpload implements TransferQueue, when every size fits an int.    *)

Stored   == [i \in Item |-> file[i].len]
Finished == {i \in Item : fate[i] = "done"}

(* AsInt changes none of the lengths the engine compares.                  *)
SizesFit   == MaxLen < IntHalf /\ \A i \in Item : SizeOf[i] < IntHalf
LengthsFit == \A i \in Item : file[i].len < IntHalf

(* The start of the engine is a start of the queue.                        *)
LEMMA PromiseInit == Init => Promise!Init
  <1> SUFFICES ASSUME Init PROVE Promise!Init
    OBVIOUS
  <1>1. \A i \in Item : file[i].len \in 0..MaxLen
    BY DEF Init
  <1>2. Finished = {}
    BY DEF Init, Finished
  <1> QED BY <1>1, <1>2 DEF Init, Promise!Init, Finished

-----------------------------------------------------------------------------
(* The destination of the current file.                                    *)

LEMMA StoredIs ==
  ASSUME TypeOK, act \in Item, NEW n \in Nat, file' = [file EXCEPT ![act].len = n]
  PROVE  Stored' = [Stored EXCEPT ![act] = n]
  <1>1. file[act] \in File /\ [file[act] EXCEPT !.len = n].len = n
    BY DEF TypeOK, File
  <1>2. /\ file'[act].len = n
        /\ \A i \in Item \ {act} : file'[i] = file[i]
    BY <1>1 DEF TypeOK
  <1>3. [Stored EXCEPT ![act] = n] = [i \in Item |-> IF i = act THEN n ELSE file[i].len]
    BY DEF Stored
  <1>4. \A i \in Item : file'[i].len = IF i = act THEN n ELSE file[i].len
    BY <1>2
  <1> QED BY <1>3, <1>4 DEF Stored

(* A destination that grew within its source is one that received data.    *)
LEMMA StoredGrows ==
  ASSUME TypeOK, act \in Item, rd = act, NEW n \in Nat,
         n = file[act].len \/ (n > file[act].len /\ n <= SizeOf[act]),
         file' = [file EXCEPT ![act].len = n]
  PROVE  UNCHANGED Stored \/ Promise!Grows
  <1>1. Stored' = [Stored EXCEPT ![act] = n]
    BY StoredIs
  <1>2. Stored[act] = file[act].len /\ Stored[act] \in Nat /\ SizeOf[act] \in Nat
    BY ConstantsOK DEF TypeOK, File, Stored
  <1>3. CASE n = file[act].len
    BY <1>1, <1>2, <1>3 DEF Stored
  <1>4. CASE n > file[act].len /\ n <= SizeOf[act]
    <2>1. n \in 1..SizeOf[act] /\ n > Stored[act]
      BY <1>2, <1>4
    <2> QED BY <1>1, <2>1 DEF Promise!Grows, Stored
  <1> QED BY <1>3, <1>4

(* Dropping the handles while the destination keeps, gains or loses its    *)
(* content is an interruption.                                             *)
LEMMA InterruptLemma ==
  ASSUME TypeOK, rd \in Item, rd' = None, UNCHANGED <<list, fate>>,
         UNCHANGED Stored \/ Promise!Grows \/ Stored' = [Stored EXCEPT ![rd] = 0]
  PROVE  Promise!Next
  <1>1. rd # None
    BY ConstantsOK
  <1>2. Promise!Interrupt
    BY <1>1 DEF Promise!Interrupt, Stored
  <1> QED BY <1>2 DEF Promise!Next

(* Freeing a record is leaving the queue.                                  *)
LEMMA LeaveLemma ==
  ASSUME Inv, NEW k \in 1..Len(list), list' = RemoveAt(list, k),
         rd' = (IF list[k] = rd THEN None ELSE rd), Finished' = Finished,
         UNCHANGED Stored \/ (list[k] = rd /\ Promise!Grows)
  PROVE  Promise!Next
  <1>1. Promise!Leave(k)
    BY DEF Promise!Leave, Promise!RemoveAt, RemoveAt, Stored, Finished
  <1> QED BY <1>1 DEF Promise!Next

(* A record in the list may get any fate but "done": it had none.          *)
LEMMA FateLemma ==
  ASSUME Inv, act \in Item, InList(act), NEW why \in {"none", "blind"},
         fate' = [fate EXCEPT ![act] = why]
  PROVE  Finished' = Finished
  <1>1. fate[act] = "none"
    BY DEF Inv, ListedIsUnfinished
  <1>2. /\ fate'[act] = why /\ \A i \in Item \ {act} : fate'[i] = fate[i]
    BY DEF Inv, TypeOK
  <1> QED BY <1>1, <1>2 DEF Finished

-----------------------------------------------------------------------------
(* The steps.                                                              *)

LEMMA ChoicePromise ==
  ASSUME Inv, act \in Item, rd = act, InList(act),
         NEW q, NEW v, NEW r, NEW open, NEW n \in Nat,
         n = file[act].len \/ (n > file[act].len /\ n <= SizeOf[act]),
         Choice(v, q, r, n, open)
  PROVE  Promise!Next
  <1>1. file' = [file EXCEPT ![act].len = n] => UNCHANGED Stored \/ Promise!Grows
    BY StoredGrows DEF Inv
  <1>2. CASE RemoveAct("none") /\ file' = [file EXCEPT ![act].len = n]
    <2>1. PICK k \in 1..Len(list) : list[k] = act /\ Free(k)
      BY <1>2 DEF RemoveAct
    <2>2. rd' = None /\ list' = RemoveAt(list, k) /\ fate' = [fate EXCEPT ![act] = "none"]
      BY <1>2, <2>1 DEF RemoveAct, Drop, Free
    <2>3. Finished' = Finished
      BY <2>2, FateLemma
    <2> QED BY <1>1, <1>2, <2>1, <2>2, <2>3, LeaveLemma
  <1>3. CASE Overwrite(r, n, open)
    <2>1. rd' = None /\ UNCHANGED <<list, fate>>
      BY <1>3 DEF Overwrite
    <2>2. CASE file' = [file EXCEPT ![act] = [len |-> 0, same |-> TRUE]]
      <3>1. Stored' = [Stored EXCEPT ![act] = 0]
        BY <2>2 DEF Inv, TypeOK, Stored
      <3> QED BY <2>1, <3>1, InterruptLemma DEF Inv
    <2>3. CASE file' = [file EXCEPT ![act].len = n]
      BY <1>1, <2>1, <2>3, InterruptLemma DEF Inv
    <2> QED BY <1>3, <2>2, <2>3 DEF Overwrite
  <1>4. ASSUME NEW s, Abandon(s, n, open) PROVE Promise!Next
    <2>1. rd' = None /\ UNCHANGED <<list, fate>> /\ file' = [file EXCEPT ![act].len = n]
      BY <1>4 DEF Abandon, Drop
    <2> QED BY <1>1, <2>1, InterruptLemma DEF Inv
  <1> QED BY <1>2, <1>3, <1>4 DEF Choice

(* A step that keeps the list, the source handle, the files and the fates  *)
(* is no step of the queue.                                                *)
LEMMA Stutter ==
  ASSUME UNCHANGED <<list, rd, file, fate>>
  PROVE  UNCHANGED Promise!tqvars
  BY DEF Promise!tqvars

(* Opening a source is beginning a transfer.                               *)
LEMMA ScanPromise ==
  ASSUME Inv, Scan
  PROVE  [Promise!Next]_(Promise!tqvars)
  <1>1. UNCHANGED <<list, file, fate>> /\ rd = None
    BY DEF Scan
  <1>2. CASE UNCHANGED rd
    BY <1>1, <1>2, Stutter
  <1>3. ASSUME NEW k \in 1..Len(list), rd' = list[k] PROVE Promise!Next
    <2>1. list[k] \in Item /\ InList(list[k])
      BY ListElement DEF Inv
    <2>2. Promise!Begin(list[k])
      BY <1>1, <1>3, <2>1 DEF Promise!Begin, Promise!Queued, Promise!Range, InList, Range
    <2> QED BY <2>1, <2>2 DEF Promise!Next
  <1> QED BY <1>2, <1>3 DEF Scan, IsNext

(* A failed fstat interrupts the transfer or takes its file from the       *)
(* queue, and does not complete it.                                        *)
LEMMA StatFailsPromise ==
  ASSUME Inv, StatFails
  PROVE  Promise!Next
  <1>1. act \in Item /\ rd = act /\ InList(act)
    BY BothOpenLemma DEF StatFails
  <1>2. CASE RemoveAct("blind") /\ UNCHANGED <<file, ask>>
    <2>1. PICK k \in 1..Len(list) : list[k] = act /\ Free(k)
      BY <1>2 DEF RemoveAct
    <2>2. rd' = None /\ list' = RemoveAt(list, k) /\ fate' = [fate EXCEPT ![act] = "blind"]
      BY <1>2, <2>1 DEF RemoveAct, Drop, Free
    <2>3. Finished' = Finished
      BY <1>1, <2>2, FateLemma
    <2>4. UNCHANGED Stored
      BY <1>2 DEF Stored
    <2> QED BY <1>1, <2>1, <2>2, <2>3, <2>4, LeaveLemma
  <1>3. CASE rd' = None /\ UNCHANGED <<list, file, fate>>
    <2>1. UNCHANGED Stored
      BY <1>3 DEF Stored
    <2> QED BY <1>1, <1>3, <2>1, InterruptLemma DEF Inv
  <1>4. ASSUME NEW v, NEW r, Choice(v, "retry", r, file[act].len, FALSE)
        PROVE  Promise!Next
    <2>1. file[act].len \in Nat
      BY <1>1 DEF Inv, TypeOK, File
    <2> QED BY <1>1, <1>4, <2>1, ChoicePromise
  <1> QED BY <1>2, <1>3, <1>4 DEF StatFails

(* A record dropped as finished is a completed transfer.                   *)
LEMMA FinishPromise ==
  ASSUME Inv, Finish, SizesFit, LengthsFit
  PROVE  Promise!Next
  <1>1. act \in Item /\ rd = act /\ InList(act)
    BY BothOpenLemma DEF Finish
  <1>2. PICK k \in 1..Len(list) : list[k] = act /\ Free(k)
    BY DEF Finish, RemoveAct
  <1>3. /\ rd' = None /\ list' = RemoveAt(list, k) /\ UNCHANGED file
        /\ fate' = [fate EXCEPT ![act] = "done"]
    BY <1>2 DEF Finish, RemoveAct, Drop, Free
  <1>4. Stored[act] >= SizeOf[act]
    <2>1. /\ SizeOf[act] \in Nat /\ file[act].len \in Nat
          /\ SizeOf[act] < IntHalf /\ file[act].len < IntHalf
      BY <1>1, ConstantsOK DEF Inv, TypeOK, File, SizesFit, LengthsFit
    <2>2. AsInt(file[act].len) = file[act].len /\ AsInt(SizeOf[act]) = SizeOf[act]
      BY <2>1, AsIntSmall
    <2> QED BY <1>1, <2>2 DEF Finish, Stored
  <1>5. Finished' = Finished \cup {act}
    BY <1>1, <1>3 DEF Inv, TypeOK, Finished
  <1>6. Promise!Complete(k)
    BY <1>1, <1>2, <1>3, <1>4, <1>5, ConstantsOK
       DEF Promise!Complete, Promise!RemoveAt, RemoveAt, Stored, Finished
  <1> QED BY <1>6 DEF Promise!Next

(* Copying a buffer is receiving data, or an interruption.                 *)
LEMMA TransferPromise ==
  ASSUME Inv, BothOpen, NEW r, Transfer(r)
  PROVE  [Promise!Next]_(Promise!tqvars)
  <1> DEFINE len == file[act].len
  <1>1. act \in Item /\ rd = act /\ InList(act) /\ len \in Nat /\ SizeOf[act] \in Nat
    BY BothOpenLemma, ConstantsOK DEF Inv, TypeOK, File
  <1>2. CASE UNCHANGED <<list, act, rd, wr, leaked, file, fate, ask>>
    BY <1>2, Stutter
  <1>3. ASSUME NEW k \in Read(act) PROVE k \in Nat \ {0} /\ len + k <= SizeOf[act]
    BY ConstantsOK DEF Read
  <1>4. ASSUME NEW k \in Read(act), file' = [file EXCEPT ![act].len = len + k],
               UNCHANGED <<list, act, rd, wr, leaked, fate, ask>>
        PROVE  Promise!Next
    <2>1. /\ len + k \in Nat /\ len + k \in 1..SizeOf[act] /\ len + k > Stored[act]
      BY <1>1, <1>3 DEF Stored
    <2>2. Stored' = [Stored EXCEPT ![act] = len + k]
      BY <1>1, <1>4, <2>1, StoredIs DEF Inv
    <2>3. Promise!Grows
      BY <1>1, <2>1, <2>2 DEF Promise!Grows, Stored
    <2>4. Promise!Receive
      BY <1>1, <1>4, <2>3, ConstantsOK DEF Promise!Receive
    <2> QED BY <2>4 DEF Promise!Next
  <1>5. ASSUME NEW k \in Read(act), NEW w \in 0..(k - 1), NEW v,
               Choice(v, "full", r, len + w, TRUE)
        PROVE  Promise!Next
    <2>1. /\ len + w \in Nat
          /\ len + w = len \/ (len + w > len /\ len + w <= SizeOf[act])
      BY <1>1, <1>3
    <2> QED BY <1>1, <1>5, <2>1, ChoicePromise
  <1> QED BY <1>2, <1>4, <1>5 DEF Transfer

(* Comparing the tail and then copying is receiving data, or an            *)
(* interruption.                                                           *)
LEMMA CopyPromise ==
  ASSUME Inv, Copy
  PROVE  [Promise!Next]_(Promise!tqvars)
  <1>1. BothOpen
    BY DEF Copy
  <1>2. /\ act \in Item /\ rd = act /\ InList(act) /\ file[act].len \in Nat
    BY <1>1, BothOpenLemma DEF Inv, TypeOK, File
  <1>3. ASSUME NEW v, NEW r, Choice(v, "retry", r, file[act].len, TRUE)
        PROVE  Promise!Next
    BY <1>2, <1>3, ChoicePromise
  <1>4. ASSUME NEW r, Transfer(r) PROVE [Promise!Next]_(Promise!tqvars)
    BY <1>1, <1>4, TransferPromise
  <1> QED BY <1>3, <1>4 DEF Copy

(* A call of the engine is a step of the queue or none.                    *)
LEMMA EnginePromise ==
  ASSUME Inv, Engine, SizesFit, LengthsFit
  PROVE  [Promise!Next]_(Promise!tqvars)
  <1>1. CASE OpenTarget
    BY <1>1, Stutter DEF OpenTarget
  <1> QED BY <1>1, ScanPromise, StatFailsPromise, FinishPromise, CopyPromise DEF Engine

(* Adding a record is entering the queue.                                  *)
LEMMA AddPromise ==
  ASSUME Inv, NEW i \in Item, Add(i)
  PROVE  Promise!Next
  <1>1. Finished' = Finished \ {i}
    BY DEF Add, Inv, TypeOK, Finished
  <1>2. Promise!Enqueue(i)
    BY <1>1 DEF Add, Promise!Enqueue, Promise!Queued, Promise!Range, InList, Range,
                Stored, Finished
  <1> QED BY <1>2 DEF Promise!Next

(* A key of the list editor exchanges two neighbours of the queue or is no *)
(* step of it.                                                             *)
LEMMA EditPromise ==
  ASSUME Inv, Edit
  PROVE  [Promise!Next]_(Promise!tqvars)
  <1>1. UNCHANGED <<rd, file, fate>>
    BY DEF Edit
  <1>2. CASE UNCHANGED list
    BY <1>1, <1>2, Stutter
  <1>3. ASSUME NEW k \in 1..Len(list), k < Len(list), MoveDown(k) PROVE Promise!Next
    <2>1. Promise!Swap(k)
      BY <1>1, <1>3 DEF MoveDown, Promise!Swap
    <2> QED BY <1>3, <2>1 DEF Promise!Next
  <1> QED BY <1>2, <1>3 DEF Edit, Down

(* Freeing a record marked D is leaving the queue.                         *)
LEMMA PurgePromise ==
  ASSUME Inv, Purge
  PROVE  Promise!Next
  <1>1. PICK k \in 1..Len(list) :
          /\ Free(k)
          /\ IF list[k] = act THEN Drop ELSE UNCHANGED <<act, rd, wr>>
    BY DEF Purge
  <1>2. list[k] \in Item /\ list[k] # None
    BY ListElement, ConstantsOK DEF Inv
  <1>3. rd' = IF list[k] = rd THEN None ELSE rd
    BY <1>1, <1>2 DEF Drop, Inv, HandlesFollowAct
  <1>4. list' = RemoveAt(list, k) /\ UNCHANGED Stored /\ Finished' = Finished
    BY <1>1 DEF Free, Purge, Stored, Finished
  <1> QED BY <1>3, <1>4, LeaveLemma

(* The end of the process halts the queue, with or without its content.    *)
LEMMA DropPromise ==
  ASSUME Inv, Exit \/ Crash
  PROVE  Promise!Next
  <1>1. Promise!Halt
    BY DEF Exit, Crash, Drop, Promise!Halt
  <1> QED BY <1>1 DEF Promise!Next

(* Every step of the engine is a step of the queue or none.                *)
LEMMA NextPromise ==
  ASSUME Inv, SizesFit, LengthsFit, [Next]_vars
  PROVE  [Promise!Next]_(Promise!tqvars)
  <1>1. CASE UNCHANGED <<list, rd, file, fate>>
    BY <1>1, Stutter
  <1>2. OpenEditor \/ LeaveEditor \/ Purged \/ Start \/ Tick \/ World \/ UNCHANGED vars
          => UNCHANGED <<list, rd, file, fate>>
    BY DEF OpenEditor, LeaveEditor, Purged, Start, Tick, World, program, vars
  <1> QED BY <1>1, <1>2, EnginePromise, AddPromise, EditPromise, PurgePromise, DropPromise
             DEF Next, User

-----------------------------------------------------------------------------
(* The lengths stay within an int, so the promise is kept for ever.        *)

LEMMA LengthsFitStep ==
  ASSUME Inv, Inv', SizesFit, LengthsFit, [Promise!Next]_(Promise!tqvars)
  PROVE  LengthsFit'
  <1>1. \A i \in Item : Stored[i] = file[i].len /\ Stored'[i] = file'[i].len
    BY DEF Stored
  <1>2. Stored \in [Item -> Nat] /\ rd \in Item \cup {None} /\ IntHalf > 0
    BY ConstantsOK DEF Inv, TypeOK, File, Stored
  <1>3. CASE UNCHANGED Stored
    BY <1>1, <1>3 DEF LengthsFit
  <1>4. CASE rd # None /\ Promise!Grows
    <2>1. PICK n \in 1..SizeOf[rd] : Stored' = [Stored EXCEPT ![rd] = n]
      BY <1>4 DEF Promise!Grows, Stored
    <2>2. SizeOf[rd] < IntHalf /\ SizeOf[rd] \in Nat /\ IntHalf \in Nat /\ n < IntHalf
      BY <1>2, <1>4, ConstantsOK DEF SizesFit
    <2> QED BY <1>1, <1>2, <1>4, <2>1, <2>2 DEF LengthsFit
  <1>5. CASE rd # None /\ Stored' = [Stored EXCEPT ![rd] = 0]
    BY <1>1, <1>2, <1>5 DEF LengthsFit
  <1>6. ASSUME NEW k \in 1..Len(list), list[k] = rd PROVE rd # None
    BY <1>6, ListElement, ConstantsOK DEF Inv
  <1> QED BY <1>3, <1>4, <1>5, <1>6
          DEF Promise!Next, Promise!Enqueue, Promise!Begin, Promise!Swap, Promise!Receive,
              Promise!Interrupt, Promise!Complete, Promise!Leave, Promise!Halt,
              Promise!tqvars, Stored

(* The whole program, with any number of files, failures, answers, restarts *)
(* and crashes, behaves as the queue of TransferQueue: one transfer at a   *)
(* time, data only for the file being transferred (RdownloadUpload), and   *)
(* no file finished with less than its source has.                         *)
THEOREM ImplementsQueue == SizesFit /\ Spec => KeepsPromise
  <1>1. SizesFit /\ Init => LengthsFit
    BY ConstantsOK DEF SizesFit, Init, LengthsFit
  <1>2. Inv /\ Inv' /\ SizesFit /\ LengthsFit /\ [Next]_vars => LengthsFit'
    BY NextPromise, LengthsFitStep
  <1>3. Inv /\ SizesFit /\ LengthsFit /\ [Next]_vars => [Promise!Next]_(Promise!tqvars)
    BY NextPromise
  <1>4. SizesFit => SizesFit'
    BY DEF SizesFit
  <1> QED BY <1>1, <1>2, <1>3, <1>4, PromiseInit, Invariance, PTL
          DEF Spec, KeepsPromise, Promise!Spec
=============================================================================
