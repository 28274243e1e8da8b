---------------------------- MODULE DuListProofs ----------------------------
(* Proofs about DuListFiles, for processes that load and save one at a     *)
(* time.                                                                   *)
EXTENDS DuListFiles, FiniteSetTheorems, SequenceTheorems, TLAPS

(* One process at most loads or saves, and it knows the file it works on:  *)
(* it has read all of the one that it unlinks, and writes into an empty    *)
(* one that still has its name.  Who has not loaded yet has no list.       *)
OneBusy == \A p, q \in Process : Busy(p) /\ Busy(q) => p = q

FileFollows ==
  \A p \in Process :
    /\ pc[p] \in Loading \cup {"open", "write"} => slot[p] \in Slot
    /\ pc[p] \in Loading => p \in Smbc /\ dir[slot[p]] # None
    /\ pc[p] = "unlink" => list[p] = dir[slot[p]]
    /\ pc[p] = "open" => dir[slot[p]] = None
    /\ pc[p] = "write" => dir[slot[p]] = <<>> /\ open[p]

ListFollows == \A p \in Process : pc[p] \in {"down", "find", "read"} => list[p] = <<>>

Shape == TypeOK /\ OneBusy /\ FileFollows /\ ListFollows

(* Lists and files hold records that were put in a list.                   *)
Known ==
  /\ \A p \in Process : Range(list[p]) \subseteq used
  /\ \A n \in Slot : dir[n] # None => Range(dir[n]) \subseteq used

-----------------------------------------------------------------------------
(* The operators on lists.                                                 *)

LEMMA Removed ==
  ASSUME NEW s \in Seq(Record), NEW k \in 1..Len(s)
  PROVE  /\ RemoveAt(s, k) \in Seq(Record)
         /\ Len(RemoveAt(s, k)) = Len(s) - 1
         /\ \A i \in 1..Len(s) - 1 :
              RemoveAt(s, k)[i] = IF i < k THEN s[i] ELSE s[i + 1]
  <1> DEFINE a == SubSeq(s, 1, k - 1)
             b == SubSeq(s, k + 1, Len(s))
  <1>1. a \in Seq(Record) /\ Len(a) = k - 1 /\ \A i \in 1..k - 1 : a[i] = s[i]
    BY SubSeqProperties
  <1>2. /\ b \in Seq(Record) /\ Len(b) = Len(s) - k
        /\ \A i \in 1..Len(s) - k : b[i] = s[k + i]
    BY SubSeqProperties
  <1>3. /\ a \o b \in Seq(Record) /\ Len(a \o b) = Len(a) + Len(b)
        /\ \A i \in 1..Len(a) + Len(b) :
             (a \o b)[i] = IF i <= Len(a) THEN a[i] ELSE b[i - Len(a)]
    BY <1>1, <1>2, ConcatProperties
  <1>4. RemoveAt(s, k) = a \o b
    BY DEF RemoveAt
  <1> HIDE DEF a, b
  <1>5. Len(s) \in Nat /\ k \in Nat /\ k >= 1 /\ k <= Len(s)
    OBVIOUS
  <1>6. Len(a) + Len(b) = Len(s) - 1
    BY <1>1, <1>2, <1>5
  <1>7. ASSUME NEW i \in 1..Len(s) - 1
        PROVE  (a \o b)[i] = IF i < k THEN s[i] ELSE s[i + 1]
    <2>1. CASE i < k
      <3>1. i \in 1..k - 1 /\ i <= Len(a) /\ i \in 1..Len(a) + Len(b)
        BY <2>1, <1>1, <1>5, <1>6
      <3> QED BY <3>1, <1>1, <1>3, <2>1
    <2>2. CASE ~(i < k)
      <3>1. /\ i - Len(a) \in 1..Len(s) - k /\ ~(i <= Len(a)) /\ i \in 1..Len(a) + Len(b)
            /\ k + (i - Len(a)) = i + 1
        BY <2>2, <1>1, <1>5, <1>6
      <3>2. (a \o b)[i] = b[i - Len(a)]
        BY <3>1, <1>3
      <3>3. b[i - Len(a)] = s[i + 1]
        BY <3>1, <1>2
      <3> QED BY <3>2, <3>3, <2>2, <1>5
    <2> QED BY <2>1, <2>2, <1>5
  <1> QED BY <1>3, <1>4, <1>6, <1>7

(* No record but the one that is taken out goes, and none comes.           *)
LEMMA RemovedRange ==
  ASSUME NEW s \in Seq(Record), NEW k \in 1..Len(s)
  PROVE  /\ Range(s) \ {s[k]} \subseteq Range(RemoveAt(s, k))
         /\ Range(RemoveAt(s, k)) \subseteq Range(s)
  <1> DEFINE t == RemoveAt(s, k)
  <1>1. /\ t \in Seq(Record) /\ Len(t) = Len(s) - 1
        /\ \A i \in 1..Len(s) - 1 : t[i] = IF i < k THEN s[i] ELSE s[i + 1]
    BY Removed
  <1> HIDE DEF t
  <1>2. Range(s) \ {s[k]} \subseteq Range(t)
    <2> SUFFICES ASSUME NEW i \in 1..Len(s), s[i] # s[k] PROVE s[i] \in Range(t)
      BY DEF Range
    <2>1. CASE i < k
      <3>1. i \in 1..Len(t) /\ t[i] = s[i]
        BY <1>1, <2>1
      <3> QED BY <3>1, <1>1 DEF Range
    <2>2. CASE i > k
      <3>1. i - 1 \in 1..Len(t) /\ t[i - 1] = s[i]
        BY <1>1, <2>2
      <3> QED BY <3>1, <1>1 DEF Range
    <2> QED BY <2>1, <2>2
  <1>3. Range(t) \subseteq Range(s)
    <2> SUFFICES ASSUME NEW i \in 1..Len(t) PROVE t[i] \in Range(s)
      BY <1>1 DEF Range
    <2>1. i \in 1..Len(s) /\ i + 1 \in 1..Len(s)
      BY <1>1
    <2> QED BY <1>1, <2>1 DEF Range
  <1> QED BY <1>2, <1>3 DEF t

LEMMA AppendedRange ==
  ASSUME NEW s \in Seq(Record), NEW r \in Record
  PROVE  Range(Append(s, r)) = Range(s) \cup {r}
  <1>1. /\ Append(s, r) \in Seq(Record) /\ Len(Append(s, r)) = Len(s) + 1
        /\ \A i \in 1..Len(s) : Append(s, r)[i] = s[i]
        /\ Append(s, r)[Len(s) + 1] = r
    BY AppendProperties
  <1>2. DOMAIN Append(s, r) = 1..Len(s) + 1 /\ DOMAIN s = 1..Len(s)
    BY <1>1
  <1>3. 1..Len(s) + 1 = (1..Len(s)) \cup {Len(s) + 1}
    OBVIOUS
  <1> QED BY <1>1, <1>2, <1>3 DEF Range

(* What is written into an empty file is what it holds.                    *)
LEMMA WrittenOver ==
  ASSUME NEW s \in Seq(Record)
  PROVE  Over(s, <<>>) = s
  <1>1. SubSeq(<<>>, Len(s) + 1, 0) = <<>>
    OBVIOUS
  <1> QED BY <1>1 DEF Over

(* The first records of a list.                                            *)
LEMMA Prefix ==
  ASSUME NEW s \in Seq(Record), NEW k \in 0..Len(s)
  PROVE  /\ SubSeq(s, 1, k) \in Seq(Record) /\ DOMAIN SubSeq(s, 1, k) = 1..k
         /\ \A i \in 1..k : i \in 1..Len(s) /\ SubSeq(s, 1, k)[i] = s[i]
         /\ Range(SubSeq(s, 1, k)) = {s[i] : i \in 1..k}
         /\ Range(SubSeq(s, 1, k)) \subseteq Range(s)
  <1>1. /\ SubSeq(s, 1, k) \in Seq(Record) /\ Len(SubSeq(s, 1, k)) = k
        /\ \A i \in 1..k : SubSeq(s, 1, k)[i] = s[i]
    BY SubSeqProperties
  <1>2. DOMAIN SubSeq(s, 1, k) = 1..k /\ DOMAIN s = 1..Len(s) /\ 1..k \subseteq 1..Len(s)
    BY <1>1
  <1> QED BY <1>1, <1>2 DEF Range

LEMMA WholePrefix ==
  ASSUME NEW s \in Seq(Record)
  PROVE  SubSeq(s, 1, Len(s)) = s
  OBVIOUS

LEMMA ChildType ==
  ASSUME NEW p \in Smbc
  PROVE  p \in Process /\ Child(p) \in Process /\ Child(p) \notin Smbc
  BY DEF Smbc, Process, Child

-----------------------------------------------------------------------------
LEMMA InitShape == Init => Shape
  BY DuListConstants DEF Init, Shape, TypeOK, OneBusy, FileFollows, ListFollows, Busy,
                         Loading, Saving, Slot

(* A step after which nobody else is busy, or nobody who was not.          *)
LEMMA BusyStays ==
  ASSUME TypeOK, OneBusy, \A q \in Process : Busy(q)' => Busy(q)
  PROVE  OneBusy'
  BY DEF OneBusy

LEMMA BusyAlone ==
  ASSUME TypeOK, ~Overlap, NEW p \in Process, Turn(p),
         \A q \in Process \ {p} : Busy(q)' => Busy(q)
  PROVE  OneBusy'
  BY DEF OneBusy, Turn

(* Taking the lock leaves a process where it is, or starts it.             *)
Locks(p, after) ==
  /\ after \in {"run", "end"} \cup Saving /\ (after = "run" \/ after = pc[p])
  /\ pc[p] \in {"start", "run", "end"} \cup Saving
  /\ \/ /\ lock' = p /\ pc' = [pc EXCEPT ![p] = after, ![Child(p)] = "run"]
        /\ list' = [list EXCEPT ![Child(p)] = list[p]]
        /\ armed' = [armed EXCEPT ![p] = TRUE, ![Child(p)] = armed[p]]
        /\ inside' = [inside EXCEPT ![Child(p)] = inside[p]]
     \/ /\ pc' = [pc EXCEPT ![p] = after] /\ armed' = [armed EXCEPT ![p] = TRUE]
        /\ UNCHANGED <<lock, list, inside>>
  /\ UNCHANGED <<slot, open, dir, used, wanted, copied>>

LEMMA LockParts ==
  ASSUME NEW p \in Smbc, TryLock(p)
  PROVE  \E after : Locks(p, after)
  <1>1. CASE pc[p] = "start"
    <2>1. Locks(p, "run")
      BY <1>1 DEF TryLock, Goes, Locks
    <2> QED BY <2>1
  <1>2. CASE pc[p] \in {"run", "end"} \cup Saving
    <2>1. pc[p] # "start"
      BY <1>2 DEF Saving
    <2>2. Locks(p, pc[p])
      BY <1>2, <2>1 DEF TryLock, Goes, Locks
    <2> QED BY <2>2
  <1> QED BY <1>1, <1>2 DEF TryLock

(* What reaches the file by a save, whole or not.                          *)
PutsSome(p, k) ==
  /\ slot[p] \in Slot /\ dir[slot[p]] = <<>>
  /\ Written(p, k) \in Seq(Record) /\ Range(Written(p, k)) \subseteq Range(list[p])
  /\ dir' = [dir EXCEPT ![slot[p]] = Written(p, k)]
  /\ pc[p] = "write" /\ open' = [open EXCEPT ![p] = FALSE]
  /\ slot' = [slot EXCEPT ![p] = 0] /\ used' = used
  /\ \/ /\ pc' = [pc EXCEPT ![p] = "end"] /\ list' = list /\ wanted' = wanted
        /\ copied' = copied \cup Range(Written(p, k))
     \/ /\ pc' = [pc EXCEPT ![p] = "down"] /\ list' = [list EXCEPT ![p] = <<>>]
        /\ \/ /\ p.index /\ wanted' = wanted
              /\ copied' = copied \cup Range(Written(p, k))
           \/ /\ ~p.index /\ copied' = copied
              /\ wanted' = wanted \ {list[p][i] : i \in k + 1..Len(list[p])}

LEMMA PutsPlaces ==
  ASSUME TypeOK, FileFollows, NEW p \in Process, pc[p] = "write",
         NEW k \in 0..Len(list[p]), Puts(p, k)
  PROVE  /\ slot[p] \in Slot /\ dir[slot[p]] = <<>>
         /\ Written(p, k) \in Seq(Record) /\ Range(Written(p, k)) \subseteq Range(list[p])
         /\ dir' = [dir EXCEPT ![slot[p]] = Written(p, k)]
         /\ open' = [open EXCEPT ![p] = FALSE]
  <1>1. slot[p] \in Slot /\ dir[slot[p]] = <<>> /\ open[p] /\ list[p] \in Seq(Record)
    BY DEF TypeOK, FileFollows
  <1>2. Written(p, k) \in Seq(Record) /\ Range(Written(p, k)) \subseteq Range(list[p])
    BY <1>1, Prefix DEF Written
  <1>3. Over(Written(p, k), <<>>) = Written(p, k)
    BY <1>2, WrittenOver
  <1> QED BY <1>1, <1>2, <1>3 DEF Puts

LEMMA WritersPut ==
  ASSUME TypeOK, FileFollows, NEW p \in Process, Write(p) \/ SignalInWrite(p) \/ BreakOff(p)
  PROVE  \E k \in 0..Len(list[p]) : PutsSome(p, k)
  <1>0. list[p] \in Seq(Record) /\ Len(list[p]) \in Nat
    BY DEF TypeOK
  <1>1. CASE Write(p)
    <2>1. Len(list[p]) \in 0..Len(list[p]) /\ Written(p, Len(list[p])) = list[p]
      BY <1>0, WholePrefix DEF Written
    <2>2. {list[p][i] : i \in Len(list[p]) + 1..Len(list[p])} = {}
      BY <1>0
    <2>3. p.index \in BOOLEAN
      BY DEF Process
    <2>4. pc[p] = "write" /\ Puts(p, Len(list[p]))
      BY <1>1 DEF Write
    <2>5. PutsSome(p, Len(list[p]))
      BY <1>1, <2>1, <2>2, <2>3, <2>4, PutsPlaces DEF Write, Ended, Goes, PutsSome
    <2> QED BY <2>1, <2>5
  <1>2. CASE SignalInWrite(p)
    <2>1. PICK k \in 0..Len(list[p]) : Puts(p, k) /\ copied' = copied \cup Range(Written(p, k))
      BY <1>2 DEF SignalInWrite
    <2>2. PutsSome(p, k)
      BY <1>2, <2>1, PutsPlaces DEF SignalInWrite, Goes, PutsSome
    <2> QED BY <2>2
  <1>3. CASE BreakOff(p)
    <2>1. PICK k \in 0..Len(list[p]) :
            /\ Puts(p, k)
            /\ IF p.index
               THEN copied' = copied \cup Range(Written(p, k)) /\ UNCHANGED wanted
               ELSE /\ wanted' = wanted \ {list[p][i] : i \in k + 1..Len(list[p])}
                    /\ UNCHANGED copied
      BY <1>3 DEF BreakOff
    <2>2. p.index \in BOOLEAN
      BY DEF Process
    <2>3. PutsSome(p, k)
      BY <1>3, <2>1, <2>2, PutsPlaces DEF BreakOff, Ended, Goes, PutsSome
    <2> QED BY <2>3
  <1> QED BY <1>1, <1>2, <1>3

LEMMA StepShape ==
  ASSUME ~Overlap, Shape, Known, [Next]_vars
  PROVE  Shape'
  <1> USE DuListConstants
  <1>1. ASSUME NEW p \in Smbc, Start(p) PROVE Shape'
    BY <1>1, ChildType DEF Start, Shape, TypeOK, OneBusy, FileFollows, ListFollows, Busy,
                Loading, Saving, Goes
  <1>2. ASSUME NEW p \in Smbc, Find(p) PROVE Shape'
    <2> USE ChildType
    <2>1. CASE Goes(p, "start") /\ UNCHANGED slot
      <3>1. \A q \in Process : pc'[q] = "start" \/ pc'[q] = pc[q]
        BY <2>1 DEF Shape, TypeOK, Goes
      <3>2. UNCHANGED <<list, slot, open, armed, inside, lock, dir, used, wanted, copied>>
        BY <1>2, <2>1 DEF Find
      <3>3. TypeOK'
        BY <2>1, <3>2 DEF Shape, TypeOK, Goes, Loading, Saving
      <3>4. OneBusy'
        BY <3>1, BusyStays DEF Shape, Busy, Loading, Saving
      <3>5. FileFollows'
        BY <3>1, <3>2 DEF Shape, FileFollows, Loading
      <3>6. ListFollows'
        BY <3>1, <3>2 DEF Shape, ListFollows
      <3> QED BY <3>3, <3>4, <3>5, <3>6 DEF Shape
    <2>2. ASSUME NEW n \in Slot, dir[n] # None, Goes(p, "read"), slot' = [slot EXCEPT ![p] = n]
          PROVE  Shape'
      <3>1. n \in 0..MaxFile + 1
        BY DEF Slot
      <3>2. TypeOK'
        BY <1>2, <2>2, <3>1 DEF Find, Shape, TypeOK, Goes, Loading, Saving
      <3>3. Turn(p) /\ TypeOK /\ p \in Process
        BY <1>2 DEF Find, Shape
      <3>4. \A q \in Process \ {p} : Busy(q)' => Busy(q)
        BY <2>2 DEF Shape, TypeOK, Busy, Goes
      <3>5. OneBusy'
        BY <3>3, <3>4, BusyAlone
      <3>6. FileFollows'
        BY <1>2, <2>2 DEF Find, Shape, TypeOK, FileFollows, Goes, Loading, Slot
      <3>7. ListFollows'
        BY <1>2, <2>2 DEF Find, Shape, TypeOK, ListFollows, Goes, Loading, Saving
      <3> QED BY <3>2, <3>5, <3>6, <3>7 DEF Shape
    <2> QED BY <1>2, <2>1, <2>2 DEF Find
  <1>3. ASSUME NEW p \in Smbc, Read(p) PROVE Shape'
    <2> USE ChildType
    <2>1. slot[p] \in Slot /\ dir[slot[p]] # None /\ dir[slot[p]] \in Seq(Record)
      BY <1>3 DEF Read, Shape, TypeOK, FileFollows, Loading
    <2>2. /\ list' = [list EXCEPT ![p] = dir[slot[p]]] /\ pc[p] = "read"
          /\ pc' = [pc EXCEPT ![p] = "unlink"]
          /\ UNCHANGED <<slot, open, armed, inside, lock, dir, used, wanted, copied>>
      BY <1>3, <2>1 DEF Read, Goes
    <2>3. TypeOK'
      BY <2>1, <2>2 DEF Shape, TypeOK, Loading, Saving
    <2>4. OneBusy'
      BY <2>2, BusyStays DEF Shape, TypeOK, Busy, Loading, Saving
    <2>5. FileFollows'
      BY <2>1, <2>2 DEF Shape, TypeOK, FileFollows, Loading
    <2>6. ListFollows'
      BY <2>2 DEF Shape, TypeOK, ListFollows
    <2> QED BY <2>3, <2>4, <2>5, <2>6 DEF Shape
  <1>4. ASSUME NEW p \in Smbc, Unlink(p) PROVE Shape'
    <2> USE ChildType
    <2>1. /\ pc[p] = "unlink" /\ pc' = [pc EXCEPT ![p] = "start"]
          /\ dir' = [dir EXCEPT ![slot[p]] = None]
          /\ open' = [q \in Process |-> open[q] /\ slot[q] # slot[p]]
          /\ slot' = [slot EXCEPT ![p] = 0]
          /\ UNCHANGED <<list, armed, inside, lock, used, wanted, copied>>
      BY <1>4 DEF Unlink, Goes
    <2>2. \A q \in Process \ {p} : ~Busy(q)
      BY <2>1 DEF Shape, OneBusy, Busy, Loading
    <2>3. TypeOK'
      <3>1. open' \in [Process -> BOOLEAN]
        BY <2>1 DEF Shape, TypeOK
      <3>2. dir' \in [Slot -> Seq(Record) \cup {None}]
        BY <2>1 DEF Shape, TypeOK
      <3>3. slot' \in [Process -> 0..MaxFile + 1]
        <4>1. 0 \in 0..MaxFile + 1
          BY DuListConstants
        <4> QED BY <2>1, <4>1 DEF Shape, TypeOK
      <3> QED BY <2>1, <3>1, <3>2, <3>3 DEF Shape, TypeOK, Loading, Saving
    <2>4. OneBusy'
      BY <2>1, BusyStays DEF Shape, TypeOK, Busy, Loading, Saving
    <2>5. FileFollows'
      <3>1. \A q \in Process : ~Busy(q)'
        BY <2>1, <2>2 DEF Shape, TypeOK, Busy, Loading, Saving
      <3> QED BY <3>1 DEF FileFollows, Busy, Loading, Saving
    <2>6. ListFollows'
      BY <2>1 DEF Shape, TypeOK, ListFollows
    <2> QED BY <2>3, <2>4, <2>5, <2>6 DEF Shape
  <1>5. ASSUME NEW p \in Smbc, TryLock(p) PROVE Shape'
    <2> USE ChildType
    <2>a. PICK after : Locks(p, after)
      BY <1>5, LockParts
    <2>1. \A q \in Process : pc'[q] = "run" \/ (pc'[q] = pc[q] /\ list'[q] = list[q])
      BY <2>a DEF Locks, Shape, TypeOK
    <2>2. UNCHANGED <<slot, open, dir, used, wanted, copied>>
      BY <2>a DEF Locks
    <2>3. TypeOK'
      <3>1. pc' \in [Process -> {"down", "find", "start", "run", "end"} \cup Loading \cup Saving]
        BY <2>a DEF Locks, Shape, TypeOK
      <3>2. list' \in [Process -> Seq(Record)] /\ inside' \in [Process -> 0..Handlers]
        BY <2>a DEF Locks, Shape, TypeOK
      <3>3. armed' \in [Process -> BOOLEAN]
        <4>1. armed[p] \in BOOLEAN
          BY DEF Shape, TypeOK
        <4> QED BY <2>a, <4>1 DEF Locks, Shape, TypeOK
      <3>4. lock' \in Smbc \cup {None}
        BY <2>a DEF Locks, Shape, TypeOK
      <3> QED BY <2>2, <3>1, <3>2, <3>3, <3>4 DEF Shape, TypeOK
    <2>4. OneBusy'
      BY <2>1, BusyStays DEF Shape, Busy, Loading, Saving
    <2>5. FileFollows'
      BY <2>1, <2>2 DEF Shape, FileFollows, Loading
    <2>6. ListFollows'
      BY <2>1 DEF Shape, ListFollows
    <2> QED BY <2>3, <2>4, <2>5, <2>6 DEF Shape
  <1>6. ASSUME NEW p \in Smbc, NEW r \in Record, Add(p, r) PROVE Shape'
    <2>1. TypeOK'
      BY <1>6, ChildType, AppendProperties DEF Add, Shape, TypeOK, Goes, Loading, Saving, Slot
    <2>2. OneBusy'
      BY <1>6, ChildType, AppendProperties
         DEF Add, Shape, TypeOK, OneBusy, Busy, Goes, Loading, Saving
    <2>3. FileFollows'
      BY <1>6, ChildType, AppendProperties
         DEF Add, Shape, TypeOK, OneBusy, FileFollows, Busy, Goes, Loading, Saving, Slot
    <2>4. ListFollows'
      BY <1>6, ChildType, AppendProperties
         DEF Add, Shape, TypeOK, ListFollows, Goes, Loading, Saving
    <2> QED BY <2>1, <2>2, <2>3, <2>4 DEF Shape
  <1>7. ASSUME NEW p \in Smbc, Transferred(p) PROVE Shape'
    <2>a. PICK k \in 1..Len(list[p]) : /\ list' = [list EXCEPT ![p] = RemoveAt(@, k)]
                                       /\ wanted' = wanted \ {list[p][k]}
      BY <1>7 DEF Transferred
    <2>b. RemoveAt(list[p], k) \in Seq(Record)
      BY Removed, ChildType DEF Shape, TypeOK
    <2>1. TypeOK'
      BY <1>7, <2>a, <2>b, ChildType
         DEF Transferred, Shape, TypeOK, Goes, Loading, Saving, Slot
    <2>2. OneBusy'
      BY <1>7, <2>a, <2>b, ChildType
         DEF Transferred, Shape, TypeOK, OneBusy, Busy, Goes, Loading, Saving
    <2>3. FileFollows'
      BY <1>7, <2>a, <2>b, ChildType
         DEF Transferred, Shape, TypeOK, OneBusy, FileFollows, Busy, Goes, Loading,
             Saving, Slot
    <2>4. ListFollows'
      BY <1>7, <2>a, <2>b, ChildType
         DEF Transferred, Shape, TypeOK, ListFollows, Goes, Loading, Saving
    <2> QED BY <2>1, <2>2, <2>3, <2>4 DEF Shape
  <1>8. ASSUME NEW p \in Smbc, Quit(p) PROVE Shape'
    <2> USE ChildType
    <2>1. /\ pc' = [pc EXCEPT ![p] = "end"]
          /\ UNCHANGED <<list, slot, open, armed, inside, lock, dir, used, wanted, copied>>
      BY <1>8 DEF Quit, Goes
    <2>2. TypeOK'
      BY <2>1 DEF Shape, TypeOK
    <2>3. \A q \in Process : pc'[q] = "end" \/ pc'[q] = pc[q]
      BY <2>1 DEF Shape, TypeOK
    <2>4. OneBusy'
      BY <2>3, BusyStays DEF Shape, Busy, Loading, Saving
    <2>5. FileFollows' /\ ListFollows'
      BY <2>1, <2>3 DEF Shape, FileFollows, ListFollows, Loading
    <2> QED BY <2>2, <2>4, <2>5 DEF Shape
  <1>9. ASSUME NEW p \in Process, Signal(p) \/ SignalAgain(p) PROVE Shape'
    <2>1. /\ UNCHANGED <<list, open, armed, lock, dir, used, wanted, copied>>
          /\ pc' = [pc EXCEPT ![p] = "end"]
          /\ slot' = [slot EXCEPT ![p] = 0] \/ slot' = slot
          /\ inside[p] < Handlers /\ inside' = [inside EXCEPT ![p] = @ + 1]
      BY <1>9 DEF Signal, SignalAgain, Signalled, Goes
    <2>2. inside[p] + 1 \in 0..Handlers /\ 0 \in 0..MaxFile + 1
      BY <2>1 DEF Shape, TypeOK
    <2>3. TypeOK'
      BY <2>1, <2>2 DEF Shape, TypeOK, Loading, Saving
    <2>4. \A q \in Process : \/ pc'[q] = "end"
                             \/ pc'[q] = pc[q] /\ list'[q] = list[q] /\ slot'[q] = slot[q]
      BY <2>1 DEF Shape, TypeOK
    <2>5. OneBusy'
      BY <2>4, BusyStays DEF Shape, Busy, Loading, Saving
    <2>6. FileFollows'
      BY <2>1, <2>4 DEF Shape, FileFollows, Loading
    <2>7. ListFollows'
      BY <2>4 DEF Shape, ListFollows
    <2> QED BY <2>3, <2>5, <2>6, <2>7 DEF Shape
  <1>10. ASSUME NEW p \in Process, End(p) PROVE Shape'
    BY <1>10 DEF End, Turn, Shape, TypeOK, OneBusy, FileFollows, ListFollows, Busy,
                Loading, Saving, Goes
  <1>11. ASSUME NEW p \in Process, Scan(p) PROVE Shape'
    <2>1. TypeOK'
      <3>1. CASE dir[slot[p]] # None
        <4>1. slot[p] + 1 \in 0..MaxFile + 1
          BY <1>11 DEF Scan, Shape, TypeOK
        <4> QED BY <1>11, <3>1, <4>1 DEF Scan, Shape, TypeOK, Loading, Saving
      <3>2. CASE dir[slot[p]] = None
        BY <1>11, <3>2 DEF Scan, Shape, TypeOK, Goes, Loading, Saving
      <3> QED BY <3>1, <3>2
    <2>2. OneBusy'
      BY <1>11 DEF Scan, Shape, TypeOK, OneBusy, Busy, Goes, Loading, Saving
    <2>3. FileFollows'
      BY <1>11 DEF Scan, Shape, TypeOK, OneBusy, FileFollows, Busy, Goes, Loading, Saving, Slot
    <2>4. ListFollows'
      BY <1>11 DEF Scan, Shape, TypeOK, ListFollows, Goes, Loading, Saving
    <2> QED BY <2>1, <2>2, <2>3, <2>4 DEF Shape
  <1>12. ASSUME NEW p \in Process, NothingToSave(p) PROVE Shape'
    BY <1>12 DEF NothingToSave, Ended, Shape, TypeOK, OneBusy, FileFollows, ListFollows, Busy,
                Loading, Saving, Goes, Slot
  <1>13. ASSUME NEW p \in Process, Open(p) PROVE Shape'
    BY <1>13 DEF Open, Shape, TypeOK, OneBusy, FileFollows, ListFollows, Busy,
                Loading, Saving, Goes, Slot
  <1>14. ASSUME NEW p \in Process, Write(p) \/ SignalInWrite(p) \/ BreakOff(p)
         PROVE  Shape'
    <2>1. PICK k \in 0..Len(list[p]) : PutsSome(p, k)
      BY <1>14, WritersPut DEF Shape
    <2>2. /\ slot[p] \in Slot /\ Written(p, k) \in Seq(Record)
          /\ Range(Written(p, k)) \subseteq Range(list[p])
          /\ dir' = [dir EXCEPT ![slot[p]] = Written(p, k)]
      BY <2>1 DEF PutsSome
    <2>3. /\ pc[p] = "write" /\ open' = [open EXCEPT ![p] = FALSE]
          /\ slot' = [slot EXCEPT ![p] = 0]
          /\ \/ pc' = [pc EXCEPT ![p] = "end"] /\ list' = list
             \/ pc' = [pc EXCEPT ![p] = "down"] /\ list' = [list EXCEPT ![p] = <<>>]
      BY <1>14, <2>1 DEF PutsSome
    <2>4. TypeOK'
      <3>1. dir' \in [Slot -> Seq(Record) \cup {None}] /\ open' \in [Process -> BOOLEAN]
        BY <2>2, <2>3 DEF Shape, TypeOK
      <3>2. pc' \in [Process -> {"down", "find", "start", "run", "end"} \cup Loading \cup Saving]
        BY <2>3 DEF Shape, TypeOK
      <3>3. 0 \in 0..MaxFile + 1 /\ 0 \in 0..Handlers /\ <<>> \in Seq(Record)
        OBVIOUS
      <3>4. slot' \in [Process -> 0..MaxFile + 1] /\ list' \in [Process -> Seq(Record)]
        BY <2>3, <3>3 DEF Shape, TypeOK
      <3>5. /\ inside' \in [Process -> 0..Handlers] /\ armed' \in [Process -> BOOLEAN]
            /\ lock' \in Smbc \cup {None}
        <4>1. CASE SignalInWrite(p)
          <5>1. inside[p] + 1 \in 0..Handlers
            BY <4>1 DEF SignalInWrite, Signalled, Shape, TypeOK
          <5> QED BY <4>1, <5>1 DEF SignalInWrite, Signalled, Shape, TypeOK
        <4>2. CASE Write(p) \/ BreakOff(p)
          <5>1. Ended(p)
            BY <4>2 DEF Write, BreakOff
          <5> QED BY <3>3, <5>1 DEF Ended, Shape, TypeOK
        <4> QED BY <1>14, <4>1, <4>2
      <3>6. Range(list[p]) \subseteq used
        BY DEF Known
      <3>7. /\ used' = used /\ wanted' \subseteq wanted
            /\ copied' \subseteq copied \cup Range(list[p])
        BY <2>1, <2>2 DEF PutsSome
      <3>8. wanted' \subseteq used' /\ copied' \subseteq used' /\ used' \subseteq Record
        BY <3>6, <3>7 DEF Shape, TypeOK
      <3> QED BY <3>1, <3>2, <3>4, <3>5, <3>8 DEF TypeOK
    <2>5. OneBusy'
      BY <2>3, BusyStays DEF Shape, TypeOK, Busy, Loading, Saving
    <2>6. ASSUME NEW q \in Process PROVE ~Busy(q)'
      <3>1. ~Busy(p)' /\ (q # p => (Busy(q)' <=> Busy(q)))
        BY <2>3 DEF Shape, TypeOK, Busy, Loading, Saving
      <3>2. Busy(p)
        BY <2>3 DEF Busy, Saving
      <3> QED BY <3>1, <3>2 DEF Shape, OneBusy
    <2>7. FileFollows'
      BY <2>6 DEF FileFollows, Busy, Loading, Saving
    <2>8. ListFollows'
      BY <2>3 DEF Shape, TypeOK, ListFollows
    <2> QED BY <2>4, <2>5, <2>7, <2>8 DEF Shape
  <1>15. ASSUME NEW p \in Process, Crash(p) PROVE Shape'
    BY <1>15 DEF Crash, Ended, Shape, TypeOK, OneBusy, FileFollows, ListFollows, Busy,
                Loading, Saving, Goes, Slot
  <1>16. CASE UNCHANGED vars
    BY <1>16 DEF vars, Shape, TypeOK, OneBusy, FileFollows, ListFollows, Busy
  <1> QED
    BY <1>1, <1>2, <1>3, <1>4, <1>5, <1>6, <1>7, <1>8, <1>9, <1>10, <1>11, <1>12,
       <1>13, <1>14, <1>15, <1>16 DEF Next

-----------------------------------------------------------------------------
LEMMA InitKnown == Init => Known
  BY DEF Init, Known, Range

LEMMA NoRecord == Range(<<>>) = {}
  BY DEF Range

LEMMA StepKnown ==
  ASSUME Shape, Known, [Next]_vars
  PROVE  Known'
  <1> USE ChildType, NoRecord
  <1>0. TypeOK
    BY DEF Shape
  <1>q. ASSUME UNCHANGED <<dir, used>>,
               \A p \in Process : Range(list'[p]) \subseteq used
        PROVE  Known'
    BY <1>q DEF Known
  <1>1. ASSUME UNCHANGED <<list, dir, used>> PROVE Known'
    BY <1>1 DEF Known
  <1>2. ASSUME NEW p \in Smbc, Start(p) \/ Find(p) \/ Quit(p) PROVE Known'
    BY <1>1, <1>2 DEF Start, Find, Quit
  <1>3. ASSUME NEW p \in Smbc, Read(p) PROVE Known'
    <2>1. slot[p] \in Slot /\ dir[slot[p]] # None
      BY <1>3 DEF Read, Shape, FileFollows, Loading
    <2>2. list' = [list EXCEPT ![p] = dir[slot[p]]] /\ UNCHANGED <<dir, used>>
      BY <1>3, <2>1 DEF Read
    <2> QED BY <1>0, <1>q, <2>1, <2>2 DEF TypeOK, Known
  <1>4. ASSUME NEW p \in Smbc, Unlink(p) PROVE Known'
    BY <1>0, <1>4 DEF Unlink, Known, TypeOK
  <1>5. ASSUME NEW p \in Smbc, TryLock(p) PROVE Known'
    <2>1. PICK after : Locks(p, after)
      BY <1>5, LockParts
    <2> QED BY <1>0, <1>q, <2>1 DEF Locks, Known, TypeOK
  <1>6. ASSUME NEW p \in Smbc, NEW r \in Record, Add(p, r) PROVE Known'
    <2>1. Range(Append(list[p], r)) = Range(list[p]) \cup {r}
      BY <1>0, AppendedRange DEF TypeOK
    <2> QED BY <1>0, <1>6, <2>1 DEF Add, Known, TypeOK
  <1>7. ASSUME NEW p \in Smbc, Transferred(p) PROVE Known'
    <2>1. PICK k \in 1..Len(list[p]) : list' = [list EXCEPT ![p] = RemoveAt(@, k)]
      BY <1>7 DEF Transferred
    <2>2. Range(RemoveAt(list[p], k)) \subseteq Range(list[p])
      BY <1>0, RemovedRange DEF TypeOK
    <2> QED BY <1>0, <1>q, <1>7, <2>1, <2>2 DEF Transferred, Known, TypeOK
  <1>8. ASSUME NEW p \in Process, Signal(p) \/ SignalAgain(p) PROVE Known'
    BY <1>1, <1>8 DEF Signal, SignalAgain
  <1>9. ASSUME NEW p \in Process, End(p) \/ Scan(p) PROVE Known'
    BY <1>1, <1>9 DEF End, Scan
  <1>10. ASSUME NEW p \in Process, NothingToSave(p) \/ Crash(p) PROVE Known'
    <2>1. list' = [list EXCEPT ![p] = <<>>] /\ UNCHANGED <<dir, used>>
      BY <1>10 DEF NothingToSave, Crash, Ended
    <2> QED BY <1>0, <1>q, <2>1 DEF Known, TypeOK
  <1>11. ASSUME NEW p \in Process, Open(p) PROVE Known'
    BY <1>0, <1>11 DEF Open, Known, TypeOK
  <1>12. ASSUME NEW p \in Process, Write(p) \/ SignalInWrite(p) \/ BreakOff(p)
         PROVE  Known'
    <2>1. PICK k \in 0..Len(list[p]) : PutsSome(p, k)
      BY <1>0, <1>12, WritersPut DEF Shape
    <2> QED BY <1>0, <2>1 DEF PutsSome, Known, TypeOK
  <1>13. CASE UNCHANGED vars
    BY <1>1, <1>13 DEF vars
  <1> QED
    BY <1>2, <1>3, <1>4, <1>5, <1>6, <1>7, <1>8, <1>9, <1>10, <1>11, <1>12, <1>13 DEF Next

(* The invariant, and that each step keeps it.                             *)
Inv == Shape /\ Known

LEMMA InitInv == Init => Inv
  BY InitShape, InitKnown DEF Inv

LEMMA StepInv == ~Overlap /\ Inv /\ [Next]_vars => Inv'
  BY StepShape, StepKnown DEF Inv

(* Every list and file of any number of processes is a sequence of records *)
(* and no record is counted that was never put in a list, if no two        *)
(* processes load or save at a time (RopenSaveDownloadList, RsigTerm).     *)
THEOREM DuListTyped ==
  ASSUME ~Overlap
  PROVE  Spec => []TypeOK
  <1>1. Inv => TypeOK
    BY DEF Inv, Shape
  <1> QED BY <1>1, InitInv, StepInv, PTL DEF Spec

-----------------------------------------------------------------------------
(* What a step does to the places a record can be at.                      *)

(* The files, and the lists in hand, are those of before.                  *)
SameHand(p) == list'[p] = list[p] /\ (pc'[p] = "unlink" <=> pc[p] = "unlink")
Calm == /\ UNCHANGED <<dir, used, wanted, copied>>
        /\ \A p \in Smbc : SameHand(p)

LEMMA CalmSteps ==
  ASSUME Inv, NEW p \in Process,
         \/ p \in Smbc /\ (Start(p) \/ Find(p) \/ TryLock(p) \/ Quit(p))
         \/ Signal(p) \/ SignalAgain(p) \/ End(p) \/ Scan(p) \/ NothingToSave(p)
  PROVE  Calm
  <1> USE ChildType
  <1>0. TypeOK
    BY DEF Inv, Shape
  <1>1. ASSUME UNCHANGED <<list, dir, used, wanted, copied>>,
               NEW w \in {"find", "start", "read", "end", "scan", "open"},
               Goes(p, w), pc[p] # "unlink"
        PROVE  Calm
    BY <1>0, <1>1 DEF Calm, SameHand, Goes, TypeOK
  <1>2. CASE p \in Smbc /\ Start(p)
    BY <1>1, <1>2 DEF Start
  <1>3. CASE p \in Smbc /\ Find(p)
    BY <1>1, <1>3 DEF Find
  <1>4. CASE p \in Smbc /\ TryLock(p)
    <2>1. PICK after : Locks(p, after)
      BY <1>4, LockParts
    <2>2. ASSUME NEW q \in Smbc PROVE SameHand(q)
      <3>1. q \in Process /\ q # Child(p) /\ p \in Process
        BY <1>4
      <3>2. list'[q] = list[q]
        BY <1>0, <2>1, <3>1 DEF Locks, TypeOK
      <3>3. pc'[q] = pc[q] \/ (q = p /\ pc'[q] \in {"run", "end"} \cup Saving
                              /\ pc[q] \in {"start", "run", "end"} \cup Saving)
        BY <1>0, <2>1, <3>1 DEF Locks, TypeOK
      <3> QED BY <3>2, <3>3 DEF SameHand, Saving
    <2> QED BY <2>1, <2>2 DEF Locks, Calm
  <1>5. CASE p \in Smbc /\ Quit(p)
    BY <1>1, <1>5 DEF Quit
  <1>6. CASE Signal(p) \/ SignalAgain(p)
    BY <1>1, <1>6 DEF Signal, SignalAgain
  <1>7. CASE End(p)
    BY <1>1, <1>7 DEF End
  <1>8. CASE Scan(p)
    BY <1>0, <1>1, <1>8 DEF Scan, Calm, SameHand
  <1>9. CASE NothingToSave(p)
    BY <1>0, <1>9 DEF NothingToSave, Ended, Calm, SameHand, Goes, TypeOK
  <1> QED BY <1>2, <1>3, <1>4, <1>5, <1>6, <1>7, <1>8, <1>9

(* The others, seen from the places.                                       *)
LEMMA ReadPlaces ==
  ASSUME Inv, NEW p \in Smbc, Read(p)
  PROVE  /\ slot[p] \in Slot /\ dir[slot[p]] # None /\ dir[slot[p]] \in Seq(Record)
         /\ list[p] = <<>> /\ list' = [list EXCEPT ![p] = dir[slot[p]]]
         /\ pc[p] = "read" /\ pc' = [pc EXCEPT ![p] = "unlink"]
         /\ UNCHANGED <<slot, dir, used, wanted, copied>>
  BY ChildType DEF Read, Goes, Inv, Shape, TypeOK, FileFollows, ListFollows, Loading

LEMMA UnlinkPlaces ==
  ASSUME Inv, NEW p \in Smbc, Unlink(p)
  PROVE  /\ slot[p] \in Slot /\ dir[slot[p]] # None /\ list[p] = dir[slot[p]]
         /\ dir' = [dir EXCEPT ![slot[p]] = None]
         /\ pc[p] = "unlink" /\ pc' = [pc EXCEPT ![p] = "start"]
         /\ UNCHANGED <<list, used, wanted, copied>>
  BY ChildType DEF Unlink, Goes, Inv, Shape, FileFollows, Loading

LEMMA OpenPlaces ==
  ASSUME Inv, NEW p \in Process, Open(p)
  PROVE  /\ slot[p] \in Slot /\ dir[slot[p]] = None
         /\ dir' = [dir EXCEPT ![slot[p]] = <<>>]
         /\ pc[p] = "open" /\ pc' = [pc EXCEPT ![p] = "write"]
         /\ UNCHANGED <<list, used, wanted, copied>>
  BY DEF Open, Goes, Inv, Shape, FileFollows

-----------------------------------------------------------------------------
LEMMA CalmLosesNothing ==
  ASSUME Inv, NothingLost, Calm
  PROVE  NothingLost'
  <1> SUFFICES ASSUME NEW r \in wanted
               PROVE  Files(r)' # {} \/ Hands(r)' # {}
    BY DEF NothingLost, Calm
  <1>1. Files(r)' = Files(r)
    BY DEF Files, InFile, Calm
  <1>2. Hands(r) \subseteq Hands(r)'
    BY DEF Hands, InHand, Calm, SameHand
  <1> QED BY <1>1, <1>2 DEF NothingLost

LEMMA StepLosesNothing ==
  ASSUME Inv, NothingLost, [Next]_vars
  PROVE  NothingLost'
  <1> USE ChildType, NoRecord
  <1>0. TypeOK
    BY DEF Inv, Shape
  <1>1. ASSUME NEW p \in Process,
               \/ p \in Smbc /\ (Start(p) \/ Find(p) \/ TryLock(p) \/ Quit(p))
               \/ Signal(p) \/ SignalAgain(p) \/ End(p) \/ Scan(p) \/ NothingToSave(p)
        PROVE  NothingLost'
    BY <1>1, CalmSteps, CalmLosesNothing
  <1>2. ASSUME NEW p \in Smbc, Read(p) PROVE NothingLost'
    <2>1. ASSUME NEW r PROVE Files(r)' = Files(r) /\ Hands(r) \subseteq Hands(r)'
      BY <1>0, <1>2, ReadPlaces DEF Files, InFile, Hands, InHand, TypeOK
    <2> QED BY <1>2, <2>1, ReadPlaces DEF NothingLost
  <1>3. ASSUME NEW p \in Smbc, Unlink(p) PROVE NothingLost'
    <2>a. ASSUME NEW r, NEW n \in Files(r) \ {slot[p]} PROVE n \in Files(r)'
      <3>1. n \in Slot /\ dir'[n] = dir[n]
        BY <1>0, <1>3, UnlinkPlaces DEF Files, TypeOK
      <3> QED BY <3>1 DEF Files, InFile
    <2>b. ASSUME NEW r, NEW q \in Hands(r) PROVE q \in Hands(r)'
      BY <1>0, <1>3, UnlinkPlaces DEF Hands, InHand, TypeOK
    <2>1. ASSUME NEW r PROVE Files(r) \ {slot[p]} \subseteq Files(r)' /\ Hands(r) \subseteq Hands(r)'
      BY <2>a, <2>b
    <2>2. ASSUME NEW r, slot[p] \in Files(r) PROVE p \in Hands(r)'
      BY <1>0, <1>3, <2>2, UnlinkPlaces DEF Files, InFile, Hands, InHand, TypeOK
    <2> QED BY <1>3, <2>1, <2>2, UnlinkPlaces DEF NothingLost
  <1>4. ASSUME NEW p \in Smbc, NEW a \in Record, Add(p, a) PROVE NothingLost'
    <2>1. Range(Append(list[p], a)) = Range(list[p]) \cup {a}
      BY <1>0, AppendedRange DEF TypeOK
    <2>2. ASSUME NEW r PROVE Files(r)' = Files(r) /\ Hands(r) \subseteq Hands(r)'
      BY <1>0, <1>4, <2>1 DEF Add, Files, InFile, Hands, InHand, TypeOK
    <2>3. p \in Hands(a)'
      BY <1>0, <1>4, <2>1 DEF Add, Hands, InHand, TypeOK
    <2> QED BY <1>4, <2>2, <2>3 DEF Add, NothingLost
  <1>5. ASSUME NEW p \in Smbc, Transferred(p) PROVE NothingLost'
    <2>1. PICK k \in 1..Len(list[p]) : /\ list' = [list EXCEPT ![p] = RemoveAt(@, k)]
                                       /\ wanted' = wanted \ {list[p][k]}
      BY <1>5 DEF Transferred
    <2>2. Range(list[p]) \ {list[p][k]} \subseteq Range(RemoveAt(list[p], k))
      BY <1>0, RemovedRange DEF TypeOK
    <2>3. ASSUME NEW r \in wanted' PROVE Files(r)' = Files(r) /\ Hands(r) \subseteq Hands(r)'
      BY <1>0, <1>5, <2>1, <2>2 DEF Transferred, Files, InFile, Hands, InHand, TypeOK
    <2> QED BY <2>1, <2>3 DEF NothingLost
  <1>6. ASSUME NEW p \in Process, Open(p) PROVE NothingLost'
    <2>1. ASSUME NEW r PROVE Files(r) \subseteq Files(r)' /\ Hands(r) \subseteq Hands(r)'
      BY <1>0, <1>6, OpenPlaces DEF Files, InFile, Hands, InHand, TypeOK
    <2> QED BY <1>6, <2>1, OpenPlaces DEF NothingLost
  <1>7. ASSUME NEW p \in Process, Write(p) \/ SignalInWrite(p) \/ BreakOff(p)
        PROVE  NothingLost'
    <2>a. PICK k \in 0..Len(list[p]) : PutsSome(p, k)
      BY <1>0, <1>7, WritersPut DEF Inv, Shape
    <2>1. ASSUME NEW r PROVE Files(r) \subseteq Files(r)' /\ Hands(r) \ {p} \subseteq Hands(r)'
      <3>1. ASSUME NEW n \in Files(r) PROVE n \in Files(r)'
        <4>1. n \in Slot /\ dir[n] # None /\ r \in Range(dir[n])
          BY DEF Files, InFile
        <4>2. n # slot[p] /\ dir'[n] = dir[n]
          BY <1>0, <2>a, <4>1 DEF PutsSome, TypeOK
        <4> QED BY <4>1, <4>2 DEF Files, InFile
      <3>2. ASSUME NEW q \in Hands(r) \ {p} PROVE q \in Hands(r)'
        <4>0. q \in Process /\ q # p
          BY DEF Hands, Smbc, Process
        <4>1. list'[q] = list[q] /\ pc'[q] = pc[q]
          BY <1>0, <2>a, <4>0 DEF PutsSome, TypeOK
        <4> QED BY <4>1 DEF Hands, InHand
      <3> QED BY <3>1, <3>2
    <2>2. ASSUME NEW r \in wanted', p \in Hands(r)
          PROVE  slot[p] \in Files(r)' \/ p \in Hands(r)'
      <3>1. p \in Smbc /\ r \in Range(list[p]) /\ list[p] \in Seq(Record) /\ ~p.index
        BY <1>0, <2>2 DEF Hands, InHand, TypeOK, Smbc
      <3>2. CASE pc' = [pc EXCEPT ![p] = "end"] /\ list' = list
        <4>1. pc'[p] # "unlink"
          BY <1>0, <3>2 DEF TypeOK
        <4> QED BY <3>1, <3>2, <4>1 DEF Hands, InHand
      <3>3. CASE wanted' = wanted \ {list[p][i] : i \in k + 1..Len(list[p])}
        <4>1. PICK i \in 1..Len(list[p]) : r = list[p][i]
          BY <3>1 DEF Range
        <4>2. i \in 1..k
          BY <2>2, <3>1, <3>3, <4>1
        <4>3. Written(p, k) \in Seq(Record) /\ r \in Range(Written(p, k))
          BY <3>1, <4>1, <4>2, Prefix DEF Written
        <4>4. Written(p, k) # None
          BY <4>3, DuListConstants
        <4>5. slot[p] \in Slot /\ dir'[slot[p]] = Written(p, k)
          BY <1>0, <2>a DEF PutsSome, TypeOK
        <4> QED BY <4>3, <4>4, <4>5 DEF Files, InFile
      <3> QED BY <2>a, <3>1, <3>2, <3>3 DEF PutsSome
    <2>3. wanted' \subseteq wanted
      BY <2>a DEF PutsSome
    <2> QED BY <2>1, <2>2, <2>3 DEF NothingLost
  <1>8. ASSUME NEW p \in Process, Crash(p) PROVE NothingLost'
    <2>1. ASSUME NEW r PROVE Files(r)' = Files(r) /\ Hands(r) \ {p} \subseteq Hands(r)'
      BY <1>0, <1>8 DEF Crash, Ended, Goes, Files, InFile, Hands, InHand, TypeOK
    <2>2. ASSUME NEW r \in wanted', p \in Hands(r) PROVE FALSE
      <3>1. p \in Smbc /\ r \in Range(list[p]) /\ pc[p] # "unlink"
        BY <2>2 DEF Hands, InHand
      <3>2. pc[p] # "read"
        BY <3>1 DEF Inv, Shape, ListFollows
      <3> QED BY <1>8, <2>2, <3>1, <3>2 DEF Crash, Loading
    <2>3. wanted' \subseteq wanted
      BY <1>8 DEF Crash
    <2> QED BY <2>1, <2>2, <2>3 DEF NothingLost
  <1>9. CASE UNCHANGED vars
    BY <1>9, CalmLosesNothing DEF vars, Calm, SameHand
  <1> QED
    BY <1>1, <1>2, <1>3, <1>4, <1>5, <1>6, <1>7, <1>8, <1>9 DEF Next

(* However many instances start, stop, are killed, get signals while they  *)
(* save or have their lists saved by their children, no record is lost     *)
(* that was neither transferred nor in the list of a killed instance or    *)
(* beyond the end of a full disk.                                          *)
THEOREM DuListLosesNothing ==
  ASSUME ~Overlap
  PROVE  Spec => []NothingLost
  <1>1. Init => NothingLost
    BY DEF Init, NothingLost
  <1> QED BY <1>1, InitInv, StepInv, StepLosesNothing, PTL DEF Spec

-----------------------------------------------------------------------------
(* A record that no child has saved is once in a list or in a file, at one *)
(* place, and gone from it when it is no longer wanted.                    *)
Once(s, r) == \A i, j \in DOMAIN s : s[i] = r /\ s[j] = r => i = j

OncePerList(r) == /\ \A p \in Smbc : Once(list[p], r)
                  /\ \A n \in Slot : dir[n] # None => Once(dir[n], r)
OneFile(r)  == \A m, n \in Slot : InFile(r, m) /\ InFile(r, n) => m = n
OneHand(r)  == \A p, q \in Smbc : InHand(r, p) /\ InHand(r, q) => p = q
FileOrHand(r) == \A n \in Slot, p \in Smbc : ~(InFile(r, n) /\ InHand(r, p))
GoneFrom(r) == (\A n \in Slot : ~InFile(r, n)) /\ (\A p \in Smbc : ~InHand(r, p))

Alone(r) == /\ OncePerList(r) /\ OneFile(r) /\ OneHand(r) /\ FileOrHand(r)
            /\ r \notin wanted => GoneFrom(r)

AllAlone == \A r \in used \ copied : Alone(r)

LEMMA AloneIsNotTwice == AllAlone => NothingTwice
  <1> SUFFICES ASSUME AllAlone, NEW r \in used \ copied
               PROVE  Cardinality(Files(r)) + Cardinality(Hands(r))
                        <= IF r \in wanted THEN 1 ELSE 0
    BY DEF NothingTwice
  <1>1. Alone(r)
    BY DEF AllAlone
  <1>2. Files(r) = {} \/ \E n \in Slot : Files(r) = {n}
    BY <1>1 DEF Alone, OneFile, Files
  <1>3. Hands(r) = {} \/ \E p \in Smbc : Hands(r) = {p}
    BY <1>1 DEF Alone, OneHand, Hands
  <1>4. Files(r) = {} \/ Hands(r) = {}
    BY <1>1 DEF Alone, FileOrHand, Files, Hands
  <1>5. r \notin wanted => Files(r) = {} /\ Hands(r) = {}
    BY <1>1 DEF Alone, GoneFrom, Files, Hands
  <1>6. Cardinality({}) = 0 /\ \A x : Cardinality({x}) = 1
    BY FS_EmptySet, FS_Singleton
  <1>7. /\ Cardinality(Files(r)) = 0 \/ Cardinality(Files(r)) = 1
        /\ Cardinality(Hands(r)) = 0 \/ Cardinality(Hands(r)) = 1
        /\ Cardinality(Files(r)) = 0 \/ Cardinality(Hands(r)) = 0
        /\ r \notin wanted => Cardinality(Files(r)) = 0 /\ Cardinality(Hands(r)) = 0
    BY <1>2, <1>3, <1>4, <1>5, <1>6
  <1> QED BY <1>7

LEMMA CalmIsNotTwice ==
  ASSUME Inv, AllAlone, Calm
  PROVE  AllAlone'
  <1> SUFFICES ASSUME NEW r \in used \ copied PROVE Alone(r)'
    BY DEF AllAlone, Calm
  <1>1. \A n \in Slot : InFile(r, n)' <=> InFile(r, n)
    BY DEF InFile, Calm
  <1>2. \A p \in Smbc : InHand(r, p)' <=> InHand(r, p)
    BY DEF InHand, Calm, SameHand
  <1>3. Alone(r)
    BY DEF AllAlone
  <1>4. OncePerList(r)'
    BY <1>3 DEF Alone, OncePerList, Calm, SameHand
  <1> QED BY <1>1, <1>2, <1>3, <1>4 DEF Alone, OneFile, OneHand, FileOrHand, GoneFrom, Calm

(* What is taken out of a list stood there once.                           *)
LEMMA RemovedOnce ==
  ASSUME NEW s \in Seq(Record), NEW k \in 1..Len(s), NEW r, Once(s, r)
  PROVE  Once(RemoveAt(s, k), r) /\ (r = s[k] => r \notin Range(RemoveAt(s, k)))
  <1> DEFINE t == RemoveAt(s, k)
  <1>1. /\ t \in Seq(Record) /\ Len(t) = Len(s) - 1
        /\ \A i \in 1..Len(s) - 1 : t[i] = IF i < k THEN s[i] ELSE s[i + 1]
    BY Removed
  <1>2. DOMAIN t = 1..Len(s) - 1 /\ DOMAIN s = 1..Len(s) /\ Len(s) \in Nat /\ k \in Nat
    BY <1>1
  <1> HIDE DEF t
  <1> DEFINE of(i) == IF i < k THEN i ELSE i + 1
  <1>3. ASSUME NEW i \in 1..Len(s) - 1 PROVE of(i) \in 1..Len(s) /\ of(i) # k /\ t[i] = s[of(i)]
    <2>1. CASE i < k
      BY <1>1, <1>2, <2>1
    <2>2. CASE ~(i < k)
      BY <1>1, <1>2, <2>2
    <2> QED BY <2>1, <2>2
  <1>4. ASSUME NEW i \in 1..Len(s) - 1, NEW j \in 1..Len(s) - 1, of(i) = of(j) PROVE i = j
    BY <1>2, <1>4
  <1> HIDE DEF of
  <1>5. Once(t, r)
    BY <1>2, <1>3, <1>4 DEF Once
  <1>6. r = s[k] => r \notin Range(t)
    BY <1>2, <1>3 DEF Once, Range
  <1> QED BY <1>5, <1>6 DEF t

LEMMA AppendedOnce ==
  ASSUME NEW s \in Seq(Record), NEW a \in Record, NEW r,
         Once(s, r), r = a => r \notin Range(s)
  PROVE  Once(Append(s, a), r)
  <1>1. /\ Append(s, a) \in Seq(Record) /\ Len(Append(s, a)) = Len(s) + 1
        /\ \A i \in 1..Len(s) : Append(s, a)[i] = s[i]
        /\ Append(s, a)[Len(s) + 1] = a
    BY AppendProperties
  <1>2. DOMAIN Append(s, a) = 1..Len(s) + 1 /\ DOMAIN s = 1..Len(s) /\ Len(s) \in Nat
    BY <1>1
  <1> SUFFICES ASSUME NEW i \in 1..Len(s) + 1, NEW j \in 1..Len(s) + 1,
                      Append(s, a)[i] = r, Append(s, a)[j] = r
               PROVE  i = j
    BY <1>2 DEF Once
  <1>3. CASE r = a
    <2>1. ASSUME NEW m \in 1..Len(s) PROVE Append(s, a)[m] # r
      BY <1>1, <1>2, <1>3 DEF Range
    <2> QED BY <1>2, <2>1
  <1>4. CASE r # a
    <2>1. i \in 1..Len(s) /\ j \in 1..Len(s)
      BY <1>1, <1>2, <1>4
    <2> QED BY <1>1, <1>2, <2>1 DEF Once
  <1> QED BY <1>3, <1>4

LEMMA EmptyOnce == \A r : Once(<<>>, r)
  BY DEF Once

-----------------------------------------------------------------------------
(* The steps that are not calm.                                            *)
LEMMA ReadAlone ==
  ASSUME Inv, AllAlone, NEW p \in Smbc, Read(p)
  PROVE  AllAlone'
  <1> USE ChildType, NoRecord, ReadPlaces
  <1>0. TypeOK
    BY DEF Inv, Shape
  <1> SUFFICES ASSUME NEW r \in used \ copied PROVE Alone(r)'
    BY DEF AllAlone
  <1>1. Alone(r)
    BY DEF AllAlone
  <1>2. \A n \in Slot : InFile(r, n)' <=> InFile(r, n)
    BY DEF InFile
  <1>3. ASSUME NEW q \in Smbc PROVE InHand(r, q)' <=> InHand(r, q)
    <2>1. CASE q = p
      BY <1>0, <2>1 DEF InHand, TypeOK
    <2>2. CASE q # p
      BY <1>0, <2>2 DEF InHand, TypeOK
    <2> QED BY <2>1, <2>2
  <1>4. OncePerList(r)'
    <2>1. ASSUME NEW q \in Smbc PROVE list'[q] = list[q] \/ list'[q] = dir[slot[p]]
      <3>1. q \in Process /\ list' = [list EXCEPT ![p] = dir[slot[p]]]
        BY ReadPlaces, ChildType
      <3> QED BY <1>0, <3>1 DEF TypeOK
    <2> QED BY <1>1, <2>1 DEF Alone, OncePerList
  <1> QED BY <1>1, <1>2, <1>3, <1>4 DEF Alone, OneFile, OneHand, FileOrHand, GoneFrom

LEMMA UnlinkAlone ==
  ASSUME Inv, AllAlone, NEW p \in Smbc, Unlink(p)
  PROVE  AllAlone'
  <1> USE ChildType, NoRecord, UnlinkPlaces
  <1>0. TypeOK
    BY DEF Inv, Shape
  <1> SUFFICES ASSUME NEW r \in used \ copied PROVE Alone(r)'
    BY DEF AllAlone
  <1>1. Alone(r)
    BY DEF AllAlone
  <1>2. ASSUME NEW n \in Slot PROVE InFile(r, n)' <=> InFile(r, n) /\ n # slot[p]
    BY <1>0 DEF InFile, TypeOK
  <1>3. ASSUME NEW q \in Smbc
        PROVE  InHand(r, q)' <=> InHand(r, q) \/ (q = p /\ InFile(r, slot[p]))
    <2>1. /\ p \in Process /\ q \in Process /\ list' = list
          /\ pc' = [pc EXCEPT ![p] = "start"] /\ DOMAIN pc = Process
          /\ pc[p] = "unlink" /\ list[p] = dir[slot[p]] /\ dir[slot[p]] # None
      BY <1>0 DEF TypeOK
    <2>2. CASE q = p
      <3>1. pc'[q] = "start" /\ list'[q] = dir[slot[p]] /\ pc[q] = "unlink"
        BY <2>1, <2>2
      <3> QED BY <2>1, <2>2, <3>1 DEF InHand, InFile
    <2>3. CASE q # p
      <3>1. pc'[q] = pc[q] /\ list'[q] = list[q]
        BY <2>1, <2>3
      <3> QED BY <2>3, <3>1 DEF InHand
    <2> QED BY <2>2, <2>3
  <1>4. OncePerList(r)'
    <2>1. \A n \in Slot : dir'[n] = dir[n] \/ dir'[n] = None
      BY <1>0 DEF TypeOK
    <2> QED BY <1>1, <2>1 DEF Alone, OncePerList
  <1> QED BY <1>1, <1>2, <1>3, <1>4 DEF Alone, OneFile, OneHand, FileOrHand, GoneFrom

LEMMA AddAlone ==
  ASSUME Inv, AllAlone, NEW p \in Smbc, NEW a \in Record, Add(p, a)
  PROVE  AllAlone'
  <1> USE ChildType
  <1>0. TypeOK /\ Known
    BY DEF Inv, Shape
  <1>1. /\ pc[p] = "run" /\ a \notin used
        /\ list' = [list EXCEPT ![p] = Append(list[p], a)]
        /\ used' = used \cup {a} /\ wanted' = wanted \cup {a}
        /\ UNCHANGED <<pc, dir, copied>>
    BY DEF Add
  <1>2. Range(Append(list[p], a)) = Range(list[p]) \cup {a}
    BY <1>0, AppendedRange DEF TypeOK
  <1>3. ASSUME NEW r \in Record, NEW n \in Slot PROVE InFile(r, n)' <=> InFile(r, n)
    BY <1>1 DEF InFile
  <1>4. ASSUME NEW r \in Record, NEW q \in Smbc
        PROVE  InHand(r, q)' <=> InHand(r, q) \/ (q = p /\ r = a)
    BY <1>0, <1>1, <1>2 DEF InHand, TypeOK
  <1>5. GoneFrom(a) /\ \A q \in Smbc : a \notin Range(list[q])
    BY <1>0, <1>1 DEF GoneFrom, InFile, InHand, Known
  <1> SUFFICES ASSUME NEW r \in used \cup {a}, r \notin copied PROVE Alone(r)'
    BY <1>1 DEF AllAlone
  <1>6. CASE r = a
    <2>1. ASSUME NEW s \in Seq(Record), a \notin Range(s) PROVE Once(s, a)
      BY <2>1 DEF Once, Range
    <2>2. ASSUME NEW q \in Smbc PROVE Once(list'[q], a)
      <3>1. Once(list[q], a) /\ list[q] \in Seq(Record)
        BY <1>0, <1>5, <2>1 DEF TypeOK
      <3> QED BY <1>0, <1>1, <1>5, <3>1, AppendedOnce DEF TypeOK
    <2>3. ASSUME NEW n \in Slot, dir[n] # None PROVE Once(dir[n], a)
      BY <1>0, <1>1, <2>1, <2>3 DEF TypeOK, Known
    <2>4. OncePerList(a)'
      BY <1>1, <2>2, <2>3 DEF OncePerList
    <2> QED BY <1>1, <1>3, <1>4, <1>5, <1>6, <2>4
            DEF Alone, OneFile, OneHand, FileOrHand, GoneFrom
  <1>7. CASE r # a
    <2>1. Alone(r) /\ r \in Record
      BY <1>0, <1>7 DEF AllAlone, TypeOK
    <2>2. ASSUME NEW q \in Smbc PROVE Once(list'[q], r)
      <3>1. Once(list[q], r) /\ list[q] \in Seq(Record)
        BY <1>0, <2>1 DEF TypeOK, Alone, OncePerList
      <3> QED BY <1>0, <1>1, <1>7, <3>1, AppendedOnce DEF TypeOK
    <2>3. OncePerList(r)'
      BY <1>1, <2>1, <2>2 DEF Alone, OncePerList
    <2> QED BY <1>1, <1>3, <1>4, <1>7, <2>1, <2>3
            DEF Alone, OneFile, OneHand, FileOrHand, GoneFrom
  <1> QED BY <1>6, <1>7

LEMMA TransferredAlone ==
  ASSUME Inv, AllAlone, NEW p \in Smbc, Transferred(p)
  PROVE  AllAlone'
  <1> USE ChildType
  <1>0. TypeOK
    BY DEF Inv, Shape
  <1>1. PICK k \in 1..Len(list[p]) : /\ list' = [list EXCEPT ![p] = RemoveAt(@, k)]
                                     /\ wanted' = wanted \ {list[p][k]}
    BY DEF Transferred
  <1>2. pc[p] = "run" /\ list[p] \in Seq(Record) /\ UNCHANGED <<pc, dir, used, copied>>
    BY <1>0 DEF Transferred, TypeOK
  <1> SUFFICES ASSUME NEW r \in used \ copied PROVE Alone(r)'
    BY <1>2 DEF AllAlone
  <1>3. Alone(r)
    BY DEF AllAlone
  <1>4. Once(list[p], r)
    BY <1>3 DEF Alone, OncePerList
  <1>5. /\ Once(RemoveAt(list[p], k), r)
        /\ r = list[p][k] => r \notin Range(RemoveAt(list[p], k))
        /\ Range(RemoveAt(list[p], k)) \subseteq Range(list[p])
    BY <1>2, <1>4, RemovedOnce, RemovedRange
  <1>6. OncePerList(r)'
    BY <1>0, <1>1, <1>2, <1>3, <1>5 DEF Alone, OncePerList, TypeOK
  <1>7. \A n \in Slot : InFile(r, n)' <=> InFile(r, n)
    BY <1>2 DEF InFile
  <1>8. ASSUME NEW q \in Smbc, InHand(r, q)' PROVE InHand(r, q) /\ (q = p => r # list[p][k])
    BY <1>0, <1>1, <1>2, <1>5, <1>8 DEF InHand, TypeOK
  <1>9. r = list[p][k] => InHand(r, p)
    BY <1>2 DEF InHand, Range
  <1>10. r = list[p][k] => GoneFrom(r)'
    BY <1>3, <1>7, <1>8, <1>9 DEF Alone, OneHand, FileOrHand, GoneFrom
  <1>11. r \notin wanted' => GoneFrom(r)'
    BY <1>1, <1>3, <1>7, <1>8, <1>10 DEF Alone, GoneFrom
  <1> QED BY <1>3, <1>6, <1>7, <1>8, <1>11 DEF Alone, OneFile, OneHand, FileOrHand

LEMMA OpenAlone ==
  ASSUME Inv, AllAlone, NEW p \in Process, Open(p)
  PROVE  AllAlone'
  <1> USE NoRecord, OpenPlaces
  <1>0. TypeOK
    BY DEF Inv, Shape
  <1> SUFFICES ASSUME NEW r \in used \ copied PROVE Alone(r)'
    BY DEF AllAlone
  <1>1. Alone(r)
    BY DEF AllAlone
  <1>2. ASSUME NEW n \in Slot PROVE InFile(r, n)' <=> InFile(r, n)
    BY <1>0 DEF InFile, TypeOK
  <1>3. ASSUME NEW q \in Smbc PROVE InHand(r, q)' <=> InHand(r, q)
    <2>1. q \in Process
      BY DEF Smbc, Process
    <2>2. pc'[q] = "unlink" <=> pc[q] = "unlink"
      BY <1>0, <2>1 DEF TypeOK
    <2> QED BY <2>2 DEF InHand
  <1>4. OncePerList(r)'
    <2>1. \A n \in Slot : dir'[n] = dir[n] \/ dir'[n] = <<>>
      BY <1>0 DEF TypeOK
    <2> QED BY <1>1, <2>1, EmptyOnce DEF Alone, OncePerList
  <1> QED BY <1>1, <1>2, <1>3, <1>4 DEF Alone, OneFile, OneHand, FileOrHand, GoneFrom

LEMMA WriteAlone ==
  ASSUME Inv, AllAlone, NEW p \in Process, Write(p) \/ SignalInWrite(p) \/ BreakOff(p)
  PROVE  AllAlone'
  <1> USE NoRecord
  <1>0. TypeOK /\ FileFollows
    BY DEF Inv, Shape
  <1>k. PICK k \in 0..Len(list[p]) : PutsSome(p, k)
    BY <1>0, WritersPut
  <1>1. Smbc \subseteq Process /\ (p \in Smbc <=> ~p.index)
    BY DEF Smbc, Process
  <1>2. /\ list[p] \in Seq(Record) /\ slot[p] \in Slot /\ dir[slot[p]] = <<>>
        /\ Written(p, k) \in Seq(Record) /\ Written(p, k) # None
        /\ dir' = [dir EXCEPT ![slot[p]] = Written(p, k)]
        /\ used' = used /\ pc[p] = "write"
    BY <1>0, <1>k, DuListConstants DEF PutsSome, TypeOK
  <1> SUFFICES ASSUME NEW r \in used \ copied' PROVE Alone(r)'
    BY <1>2 DEF AllAlone
  <1>3. Alone(r)
    BY <1>k DEF AllAlone, PutsSome
  <1>4. ASSUME NEW n \in Slot
        PROVE  InFile(r, n)' <=> InFile(r, n) \/ (n = slot[p] /\ r \in Range(Written(p, k)))
    BY <1>0, <1>2 DEF InFile, TypeOK
  <1>5. /\ \A i \in 1..k : i \in 1..Len(list[p]) /\ Written(p, k)[i] = list[p][i]
        /\ DOMAIN Written(p, k) = 1..k /\ DOMAIN list[p] = 1..Len(list[p])
        /\ Range(Written(p, k)) \subseteq Range(list[p])
        /\ Range(Written(p, k)) = {list[p][i] : i \in 1..k}
    <2>1. DOMAIN list[p] = 1..Len(list[p])
      BY <1>2
    <2>2. k \in 0..Len(list[p])
      BY <1>k
    <2> QED BY ONLY <1>2, <2>1, <2>2, Prefix DEF Written
  <1>6. ASSUME Once(list[p], r) PROVE Once(Written(p, k), r)
    BY <1>5, <1>6 DEF Once
  <1>7. CASE r \notin Range(Written(p, k))
    <2>1. Once(Written(p, k), r)
      BY <1>7 DEF Once, Range
    <2>2. \A n \in Slot : dir'[n] = dir[n] \/ dir'[n] = Written(p, k)
      BY <1>0, <1>2 DEF TypeOK
    <2>3. ASSUME NEW q \in Smbc PROVE list'[q] = list[q] \/ list'[q] = <<>>
      BY <1>0, <1>1, <1>k DEF PutsSome, TypeOK
    <2>4. OncePerList(r)'
      BY <1>3, <2>1, <2>2, <2>3, EmptyOnce DEF Alone, OncePerList
    <2>5. ASSUME NEW q \in Smbc, InHand(r, q)' PROVE InHand(r, q)
      <3>1. q \in Process /\ pc[p] # "unlink"
        BY <1>1, <1>2
      <3>2. list'[q] = list[q] \/ list'[q] = <<>>
        BY <2>3
      <3>3. pc'[q] = pc[q] \/ q = p
        BY <1>0, <1>k, <3>1 DEF PutsSome, TypeOK
      <3> QED BY <2>5, <3>1, <3>2, <3>3 DEF InHand
    <2>6. r \notin wanted' => GoneFrom(r)'
      <3>1. CASE wanted' = wanted
        BY <1>3, <1>4, <1>7, <2>5, <3>1 DEF Alone, GoneFrom
      <3>2. CASE ~p.index /\ pc' = [pc EXCEPT ![p] = "down"] /\ list' = [list EXCEPT ![p] = <<>>]
        <4>1. ~InHand(r, p)'
          BY <1>0, <3>2 DEF InHand, TypeOK
        <4>2. CASE r \in wanted /\ r \notin wanted'
          <5>1. r \in Range(list[p])
            BY <1>5, <1>k, <4>2 DEF PutsSome, Range
          <5>2. p \in Smbc /\ InHand(r, p)
            BY <1>1, <1>2, <3>2, <5>1 DEF InHand
          <5> QED BY <1>3, <1>4, <1>7, <2>5, <4>1, <5>2 DEF Alone, OneHand, FileOrHand, GoneFrom
        <4>3. CASE r \notin wanted
          BY <1>3, <1>4, <1>7, <2>5, <4>3 DEF Alone, GoneFrom
        <4> QED BY <4>2, <4>3
      <3> QED BY <1>k, <3>1, <3>2 DEF PutsSome
    <2> QED BY <1>3, <1>4, <1>7, <2>4, <2>5, <2>6
            DEF Alone, OneFile, OneHand, FileOrHand
  <1>8. CASE r \in Range(Written(p, k))
    <2>1. /\ ~p.index /\ pc' = [pc EXCEPT ![p] = "down"] /\ list' = [list EXCEPT ![p] = <<>>]
          /\ wanted' = wanted \ {list[p][i] : i \in k + 1..Len(list[p])}
      BY <1>k, <1>8 DEF PutsSome
    <2>2. p \in Smbc /\ r \in Range(list[p]) /\ InHand(r, p)
      BY <1>1, <1>2, <1>5, <1>8, <2>1 DEF InHand
    <2>3. Once(list[p], r) /\ Once(Written(p, k), r)
      BY <1>3, <1>6, <2>2 DEF Alone, OncePerList
    <2>4. ASSUME NEW q \in Smbc PROVE InHand(r, q)' <=> InHand(r, q) /\ q # p
      BY <1>0, <1>1, <2>1 DEF InHand, TypeOK
    <2>5. OncePerList(r)'
      <3>1. \A n \in Slot : dir'[n] = dir[n] \/ dir'[n] = Written(p, k)
        BY <1>0, <1>2 DEF TypeOK
      <3>2. \A q \in Smbc : list'[q] = list[q] \/ list'[q] = <<>>
        BY <1>0, <1>1, <2>1 DEF TypeOK
      <3> QED BY <1>3, <2>3, <3>1, <3>2, EmptyOnce DEF Alone, OncePerList
    <2>6. r \in wanted => r \in wanted'
      <3> SUFFICES ASSUME NEW i \in k + 1..Len(list[p]), r = list[p][i] PROVE FALSE
        BY <2>1
      <3>1. PICK j \in 1..k : r = list[p][j]
        BY <1>5, <1>8
      <3>2. i \in 1..Len(list[p]) /\ j \in 1..Len(list[p]) /\ i # j
        BY <1>5
      <3> QED BY <1>5, <2>3, <3>1, <3>2 DEF Once
    <2>7. r \in wanted
      BY <1>3, <2>2 DEF Alone, GoneFrom
    <2> QED BY <1>2, <1>3, <1>4, <1>8, <2>2, <2>4, <2>5, <2>6, <2>7
            DEF Alone, OneFile, OneHand, FileOrHand, GoneFrom
  <1> QED BY <1>7, <1>8

LEMMA CrashAlone ==
  ASSUME Inv, AllAlone, NEW p \in Process, Crash(p)
  PROVE  AllAlone'
  <1> USE NoRecord
  <1>0. TypeOK
    BY DEF Inv, Shape
  <1>1. /\ list' = [list EXCEPT ![p] = <<>>] /\ pc' = [pc EXCEPT ![p] = "down"]
        /\ wanted' = IF p \in Smbc /\ pc[p] \notin Loading
                     THEN wanted \ Range(list[p]) ELSE wanted
        /\ UNCHANGED <<dir, used, copied>>
    BY DEF Crash, Ended, Goes
  <1>2. Smbc \subseteq Process
    BY DEF Smbc, Process
  <1> SUFFICES ASSUME NEW r \in used \ copied PROVE Alone(r)'
    BY <1>1 DEF AllAlone
  <1>3. Alone(r)
    BY DEF AllAlone
  <1>4. \A n \in Slot : InFile(r, n)' <=> InFile(r, n)
    BY <1>1 DEF InFile
  <1>5. ASSUME NEW q \in Smbc PROVE InHand(r, q)' <=> InHand(r, q) /\ q # p
    BY <1>0, <1>1, <1>2 DEF InHand, TypeOK
  <1>6. OncePerList(r)'
    BY <1>0, <1>1, <1>2, <1>3, EmptyOnce DEF Alone, OncePerList, TypeOK
  <1>7. r \in wanted /\ r \notin wanted' => p \in Smbc /\ InHand(r, p)
    BY <1>1 DEF InHand, Loading
  <1>8. r \notin wanted' => GoneFrom(r)'
    BY <1>3, <1>4, <1>5, <1>7 DEF Alone, GoneFrom, OneHand, FileOrHand
  <1> QED BY <1>3, <1>4, <1>5, <1>6, <1>8 DEF Alone, OneFile, OneHand, FileOrHand

LEMMA StepAlone ==
  ASSUME Inv, AllAlone, [Next]_vars
  PROVE  AllAlone'
  <1>1. ASSUME NEW p \in Process,
               \/ p \in Smbc /\ (Start(p) \/ Find(p) \/ TryLock(p) \/ Quit(p))
               \/ Signal(p) \/ SignalAgain(p) \/ End(p) \/ Scan(p) \/ NothingToSave(p)
        PROVE  AllAlone'
    BY <1>1, CalmSteps, CalmIsNotTwice
  <1>2. CASE UNCHANGED vars
    BY <1>2, CalmIsNotTwice DEF vars, Calm, SameHand
  <1> QED
    BY <1>1, <1>2, ChildType, ReadAlone, UnlinkAlone, AddAlone, TransferredAlone, OpenAlone,
       WriteAlone, CrashAlone DEF Next

(* However many instances start, load, save and are killed, a record waits *)
(* in one place only, and none comes back that was transferred, but for    *)
(* what a child has saved, or what stood in a file already when a signal   *)
(* interrupted its writing and entered RsigTerm again.                     *)
THEOREM DuListDoublesNothing ==
  ASSUME ~Overlap
  PROVE  Spec => []NothingTwice
  <1>1. Init => AllAlone
    BY DEF Init, AllAlone
  <1> QED BY <1>1, InitInv, StepInv, StepAlone, AloneIsNotTwice, PTL DEF Spec
=============================================================================
