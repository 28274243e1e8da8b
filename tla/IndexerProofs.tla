--------------------------- MODULE IndexerProofs ----------------------------
(* Proofs about Indexer.                                                   *)
EXTENDS Indexer, FiniteSetTheorems, FunctionTheorems, TLAPS

(* The index that is being written and the finished one. Without crossed   *)
(* there is one indexer (OneAtWork), which writes to what is findfileprim  *)
(* (PrimFollows), and that is never findfile (FindFollows).                *)
FdFollows ==
  \A c \in Child : /\ pc[c] \in {"none", "create", "rename"} => fd[c] = None
                   /\ pc[c] \in {"check", "sleep"} => fd[c] \in {None, Failed}
                   /\ pc[c] \in {"scan", "copy"} => fd[c] \in Inode

OneAtWork == \A c, d \in Alive : c = d

PrimFollows ==
  \A c \in Child :
    /\ pc[c] \in {"scan", "copy"} => fd[c] = prim
    /\ pc[c] = "scan" => prim # None /\ text[prim] = "empty"
    /\ pc[c] = "copy" => prim # None /\ text[prim] = "part"
    /\ pc[c] = "rename" => prim # None /\ text[prim] = "whole"

FindFollows == find # None => find # prim /\ text[find] = "whole"

Inv == /\ TypeOK /\ FdFollows
       /\ ~crossed => OneAtWork /\ PrimFollows /\ FindFollows

-----------------------------------------------------------------------------
(* There is a file that no name and no indexer refers to: findfile and     *)
(* each of the indexers occupy one at most.                                *)
LEMMA FreeFile ==
  ASSUME TypeOK, prim = None
  PROVE  Free # {}
  <1> SUFFICES ASSUME Free = {} PROVE FALSE
    OBVIOUS
  <1> DEFINE used == Range(fd)
  <1>1. IsFiniteSet(Child) /\ Cardinality(Child) \in Nat
    BY IndexerConstants, FS_CardinalityType
  <1>2. fd \in Surjection(Child, used)
    BY Fun_RangeProperties DEF TypeOK
  <1>3. IsFiniteSet(used) /\ Cardinality(used) <= Cardinality(Child)
    BY <1>1, <1>2, FS_Surjection
  <1>4. /\ IsFiniteSet(used \cup {find})
        /\ Cardinality(used \cup {find}) <= Cardinality(Child) + 1
    <2>1. Cardinality(used) \in Nat
      BY <1>3, FS_CardinalityType
    <2>2. /\ IsFiniteSet(used \cup {find})
          /\ Cardinality(used \cup {find}) = IF find \in used THEN Cardinality(used)
                                             ELSE Cardinality(used) + 1
      BY <1>3, FS_AddElement
    <2> QED BY <2>1, <2>2, <1>1, <1>3
  <1>5. Inode \subseteq used \cup {find}
    <2> SUFFICES ASSUME NEW n \in Inode PROVE n \in used \cup {find}
      OBVIOUS
    <2>1. n = find \/ \E c \in Child : fd[c] = n
      BY IndexerConstants DEF Free
    <2> QED BY <2>1 DEF Range, TypeOK
  <1>6. Cardinality(Inode) <= Cardinality(used \cup {find})
    BY <1>4, <1>5, FS_Subset
  <1>7. Cardinality(Inode) \in Nat /\ Cardinality(used \cup {find}) \in Nat
    BY <1>4, <1>5, FS_Subset, FS_CardinalityType
  <1> QED BY <1>1, <1>4, <1>6, <1>7, IndexerConstants

(* The initial state.                                                      *)
LEMMA InitInv == Init => Inv
  BY DEF Init, Inv, TypeOK, FdFollows, OneAtWork, PrimFollows, FindFollows, Alive, Places

(* An instance takes the lock: if nobody indexes, the new indexer is the   *)
(* only one, and findfile is gone.                                         *)
LEMMA TryLockStep ==
  ASSUME Inv, NEW i \in Instance, TryLock(i)
  PROVE  Inv'
  <1> PICK c \in Child : Fork(i, c) /\ holders' = {i}
    BY DEF TryLock
  <1> USE DEF Fork
  <1>1. TypeOK'
    BY DEF Inv, TypeOK, Places
  <1>2. FdFollows'
    BY DEF Inv, TypeOK, FdFollows
  <1>3. ASSUME ~crossed' PROVE OneAtWork' /\ PrimFollows' /\ FindFollows'
    <2>1. ~crossed /\ \A d \in Child : pc[d] = "none"
      BY <1>3 DEF Alive
    <2> QED BY <2>1 DEF Inv, TypeOK, OneAtWork, PrimFollows, FindFollows, Alive
  <1> QED BY <1>1, <1>2, <1>3 DEF Inv

(* A step of one indexer, or its end, leaves the others where they are.    *)
LEMMA StillOne ==
  ASSUME TypeOK, OneAtWork, NEW c \in Child, pc[c] # "none",
         NEW where \in Places, Goes(c, where)
  PROVE  OneAtWork'
  BY DEF TypeOK, OneAtWork, Alive, Goes

(* An indexer that ends.                                                   *)
LEMMA GoneStep ==
  ASSUME Inv, NEW c \in Child, pc[c] # "none", Gone(c),
         UNCHANGED <<run, prim, find, text, crossed>>
  PROVE  Inv'
  <1> USE DEF Gone
  <1>1. TypeOK'
    BY DEF Inv, TypeOK, Places, Goes
  <1>2. FdFollows'
    BY DEF Inv, TypeOK, FdFollows, Goes
  <1>3. ASSUME ~crossed' PROVE OneAtWork' /\ PrimFollows' /\ FindFollows'
    <2>1. OneAtWork'
      BY <1>3, StillOne DEF Inv, Places
    <2>2. PrimFollows' /\ FindFollows'
      BY <1>3 DEF Inv, TypeOK, PrimFollows, FindFollows, Goes
    <2> QED BY <2>1, <2>2
  <1> QED BY <1>1, <1>2, <1>3 DEF Inv

(* The lock is tried.                                                      *)
LEMMA CheckStep ==
  ASSUME Inv, NEW c \in Child, Check(c)
  PROVE  Inv'
  <1>1. CASE holders = {} /\ c \notin blind
    BY <1>1, GoneStep DEF Check
  <1>2. CASE ~(holders = {} /\ c \notin blind)
    <2> DEFINE where == IF fd[c] = None THEN "create" ELSE "sleep"
    <2>1. /\ pc[c] = "check" /\ Goes(c, where)
          /\ UNCHANGED <<holders, fd, run, prim, find, text, blind, crossed>>
      BY <1>2 DEF Check
    <2>2. TypeOK'
      BY <2>1 DEF Inv, TypeOK, Places, Goes
    <2>3. FdFollows'
      BY <2>1 DEF Inv, TypeOK, FdFollows, Goes
    <2>4. ASSUME ~crossed' PROVE OneAtWork' /\ PrimFollows' /\ FindFollows'
      <3>1. OneAtWork'
        BY <2>1, <2>4, StillOne DEF Inv, Places
      <3>2. PrimFollows' /\ FindFollows'
        BY <2>1, <2>4 DEF Inv, TypeOK, PrimFollows, FindFollows, Goes
      <3> QED BY <3>1, <3>2
    <2> QED BY <2>2, <2>3, <2>4 DEF Inv
  <1> QED BY <1>1, <1>2

(* findfileprim is created or truncated; findfile is another file.         *)
LEMMA CreateStep ==
  ASSUME Inv, NEW c \in Child, Create(c)
  PROVE  Inv'
  <1> DEFINE n == IF prim = None THEN CHOOSE m \in Free : TRUE ELSE prim
  <1>1. CASE /\ Goes(c, "scan") /\ prim' = n /\ fd' = [fd EXCEPT ![c] = n]
             /\ text' = [text EXCEPT ![n] = Truncated(n)]
    <2> USE <1>1
    <2>1. pc[c] = "create" /\ UNCHANGED <<run, holders, find, blind, crossed>>
      BY DEF Create
    <2>2. n \in Inode /\ (find # None => (find # prim => find # n))
      BY FreeFile DEF Inv, TypeOK, Free
    <2> HIDE DEF n
    <2>3. Truncated(n) \in {"mixed", "empty"}
      BY DEF Truncated
    <2>4. TypeOK'
      BY <2>1, <2>2, <2>3 DEF Inv, TypeOK, Places, Goes
    <2>5. FdFollows'
      BY <2>1, <2>2 DEF Inv, TypeOK, FdFollows, Goes
    <2>6. ASSUME ~crossed' PROVE OneAtWork' /\ PrimFollows' /\ FindFollows'
      <3>1. OneAtWork'
        BY <2>1, <2>6, StillOne DEF Inv, Places
      <3>2. \A d \in Child : d # c => pc[d] = "none"
        BY <2>1, <2>6 DEF Inv, OneAtWork, Alive
      <3>3. Truncated(n) = "empty"
        BY <2>1, <3>2 DEF Truncated
      <3>4. PrimFollows'
        BY <2>1, <2>2, <3>2, <3>3, IndexerConstants DEF Inv, TypeOK, PrimFollows, Goes
      <3>5. FindFollows'
        BY <2>1, <2>2, <2>6 DEF Inv, TypeOK, FindFollows
      <3> QED BY <3>1, <3>4, <3>5
    <2> QED BY <2>4, <2>5, <2>6 DEF Inv
  <1>2. CASE Goes(c, "sleep") /\ fd' = [fd EXCEPT ![c] = Failed] /\ UNCHANGED <<prim, text>>
    <2> USE <1>2
    <2>1. pc[c] = "create" /\ UNCHANGED <<run, holders, find, blind, crossed>>
      BY DEF Create
    <2>2. TypeOK' /\ FdFollows'
      BY <2>1 DEF Inv, TypeOK, FdFollows, Places, Goes
    <2>3. ASSUME ~crossed' PROVE OneAtWork' /\ PrimFollows' /\ FindFollows'
      <3>1. OneAtWork'
        BY <2>1, <2>3, StillOne DEF Inv, Places
      <3>2. PrimFollows' /\ FindFollows'
        BY <2>1, <2>3 DEF Inv, TypeOK, PrimFollows, FindFollows, Goes
      <3> QED BY <3>1, <3>2
    <2> QED BY <2>2, <2>3 DEF Inv
  <1> QED BY <1>1, <1>2 DEF Create

(* The copy begins in the empty file and ends in the same one.             *)
LEMMA CopyStep ==
  ASSUME Inv, NEW c \in Child, BeginCopy(c) \/ EndCopy(c)
  PROVE  Inv'
  <1> DEFINE f == fd[c]
  <1>1. pc[c] \in {"scan", "copy"} /\ f \in Inode /\ UNCHANGED <<run, holders, prim, find, blind, crossed>>
    BY DEF Inv, FdFollows, BeginCopy, EndCopy
  <1>2. TypeOK'
    BY <1>1 DEF Inv, TypeOK, Places, BeginCopy, EndCopy, Goes
  <1>3. FdFollows'
    BY <1>1 DEF Inv, TypeOK, FdFollows, BeginCopy, EndCopy, Goes
  <1>4. ASSUME ~crossed' PROVE OneAtWork' /\ PrimFollows' /\ FindFollows'
    <2>1. OneAtWork'
      BY <1>1, <1>4, StillOne DEF Inv, Places, BeginCopy, EndCopy
    <2>2. \A d \in Child : d # c => pc[d] = "none"
      BY <1>1, <1>4 DEF Inv, OneAtWork, Alive
    <2>3. f = prim /\ prim # None
      BY <1>1, <1>4 DEF Inv, PrimFollows
    <2>4. PrimFollows'
      BY <1>1, <1>4, <2>2, <2>3 DEF Inv, TypeOK, PrimFollows, BeginCopy, EndCopy, Goes
    <2>5. FindFollows'
      BY <1>1, <1>4, <2>3 DEF Inv, TypeOK, FindFollows, BeginCopy, EndCopy
    <2> QED BY <2>1, <2>4, <2>5
  <1> QED BY <1>2, <1>3, <1>4 DEF Inv

(* The whole findfileprim becomes findfile.                                *)
LEMMA RenameStep ==
  ASSUME Inv, NEW c \in Child, Rename(c)
  PROVE  Inv'
  <1>1. pc[c] = "rename" /\ UNCHANGED <<run, holders, fd, text, blind, crossed>>
    BY DEF Rename
  <1>2. TypeOK' /\ FdFollows'
    BY <1>1 DEF Inv, TypeOK, FdFollows, Places, Rename, Goes
  <1>3. ASSUME ~crossed' PROVE OneAtWork' /\ PrimFollows' /\ FindFollows'
    <2>1. OneAtWork'
      BY <1>1, <1>3, StillOne DEF Inv, Places, Rename
    <2>2. \A d \in Child : d # c => pc[d] = "none"
      BY <1>1, <1>3 DEF Inv, OneAtWork, Alive
    <2>3. prim # None /\ text[prim] = "whole"
      BY <1>1, <1>3 DEF Inv, PrimFollows
    <2>4. PrimFollows' /\ FindFollows'
      BY <1>1, <2>2, <2>3 DEF Inv, TypeOK, PrimFollows, FindFollows, Rename, Goes
    <2> QED BY <2>1, <2>4
  <1> QED BY <1>2, <1>3 DEF Inv

(* The indexer has slept, or ends if it was to index once.                 *)
LEMMA SleepStep ==
  ASSUME Inv, NEW c \in Child, Sleep(c)
  PROVE  Inv'
  <1>1. CASE IndexTime > 1
    <2>1. /\ pc[c] = "sleep" /\ Goes(c, "check")
          /\ UNCHANGED <<holders, fd, run, prim, find, text, blind, crossed>>
      BY <1>1 DEF Sleep
    <2>2. TypeOK' /\ FdFollows'
      BY <2>1 DEF Inv, TypeOK, FdFollows, Places, Goes
    <2>3. ASSUME ~crossed' PROVE OneAtWork' /\ PrimFollows' /\ FindFollows'
      <3>1. OneAtWork'
        BY <2>1, <2>3, StillOne DEF Inv, Places
      <3>2. PrimFollows' /\ FindFollows'
        BY <2>1, <2>3 DEF Inv, TypeOK, PrimFollows, FindFollows, Goes
      <3> QED BY <3>1, <3>2
    <2> QED BY <2>2, <2>3 DEF Inv
  <1>2. CASE ~(IndexTime > 1)
    BY <1>2, GoneStep DEF Sleep
  <1> QED BY <1>1, <1>2

(* Every step preserves the invariant.                                     *)
LEMMA NextInv == Inv /\ [Next]_vars => Inv'
  <1> SUFFICES ASSUME Inv, [Next]_vars PROVE Inv'
    OBVIOUS
  <1>1. ASSUME NEW i \in Instance, Start(i) \/ Quit(i) PROVE Inv'
    BY <1>1 DEF Inv, TypeOK, FdFollows, OneAtWork, PrimFollows, FindFollows, Alive,
                Start, Quit, files
  <1>2. ASSUME NEW i \in Instance, TryLock(i) PROVE Inv'
    BY <1>2, TryLockStep
  <1>3. ASSUME NEW c \in Child, Index(c) PROVE Inv'
    BY <1>3, CheckStep, CreateStep, CopyStep, RenameStep, SleepStep DEF Index
  <1>4. ASSUME NEW c \in Child, Kill(c) PROVE Inv'
    BY <1>4, GoneStep DEF Kill
  <1>5. CASE UNCHANGED vars
    BY <1>5 DEF Inv, TypeOK, FdFollows, OneAtWork, PrimFollows, FindFollows, Alive,
                vars, files
  <1> QED BY <1>1, <1>2, <1>3, <1>4, <1>5 DEF Next

(* The invariant holds of every behaviour.                                 *)
LEMMA Invariance == Spec => []Inv
  BY InitInv, NextInv, PTL DEF Spec

(* Every reachable state is typed, for any number of instances, indexers   *)
(* and files; above all, findfileprim can always be created, and the lock  *)
(* is held by instances that run.                                          *)
THEOREM IndexerTyped == Spec => []TypeOK
  <1>1. Inv => TypeOK
    BY DEF Inv
  <1> QED BY <1>1, Invariance, PTL

(* As long as no instance takes the lock while an earlier indexer is alive, *)
(* findfile is all that one indexer has found, whenever indexers or        *)
(* instances end (RcreateFindIndex).                                       *)
THEOREM WholeIndex == Spec => []IndexIsWhole
  <1>1. Inv => IndexIsWhole
    BY DEF Inv, FindFollows, IndexIsWhole
  <1> QED BY <1>1, Invariance, PTL

-----------------------------------------------------------------------------
(* What NoneLeftBehind needs of each step: how far an indexer is from its  *)
(* end, if it finds the lock free at the top of its loop.                  *)
Rank == [p \in Places |-> CASE p = "none" -> 0 [] p = "check" -> 1 [] p = "sleep" -> 2
                            [] p = "rename" -> 3 [] p = "copy" -> 4
                            [] p = "scan" -> 5 [] p = "create" -> 6]
RunsOut ==
  [][run' = {} => /\ \A c \in Child : pc[c] = "none" => pc'[c] = "none"
                  /\ \A c \in Child \ blind :
                       /\ Rank[pc'[c]] <= Rank[pc[c]]
                       /\ Index(c) => Rank[pc'[c]] < Rank[pc[c]]]_vars

LEMMA RankIs ==
  /\ Rank["none"] = 0 /\ Rank["check"] = 1 /\ Rank["sleep"] = 2 /\ Rank["rename"] = 3
  /\ Rank["copy"] = 4 /\ Rank["scan"] = 5 /\ Rank["create"] = 6
  BY DEF Rank, Places

(* One step of an indexer when the lock is free.                           *)
LEMMA IndexDescends ==
  ASSUME TypeOK, holders = {}, NEW c \in Child, Index(c)
  PROVE  /\ c \notin blind => Rank[pc'[c]] < Rank[pc[c]]
         /\ pc[c] # "none" /\ \A d \in Child \ {c} : pc'[d] = pc[d]
  <1>1. \A p \in Places : Goes(c, p) => pc'[c] = p /\ \A d \in Child \ {c} : pc'[d] = pc[d]
    BY DEF Goes, TypeOK
  <1>2. CASE Check(c)
    BY <1>1, <1>2, RankIs DEF Check, Gone, Places
  <1>3. CASE Create(c)
    <2>1. pc[c] = "create" /\ (Goes(c, "scan") \/ Goes(c, "sleep"))
      BY <1>3 DEF Create
    <2> QED BY <1>1, <2>1, RankIs DEF Places
  <1>4. CASE BeginCopy(c) \/ EndCopy(c) \/ Rename(c)
    BY <1>1, <1>4, RankIs DEF BeginCopy, EndCopy, Rename, Places
  <1>5. CASE Sleep(c)
    BY <1>1, <1>5, RankIs DEF Sleep, Gone, Places
  <1> QED BY <1>2, <1>3, <1>4, <1>5 DEF Index

(* Once no instance runs the lock stays free and no indexer starts, and    *)
(* each step of one that could open smbc.lock brings it nearer to its end  *)
(* and leaves the others where they are, whoever is killed meanwhile       *)
(* (RcreateFindIndex).                                                     *)
THEOREM IndexersRunOut == Spec => RunsOut
  <1> DEFINE Lower == /\ \A c \in Child : pc[c] = "none" => pc'[c] = "none"
                      /\ \A c \in Child \ blind :
                           /\ Rank[pc'[c]] <= Rank[pc[c]]
                           /\ Index(c) => Rank[pc'[c]] < Rank[pc[c]]
  <1>1. ASSUME TypeOK, TypeOK', [Next]_vars, run' = {} PROVE Lower \/ UNCHANGED vars
    <2>1. \A c \in Child : Rank[pc[c]] \in Nat /\ Rank[pc'[c]] \in Nat
      BY <1>1, RankIs DEF TypeOK, Places
    <2>2. CASE \E i \in Instance : Start(i)
      BY <1>1, <2>2 DEF Start
    <2>3. CASE \E i \in Instance : TryLock(i)
      BY <1>1, <2>3 DEF TryLock, Fork
    <2>4. ASSUME NEW i \in Instance, Quit(i) PROVE Lower
      <3>1. pc' = pc /\ run # {}
        BY <2>4 DEF Quit
      <3>2. \A c \in Child : ~Index(c)
        BY <1>1, <3>1 DEF Index, Check, Create, BeginCopy, EndCopy, Rename, Sleep
      <3> QED BY <2>1, <3>1, <3>2
    <2>5. ASSUME NEW c \in Child, Index(c) PROVE Lower
      <3>1. run = {}
        BY <1>1, <2>5 DEF Index, Check, Create, BeginCopy, EndCopy, Rename, Sleep
      <3>2. holders = {}
        BY <1>1, <3>1 DEF TypeOK
      <3>3. ASSUME NEW d \in Child \ blind PROVE Index(d) => Rank[pc'[d]] < Rank[pc[d]]
        BY <1>1, <3>2, IndexDescends
      <3>4. pc[c] # "none" /\ \A d \in Child \ {c} : pc'[d] = pc[d]
        BY <1>1, <2>5, <3>2, IndexDescends
      <3>5. ASSUME NEW d \in Child \ blind PROVE Rank[pc'[d]] <= Rank[pc[d]]
        <4>1. CASE d = c
          BY <2>1, <2>5, <3>3, <4>1
        <4>2. CASE d # c
          BY <2>1, <3>4, <4>2
        <4> QED BY <4>1, <4>2
      <3>6. \A d \in Child : pc[d] = "none" => pc'[d] = "none"
        BY <3>4
      <3> QED BY <3>3, <3>5, <3>6
    <2>6. ASSUME NEW c \in Child, Kill(c) PROVE Lower
      <3>1. pc' = [pc EXCEPT ![c] = "none"] /\ run' = run
        BY <2>6 DEF Kill, Gone, Goes
      <3>2. holders = {}
        BY <1>1, <3>1 DEF TypeOK
      <3>3. ASSUME NEW d \in Child \ blind PROVE Index(d) => Rank[pc'[d]] < Rank[pc[d]]
        BY <1>1, <3>2, IndexDescends
      <3>4. ASSUME NEW d \in Child
            PROVE  Rank[pc'[d]] <= Rank[pc[d]] /\ (pc[d] = "none" => pc'[d] = "none")
        BY <1>1, <2>1, <3>1, RankIs DEF TypeOK
      <3> QED BY <3>3, <3>4
    <2> QED BY <1>1, <2>2, <2>3, <2>4, <2>5, <2>6 DEF Next
  <1>2. TypeOK /\ TypeOK' /\ [Next]_vars => [run' = {} => Lower]_vars
    BY <1>1
  <1> QED BY <1>2, IndexerTyped, PTL DEF Spec, RunsOut
=============================================================================
