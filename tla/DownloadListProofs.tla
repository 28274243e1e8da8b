-------------------------- MODULE DownloadListProofs --------------------------
(***************************************************************************)
(* Proofs about DownloadList: the records stay chained in both directions, *)
(* RdownloadList is the first of them where the code counts on it, what    *)
(* the engine and the editor point to is in the list, and the list is the  *)
(* queue of TransferQueue.                                                 *)
(***************************************************************************)
EXTENDS DownloadList, DataInduction

(* The sequence q is what the links are meant to be, from the first record *)
(* to the last. LinkedBothWays says less of a state, and a step is not     *)
(* seen to keep it without knowing where every other link leads.           *)
Link(q, i) == IF i \in 1..Len(q) THEN q[i] ELSE Null
Links      == [Node -> Node \cup {Null}]

IsLinked(q, nx, pv) ==
  /\ q \in Seq(Node) /\ Once(q) /\ nx \in Links /\ pv \in Links
  /\ \A i \in 1..Len(q) : nx[q[i]] = Link(q, i + 1) /\ pv[q[i]] = Link(q, i - 1)
  /\ \A n \in Node \ Elems(q) : nx[n] = Null /\ pv[n] = Null

Pointed(q, c) == IF q = <<>> THEN c = Null ELSE c \in Elems(q)

-----------------------------------------------------------------------------
(* The walk along the links f finds the sequence q that they lead through. *)
Walks(f, q) == \A i \in 1..Len(q) : f[q[i]] = Link(q, i + 1)

PathUpTo(f) ==
  CHOOSE w : w = [k \in 0..Cardinality(Node) + 1 |->
                    IF k = 0 THEN [m \in Node \cup {Null} |-> <<>>]
                    ELSE [m \in Node \cup {Null} |->
                            IF m = Null THEN <<>> ELSE <<m>> \o w[k - 1][f[m]]]]

LEMMA NodesCounted == Cardinality(Node) \in Nat /\ Cardinality(Node) + 1 \in Nat
  BY ListConstants, FS_CardinalityType

LEMMA ConsIs ==
  ASSUME NEW m \in Node, NEW s \in Seq(Node)
  PROVE  <<m>> \o s \in Seq(Node)
  <1>1. <<m>> \in Seq(Node)
    OBVIOUS
  <1> QED BY <1>1, ConcatProperties

LEMMA PathUpToIs ==
  ASSUME NEW f \in Links
  PROVE  /\ PathUpTo(f)[0] = [m \in Node \cup {Null} |-> <<>>]
         /\ \A k \in 1..Cardinality(Node) + 1 :
              PathUpTo(f)[k] = [m \in Node \cup {Null} |->
                IF m = Null THEN <<>> ELSE <<m>> \o PathUpTo(f)[k - 1][f[m]]]
  <1> DEFINE n == Cardinality(Node) + 1
             A == [Node \cup {Null} -> Seq(Node)]
             none == [m \in Node \cup {Null} |-> <<>>]
             step(r) == [m \in Node \cup {Null} |->
                           IF m = Null THEN <<>> ELSE <<m>> \o r[f[m]]]
             Def(g) == g = [k \in 0..n |-> IF k = 0 THEN none ELSE step(g[k - 1])]
             next1 == [k \in 1..n |-> [r \in A |-> step(r)]]
             w == PathUpTo(f)
  <1>0. n \in Nat /\ none \in A
    BY NodesCounted
  <1>1. ASSUME NEW r \in A
        PROVE  step(r) \in A
    <2> SUFFICES ASSUME NEW m \in Node \cup {Null}, m # Null
                 PROVE  <<m>> \o r[f[m]] \in Seq(Node)
      OBVIOUS
    <2>1. m \in Node /\ f[m] \in Node \cup {Null}
      BY DEF Links
    <2>2. r[f[m]] \in Seq(Node)
      BY <2>1
    <2> QED BY <2>1, <2>2, ConsIs
  <1> HIDE DEF n, step, A, none
  <1>2. next1 \in [1..n -> [A -> A]]
    BY <1>1
  <1>3. PICK h \in [0..n -> A] : h[0] = none /\ \A k \in 1..n : h[k] = next1[k][h[k - 1]]
    <2>1. next1 \in Steps(n, A)
      BY <1>2 DEF Steps
    <2> HIDE DEF next1
    <2>2. \E g : Follows(g, n, A, none, next1)
      BY <1>0, <2>1, Recursion
    <2> QED BY <2>2 DEF Follows
  <1>4. \A k \in 1..n : h[k] = step(h[k - 1])
    <2> SUFFICES ASSUME NEW k \in 1..n PROVE next1[k][h[k - 1]] = step(h[k - 1])
      BY <1>3
    <2>1. k - 1 \in 0..n
      BY <1>0
    <2>2. h[k - 1] \in A
      BY <1>3, <2>1
    <2> QED BY <2>2
  <1> HIDE DEF next1
  <1>5. Def(h)
    <2>1. \A k \in 0..n : k = 0 \/ k \in 1..n
      BY <1>0
    <2>2. \A k \in 0..n : h[k] = IF k = 0 THEN none ELSE step(h[k - 1])
      BY <2>1, <1>3, <1>4
    <2>3. h = [k \in 0..n |-> h[k]]
      BY <1>3
    <2> QED BY <2>2, <2>3
  <1>6. Def(w)
    <2>1. w = CHOOSE g : Def(g)
      BY DEF PathUpTo, step, n, none
    <2> HIDE DEF Def, w
    <2> QED BY <1>5, <2>1
  <1>7. w[0] = none /\ \A k \in 1..n : w[k] = step(w[k - 1])
    <2>1. (\A k \in 1..n : k \in 0..n /\ k # 0) /\ 0 \in 0..n
      BY <1>0
    <2>2. w = [k \in 0..n |-> IF k = 0 THEN none ELSE step(w[k - 1])]
      BY <1>6
    <2> HIDE DEF w
    <2>3. \A k \in 0..n : w[k] = IF k = 0 THEN none ELSE step(w[k - 1])
      BY <2>2
    <2> QED BY <2>1, <2>3
  <1> QED BY <1>7 DEF n, step, none

LEMMA RestOf ==
  ASSUME NEW q \in Seq(Node), NEW j \in 1..Len(q)
  PROVE  <<q[j]>> \o SubSeq(q, j + 1, Len(q)) = SubSeq(q, j, Len(q))
  <1> DEFINE one == <<q[j]>>
             rest == SubSeq(q, j + 1, Len(q))
             both == SubSeq(q, j, Len(q))
             n == Len(q)
  <1>1. n \in Nat /\ (\A i \in 1..n : q[i] \in Node) /\ j \in 1..n
    BY LenProperties, ElementOfSeq
  <1>2. one \in Seq(Node) /\ Len(one) = 1 /\ one[1] = q[j]
    BY <1>1
  <1>3. /\ rest \in Seq(Node) /\ Len(rest) = n - j
        /\ \A i \in 1..n - j : rest[i] = q[j + i]
    <2>1. \A i \in j + 1..n : q[i] \in Node
      BY <1>1
    <2>2. /\ rest \in Seq(Node)
          /\ Len(rest) = IF j + 1 <= n THEN n - (j + 1) + 1 ELSE 0
          /\ \A i \in 1..(n - (j + 1) + 1) : rest[i] = q[(j + 1) + i - 1]
      BY <1>1, <2>1, SubSeqProperties
    <2> QED BY <1>1, <2>2
  <1>4. /\ both \in Seq(Node) /\ Len(both) = n - j + 1
        /\ \A i \in 1..n - j + 1 : both[i] = q[j + i - 1]
    <2>1. \A i \in j..n : q[i] \in Node
      BY <1>1
    <2>2. /\ both \in Seq(Node)
          /\ Len(both) = IF j <= n THEN n - j + 1 ELSE 0
          /\ \A i \in 1..(n - j + 1) : both[i] = q[j + i - 1]
      BY <1>1, <2>1, SubSeqProperties
    <2> QED BY <1>1, <2>2
  <1> HIDE DEF one, rest, both, n
  <1> DEFINE all == one \o rest
  <1>5. /\ all \in Seq(Node) /\ Len(all) = n - j + 1
        /\ \A i \in 1..n - j + 1 : all[i] = IF i <= 1 THEN one[i] ELSE rest[i - 1]
    <2>1. /\ all \in Seq(Node) /\ Len(all) = Len(one) + Len(rest)
          /\ \A i \in 1..Len(one) + Len(rest) :
               all[i] = IF i <= Len(one) THEN one[i] ELSE rest[i - Len(one)]
      BY <1>2, <1>3, ConcatProperties
    <2>2. Len(one) + Len(rest) = n - j + 1 /\ Len(one) = 1
      BY <1>1, <1>2, <1>3
    <2> QED BY <2>1, <2>2
  <1> HIDE DEF all
  <1>6. \A i \in 1..n - j + 1 : all[i] = both[i]
    <2> SUFFICES ASSUME NEW i \in 1..n - j + 1 PROVE all[i] = both[i]
      OBVIOUS
    <2>1. CASE i = 1
      BY <1>1, <1>2, <1>4, <1>5, <2>1
    <2>2. CASE i # 1
      <3>1. i - 1 \in 1..n - j /\ j + (i - 1) = j + i - 1
        BY <1>1, <2>2
      <3> QED BY <1>1, <1>3, <1>4, <1>5, <2>2, <3>1
    <2> QED BY <2>1, <2>2
  <1>7. all = both
    <2>1. Len(all) = Len(both)
      BY <1>4, <1>5
    <2> QED BY <1>4, <1>5, <1>6, <2>1, SeqEqual
  <1> QED BY <1>7 DEF all, one, rest, both, n

(* From each place of q on the walk is the rest of q.                      *)
LEMMA PathIs ==
  ASSUME NEW f \in Links, NEW q \in Seq(Node), Len(q) <= Cardinality(Node), Walks(f, q)
  PROVE  Path(f, Link(q, 1)) = q
  <1> DEFINE n == Cardinality(Node) + 1
             w == PathUpTo(f)
             Rest(j) == SubSeq(q, j, Len(q))
             Q == {k \in 0..n : \A j \in 1..Len(q) + 1 :
                                  Len(q) + 1 - j <= k => w[k][Link(q, j)] = Rest(j)}
  <1>1. /\ n \in Nat /\ Len(q) \in Nat /\ Len(q) + 1 <= n
        /\ \A j \in 1..Len(q) : q[j] \in Node /\ q[j] # Null
    BY NodesCounted, ListConstants
  <1>2. w[0] = [m \in Node \cup {Null} |-> <<>>]
    BY PathUpToIs
  <1>3. \A k \in 1..n : w[k] = [m \in Node \cup {Null} |->
                                  IF m = Null THEN <<>> ELSE <<m>> \o w[k - 1][f[m]]]
    BY PathUpToIs
  <1>4. Rest(Len(q) + 1) = <<>> /\ Link(q, Len(q) + 1) = Null /\ Rest(1) = q
    BY <1>1 DEF Link
  <1> HIDE DEF w, Rest
  <1>5. 0 \in Q
    <2>1. \A j \in 1..Len(q) + 1 : Len(q) + 1 - j <= 0 => j = Len(q) + 1
      BY <1>1
    <2>2. w[0][Null] = <<>>
      BY <1>2
    <2> QED BY <2>1, <2>2, <1>1, <1>4
  <1>6. ASSUME NEW k \in 0..n - 1, k \in Q
        PROVE  k + 1 \in Q
    <2>1. k + 1 \in 1..n /\ k + 1 \in 0..n /\ (k + 1) - 1 = k
      BY <1>1
    <2>2. w[k + 1] = [m \in Node \cup {Null} |->
                        IF m = Null THEN <<>> ELSE <<m>> \o w[k][f[m]]]
      BY <1>3, <2>1
    <2>3. ASSUME NEW j \in 1..Len(q) + 1, Len(q) + 1 - j <= k + 1
          PROVE  w[k + 1][Link(q, j)] = Rest(j)
      <3>1. CASE j = Len(q) + 1
        BY <3>1, <1>4, <2>2
      <3>2. CASE j \in 1..Len(q)
        <4>1. Link(q, j) = q[j] /\ q[j] \in Node /\ q[j] # Null /\ f[q[j]] = Link(q, j + 1)
          BY <3>2, <1>1 DEF Link, Walks
        <4>2. j + 1 \in 1..Len(q) + 1 /\ Len(q) + 1 - (j + 1) <= k
          BY <3>2, <2>3, <1>1
        <4>3. w[k][Link(q, j + 1)] = Rest(j + 1)
          BY <4>2, <1>6
        <4>4. w[k + 1][q[j]] = <<q[j]>> \o Rest(j + 1)
          <5> DEFINE x == q[j]
          <5>1. x \in Node \cup {Null} /\ x # Null /\ w[k][f[x]] = Rest(j + 1)
            BY <4>1, <4>3
          <5> HIDE DEF x
          <5>2. w[k + 1][x] = <<x>> \o w[k][f[x]]
            BY <2>2, <5>1
          <5> QED BY <5>1, <5>2 DEF x
        <4>5. <<q[j]>> \o Rest(j + 1) = Rest(j)
          BY <3>2, RestOf DEF Rest
        <4> QED BY <4>1, <4>4, <4>5
      <3> QED BY <3>1, <3>2, <1>1
    <2> QED BY <2>1, <2>3
  <1>7. n \in Q
    <2> HIDE DEF Q
    <2>1. 0..n \subseteq Q
      BY <1>1, <1>5, <1>6, UpTo
    <2> QED BY <1>1, <2>1
  <1>8. w[n][Link(q, 1)] = q
    <2>1. 1 \in 1..Len(q) + 1 /\ Len(q) + 1 - 1 <= n
      BY <1>1
    <2> QED BY <1>4, <1>7, <2>1
  <1>9. Path(f, Link(q, 1)) = w[n][Link(q, 1)]
    BY DEF Path, w, PathUpTo, n
  <1> QED BY <1>8, <1>9

LEMMA PathOfNull ==
  ASSUME NEW f \in Links
  PROVE  Path(f, Null) = <<>> /\ End(f, Null) = Null
  <1> DEFINE q == <<>>
  <1>1. q \in Seq(Node) /\ Len(q) = 0 /\ Link(q, 1) = Null /\ Walks(f, q)
    BY DEF Link, Walks
  <1>2. Len(q) <= Cardinality(Node)
    BY NodesCounted, <1>1
  <1> HIDE DEF q
  <1>3. Path(f, Link(q, 1)) = q
    BY <1>1, <1>2, PathIs
  <1> QED BY <1>1, <1>3 DEF q, End

(* A list of records, each of them once, is not longer than there are      *)
(* records.                                                                *)
LEMMA OnceFits ==
  ASSUME NEW q \in Seq(Node), Once(q)
  PROVE  Len(q) <= Cardinality(Node)
  <1>1. Elems(q) \subseteq Node
    BY DEF Elems
  <1>2. Cardinality(Elems(q)) = Len(q)
    BY OnceCounts
  <1>3. Cardinality(Elems(q)) <= Cardinality(Node)
    BY <1>1, ListConstants, FS_Subset
  <1> QED BY <1>2, <1>3

(* From any record of the list forward one gets to its last, and back to   *)
(* its first.                                                              *)
LEMMA Forward ==
  ASSUME NEW q, NEW nx, NEW pv, IsLinked(q, nx, pv), NEW i \in 1..Len(q)
  PROVE  Path(nx, q[i]) = SubSeq(q, i, Len(q)) /\ End(nx, q[i]) = q[Len(q)]
  <1> DEFINE s == SubSeq(q, i, Len(q))
  <1>1. /\ q \in Seq(Node) /\ Len(q) \in Nat /\ nx \in Links /\ Once(q)
        /\ \A j \in 1..Len(q) : q[j] \in Node /\ nx[q[j]] = Link(q, j + 1)
    BY DEF IsLinked
  <1>2. /\ s \in Seq(Node) /\ Len(s) = Len(q) - i + 1
        /\ \A j \in 1..Len(q) - i + 1 : s[j] = q[i + j - 1]
    <2>1. \A j \in i..Len(q) : q[j] \in Node
      BY <1>1
    <2>2. /\ s \in Seq(Node)
          /\ Len(s) = IF i <= Len(q) THEN Len(q) - i + 1 ELSE 0
          /\ \A j \in 1..(Len(q) - i + 1) : s[j] = q[i + j - 1]
      BY <1>1, <2>1, SubSeqProperties
    <2> QED BY <1>1, <2>2
  <1> HIDE DEF s
  <1>3. Link(s, 1) = q[i] /\ s[Len(s)] = q[Len(q)]
    BY <1>1, <1>2 DEF Link
  <1>4. Walks(nx, s)
    <2> SUFFICES ASSUME NEW j \in 1..Len(s) PROVE nx[s[j]] = Link(s, j + 1)
      BY DEF Walks
    <2>1. i + j - 1 \in 1..Len(q) /\ s[j] = q[i + j - 1] /\ (i + j - 1) + 1 = i + j
      BY <1>1, <1>2
    <2>2. nx[s[j]] = Link(q, i + j)
      BY <1>1, <2>1
    <2>3. Link(q, i + j) = Link(s, j + 1)
      <3>1. CASE j = Len(s)
        BY <1>1, <1>2, <3>1 DEF Link
      <3>2. CASE j # Len(s)
        <4>1. j + 1 \in 1..Len(s) /\ i + j \in 1..Len(q) /\ i + (j + 1) - 1 = i + j
          BY <1>1, <1>2, <3>2
        <4>2. s[j + 1] = q[i + j]
          BY <1>2, <4>1
        <4> QED BY <4>1, <4>2 DEF Link
      <3> QED BY <3>1, <3>2
    <2> QED BY <2>2, <2>3
  <1>5. Len(s) <= Cardinality(Node)
    <2>1. Len(q) <= Cardinality(Node)
      BY <1>1, OnceFits
    <2> QED BY <2>1, <1>1, <1>2, NodesCounted
  <1>6. Path(nx, q[i]) = s
    BY <1>1, <1>2, <1>3, <1>4, <1>5, PathIs
  <1>7. End(nx, q[i]) = s[Len(s)]
    BY <1>1, <1>6, ListConstants DEF End, Last
  <1> QED BY <1>3, <1>6, <1>7 DEF s

LEMMA Backward ==
  ASSUME NEW q, NEW nx, NEW pv, IsLinked(q, nx, pv), NEW i \in 1..Len(q)
  PROVE  End(pv, q[i]) = q[1]
  <1> DEFINE s == [j \in 1..i |-> q[i + 1 - j]]
  <1>1. /\ q \in Seq(Node) /\ Len(q) \in Nat /\ pv \in Links /\ Once(q)
        /\ \A j \in 1..Len(q) : q[j] \in Node /\ pv[q[j]] = Link(q, j - 1)
    BY DEF IsLinked
  <1>2. \A j \in 1..i : i + 1 - j \in 1..Len(q) /\ s[j] = q[i + 1 - j] /\ s[j] \in Node
    BY <1>1
  <1>3. s \in Seq(Node) /\ Len(s) = i
    <2>1. i \in Nat /\ s \in [1..i -> Node]
      BY <1>1, <1>2
    <2> HIDE DEF s
    <2> QED BY <2>1
  <1> HIDE DEF s
  <1>4. Link(s, 1) = q[i] /\ s[Len(s)] = q[1]
    BY <1>1, <1>2, <1>3 DEF Link
  <1>5. Walks(pv, s)
    <2> SUFFICES ASSUME NEW j \in 1..Len(s) PROVE pv[s[j]] = Link(s, j + 1)
      BY DEF Walks
    <2>1. i + 1 - j \in 1..Len(q) /\ s[j] = q[i + 1 - j] /\ (i + 1 - j) - 1 = i - j
      BY <1>1, <1>2, <1>3
    <2>2. pv[s[j]] = Link(q, i - j)
      BY <1>1, <2>1
    <2>3. Link(q, i - j) = Link(s, j + 1)
      <3>1. CASE j = i
        BY <1>1, <1>3, <3>1 DEF Link
      <3>2. CASE j # i
        <4>1. j + 1 \in 1..i /\ i - j \in 1..Len(q) /\ i + 1 - (j + 1) = i - j
          BY <1>1, <1>3, <3>2
        <4>2. s[j + 1] = q[i - j]
          BY <1>2, <4>1
        <4> QED BY <4>1, <4>2, <1>3 DEF Link
      <3> QED BY <3>1, <3>2
    <2> QED BY <2>2, <2>3
  <1>6. Len(s) <= Cardinality(Node)
    <2>1. Len(q) <= Cardinality(Node)
      BY <1>1, OnceFits
    <2> QED BY <2>1, <1>1, <1>3, NodesCounted
  <1>7. Path(pv, q[i]) = s
    BY <1>1, <1>3, <1>4, <1>5, <1>6, PathIs
  <1>8. End(pv, q[i]) = s[Len(s)]
    BY <1>1, <1>7, ListConstants DEF End, Last
  <1> QED BY <1>4, <1>8

(* So wherever in the list RdownloadList points to, Chain is the list.     *)
LEMMA ChainIs ==
  ASSUME NEW q, NEW nx, NEW pv, NEW c, IsLinked(q, nx, pv), Pointed(q, c)
  PROVE  /\ End(pv, c) = Link(q, 1) /\ Path(nx, End(pv, c)) = q
         /\ End(nx, c) = Link(q, Len(q))
  <1>1. q \in Seq(Node) /\ Len(q) \in Nat /\ nx \in Links /\ pv \in Links
    BY DEF IsLinked
  <1>2. CASE q = <<>>
    <2>1. c = Null /\ Link(q, 1) = Null /\ Link(q, Len(q)) = Null
      BY <1>2 DEF Pointed, Link
    <2> QED BY <1>1, <1>2, <2>1, PathOfNull
  <1>3. CASE q # <<>>
    <2>1. PICK i \in 1..Len(q) : c = q[i]
      BY <1>3 DEF Pointed, Elems
    <2>2. End(pv, c) = q[1] /\ End(nx, c) = q[Len(q)]
      BY <2>1, Forward, Backward
    <2>3. Link(q, 1) = q[1] /\ Link(q, Len(q)) = q[Len(q)] /\ 1 \in 1..Len(q)
      BY <1>1, <2>1 DEF Link
    <2>4. SubSeq(q, 1, Len(q)) = q
      BY <1>1
    <2>5. Path(nx, q[1]) = SubSeq(q, 1, Len(q))
      BY <2>3, Forward
    <2> QED BY <2>2, <2>3, <2>4, <2>5
  <1> QED BY <1>2, <1>3

-----------------------------------------------------------------------------
(* What the code's assignments to links come to.                           *)
OneAnew(g, f, a, u) ==
  g \in Links /\ \A n \in Node : g[n] = IF n = a THEN u ELSE f[n]
TwoAnew(g, f, a, u, b, v) ==
  g \in Links /\ \A n \in Node : g[n] = IF n = a THEN u ELSE IF n = b THEN v ELSE f[n]
ThreeAnew(g, f, a, u, b, v, c, w) ==
  /\ g \in Links
  /\ \A n \in Node :
       g[n] = IF n = a THEN u ELSE IF n = b THEN v ELSE IF n = c THEN w ELSE f[n]

LEMMA RelinkOne ==
  ASSUME NEW f \in Links, NEW a, NEW u \in Node \cup {Null}
  PROVE  OneAnew(Relink(f, {<<a, u>>}), f, a, u)
  <1> DEFINE C == {<<a, u>>}
             g == Relink(f, C)
  <1>1. \A n \in Node : g[n] = IF n = a THEN u ELSE f[n]
    <2> SUFFICES ASSUME NEW n \in Node PROVE g[n] = IF n = a THEN u ELSE f[n]
      OBVIOUS
    <2> DEFINE found  == \E c \in C : c[1] = n
               chosen == CHOOSE c \in C : c[1] = n
    <2>1. g[n] = IF found THEN chosen[2] ELSE f[n]
      BY DEF Relink
    <2>2. found <=> n = a
      OBVIOUS
    <2>3. n = a => chosen = <<a, u>>
      OBVIOUS
    <2> HIDE DEF g, C, found, chosen
    <2> QED BY <2>1, <2>2, <2>3
  <1>2. g \in Links
    <2>1. g = [n \in Node |-> g[n]]
      BY DEF Relink
    <2>2. \A n \in Node : g[n] \in Node \cup {Null}
      BY <1>1 DEF Links
    <2> HIDE DEF g
    <2> QED BY <2>1, <2>2 DEF Links
  <1> QED BY <1>1, <1>2 DEF OneAnew

LEMMA RelinkTwo ==
  ASSUME NEW f \in Links, NEW a, NEW b, a # b,
         NEW u \in Node \cup {Null}, NEW v \in Node \cup {Null}
  PROVE  TwoAnew(Relink(f, {<<a, u>>, <<b, v>>}), f, a, u, b, v)
  <1> DEFINE C == {<<a, u>>, <<b, v>>}
             g == Relink(f, C)
  <1>1. \A n \in Node : g[n] = IF n = a THEN u ELSE IF n = b THEN v ELSE f[n]
    <2> SUFFICES ASSUME NEW n \in Node
                 PROVE  g[n] = IF n = a THEN u ELSE IF n = b THEN v ELSE f[n]
      OBVIOUS
    <2> DEFINE found  == \E c \in C : c[1] = n
               chosen == CHOOSE c \in C : c[1] = n
    <2>1. g[n] = IF found THEN chosen[2] ELSE f[n]
      BY DEF Relink
    <2>2. found <=> n = a \/ n = b
      OBVIOUS
    <2>3. n = a => chosen = <<a, u>>
      OBVIOUS
    <2>4. n = b => chosen = <<b, v>>
      OBVIOUS
    <2> HIDE DEF g, C, found, chosen
    <2> QED BY <2>1, <2>2, <2>3, <2>4
  <1>2. g \in Links
    <2>1. g = [n \in Node |-> g[n]]
      BY DEF Relink
    <2>2. \A n \in Node : g[n] \in Node \cup {Null}
      BY <1>1 DEF Links
    <2> HIDE DEF g
    <2> QED BY <2>1, <2>2 DEF Links
  <1> QED BY <1>1, <1>2 DEF TwoAnew

LEMMA RelinkThree ==
  ASSUME NEW f \in Links, NEW a, NEW b, NEW c, a # b, a # c, b # c,
         NEW u \in Node \cup {Null}, NEW v \in Node \cup {Null}, NEW w \in Node \cup {Null}
  PROVE  ThreeAnew(Relink(f, {<<a, u>>, <<b, v>>, <<c, w>>}), f, a, u, b, v, c, w)
  <1> DEFINE C == {<<a, u>>, <<b, v>>, <<c, w>>}
             g == Relink(f, C)
  <1>1. \A n \in Node :
          g[n] = IF n = a THEN u ELSE IF n = b THEN v ELSE IF n = c THEN w ELSE f[n]
    <2> SUFFICES ASSUME NEW n \in Node
                 PROVE  g[n] = IF n = a THEN u ELSE IF n = b THEN v
                               ELSE IF n = c THEN w ELSE f[n]
      OBVIOUS
    <2> DEFINE found  == \E d \in C : d[1] = n
               chosen == CHOOSE d \in C : d[1] = n
    <2>1. g[n] = IF found THEN chosen[2] ELSE f[n]
      BY DEF Relink
    <2>2. found <=> n = a \/ n = b \/ n = c
      OBVIOUS
    <2>3. n = a => chosen = <<a, u>>
      OBVIOUS
    <2>4. n = b => chosen = <<b, v>>
      OBVIOUS
    <2>5. n = c => chosen = <<c, w>>
      OBVIOUS
    <2> HIDE DEF g, C, found, chosen
    <2> QED BY <2>1, <2>2, <2>3, <2>4, <2>5
  <1>2. g \in Links
    <2>1. g = [n \in Node |-> g[n]]
      BY DEF Relink
    <2>2. \A n \in Node : g[n] \in Node \cup {Null}
      BY <1>1 DEF Links
    <2> HIDE DEF g
    <2> QED BY <2>1, <2>2 DEF Links
  <1> QED BY <1>1, <1>2 DEF ThreeAnew

(* A record that is added at the end (RaddOneTTdownloadToLast).            *)
LEMMA AddLinks ==
  ASSUME NEW q, NEW nx, NEW pv, IsLinked(q, nx, pv), NEW n \in Node, n \notin Elems(q)
  PROVE  IsLinked(Append(q, n), Relink(nx, {<<Link(q, Len(q)), n>>}),
                  [pv EXCEPT ![n] = Link(q, Len(q))])
  <1> DEFINE last == Link(q, Len(q))
             t == Append(q, n)
             nx2 == Relink(nx, {<<last, n>>})
             pv2 == [pv EXCEPT ![n] = last]
  <1>1. /\ q \in Seq(Node) /\ Len(q) \in Nat /\ nx \in Links /\ pv \in Links /\ Once(q)
        /\ \A j \in 1..Len(q) : q[j] \in Node /\ q[j] # n /\ q[j] # Null
    BY ListConstants DEF IsLinked, Elems
  <1>2. \A j \in 1..Len(q) : nx[q[j]] = Link(q, j + 1) /\ pv[q[j]] = Link(q, j - 1)
    BY DEF IsLinked
  <1>3. last \in Node \cup {Null} /\ (Len(q) = 0 => last = Null) /\ last # n
        /\ (Len(q) # 0 => last = q[Len(q)])
    BY <1>1, ListConstants DEF Link
  <1>4. /\ t \in Seq(Node) /\ Len(t) = Len(q) + 1 /\ t[Len(q) + 1] = n
        /\ \A j \in 1..Len(q) : t[j] = q[j]
    BY <1>1, AppendProperties
  <1>5. Elems(t) = Elems(q) \cup {n} /\ Once(t)
    BY <1>1, AppendElems
  <1> HIDE DEF last, t
  <1>6. /\ nx2 \in Links
        /\ \A m \in Node : nx2[m] = IF m = last THEN n ELSE nx[m]
    <2>1. nx \in Links /\ n \in Node \cup {Null}
      BY <1>1
    <2>2. OneAnew(nx2, nx, last, n)
      BY <2>1, RelinkOne
    <2> QED BY <2>2 DEF OneAnew
  <1>7. /\ pv2 \in Links
        /\ \A m \in Node : pv2[m] = IF m = n THEN last ELSE pv[m]
    BY <1>1, <1>3 DEF Links
  <1> HIDE DEF nx2, pv2
  <1>8. nx[n] = Null
    BY DEF IsLinked
  <1>9. ASSUME NEW j \in 1..Len(t)
        PROVE  nx2[t[j]] = Link(t, j + 1) /\ pv2[t[j]] = Link(t, j - 1)
    <2>1. CASE j = Len(q) + 1
      <3>1. nx2[n] = Null /\ pv2[n] = last
        BY <1>3, <1>6, <1>7, <1>8
      <3>2. Link(t, j + 1) = Null
        BY <2>1, <1>1, <1>4 DEF Link
      <3>3. Link(t, j - 1) = last
        BY <2>1, <1>1, <1>3, <1>4 DEF Link
      <3> QED BY <3>1, <3>2, <3>3, <2>1, <1>4
    <2>2. CASE j = Len(q)
      <3>1. j \in 1..Len(q) /\ t[j] = q[j] /\ q[j] = last
        BY <2>2, <1>1, <1>3, <1>4
      <3>2. nx2[q[j]] = n /\ pv2[q[j]] = Link(q, j - 1)
        BY <3>1, <1>1, <1>2, <1>6, <1>7
      <3>3. Link(t, j + 1) = n
        BY <2>2, <1>1, <1>4 DEF Link
      <3>4. Link(t, j - 1) = Link(q, j - 1)
        BY <2>2, <1>1, <1>4 DEF Link
      <3> QED BY <3>1, <3>2, <3>3, <3>4
    <2>3. CASE j \in 1..Len(q) - 1
      <3>1. j \in 1..Len(q) /\ t[j] = q[j] /\ q[j] # last
        <4>1. Len(q) \in 1..Len(q) /\ j # Len(q)
          BY <2>3, <1>1
        <4> QED BY <4>1, <2>3, <1>1, <1>3, <1>4 DEF Once
      <3>2. nx2[q[j]] = Link(q, j + 1) /\ pv2[q[j]] = Link(q, j - 1)
        BY <3>1, <1>1, <1>2, <1>6, <1>7
      <3>3. Link(t, j + 1) = Link(q, j + 1)
        BY <2>3, <1>1, <1>4 DEF Link
      <3>4. Link(t, j - 1) = Link(q, j - 1)
        BY <2>3, <1>1, <1>4 DEF Link
      <3> QED BY <3>1, <3>2, <3>3, <3>4
    <2> QED BY <2>1, <2>2, <2>3, <1>1, <1>4
  <1>10. ASSUME NEW m \in Node \ Elems(t)
         PROVE  nx2[m] = Null /\ pv2[m] = Null
    <2>1. m \in Node \ Elems(q) /\ m # n
      BY <1>5
    <2>2. m # last
      BY <2>1, <1>1, <1>3, ListConstants DEF Elems
    <2>3. nx[m] = Null /\ pv[m] = Null
      BY <2>1 DEF IsLinked
    <2> QED BY <2>1, <2>2, <2>3, <1>6, <1>7
  <1>11. IsLinked(t, nx2, pv2)
    BY <1>4, <1>5, <1>6, <1>7, <1>9, <1>10 DEF IsLinked
  <1> QED BY <1>11 DEF t, nx2, pv2, last

(* A record that is freed (RfreeOneTTdownloadAndGoToFirst).                *)
Freed(f, a, u, n)       == Relink(f, {<<a, u>>, <<n, Null>>})
Moved(f, a, b, c, w)    == Relink(f, {<<a, b>>, <<b, c>>, <<c, w>>})

LEMMA FreeLinks ==
  ASSUME NEW q, NEW nx, NEW pv, IsLinked(q, nx, pv), NEW k \in 1..Len(q),
         NEW p, p = Link(q, k - 1), NEW s, s = Link(q, k + 1), NEW n, n = q[k]
  PROVE  /\ IsLinked(RemoveAt(q, k), Freed(nx, p, s, n), Freed(pv, s, p, n))
         /\ Pointed(RemoveAt(q, k), IF p # Null THEN p ELSE s)
         /\ Elems(RemoveAt(q, k)) = Elems(q) \ {n}
  <1> DEFINE t == RemoveAt(q, k)
             nx2 == Freed(nx, p, s, n)
             pv2 == Freed(pv, s, p, n)
             L == Len(q)
  <1>1. /\ q \in Seq(Node) /\ L \in Nat /\ k \in 1..L /\ nx \in Links /\ pv \in Links
        /\ \A j \in 1..L : q[j] \in Node /\ q[j] # Null
    BY ListConstants DEF IsLinked
  <1>2. \A j \in 1..L : nx[q[j]] = Link(q, j + 1) /\ pv[q[j]] = Link(q, j - 1)
    BY DEF IsLinked
  <1>3. \A i, j \in 1..L : q[i] = q[j] => i = j
    BY DEF IsLinked, Once
  <1>4. t \in Seq(Node) /\ Len(t) = L - 1
    BY <1>1, RemoveAtLemma
  <1>5. \A j \in 1..L - 1 : t[j] = IF j < k THEN q[j] ELSE q[j + 1]
    BY <1>1, RemoveAtLemma
  <1> HIDE DEF t, L
  <1>6. \A x \in Int : Link(t, x) = IF x < k THEN Link(q, x) ELSE Link(q, x + 1)
    BY <1>1, <1>4, <1>5 DEF Link, L
  <1>7. \A j \in 1..L : (q[j] = p <=> j = k - 1) /\ (q[j] = s <=> j = k + 1)
                        /\ (q[j] = n <=> j = k)
    BY <1>1, <1>3 DEF Link, L
  <1>8. p \in Node \cup {Null} /\ s \in Node \cup {Null} /\ n \in Node /\ p # n /\ s # n
    BY <1>1, <1>3, ListConstants DEF Link, L
  <1>9. TwoAnew(nx2, nx, p, s, n, Null)
    <2>1. nx \in Links /\ Null \in Node \cup {Null}
      BY <1>1
    <2> QED BY <1>8, <2>1, RelinkTwo DEF Freed
  <1>10. TwoAnew(pv2, pv, s, p, n, Null)
    <2>1. pv \in Links /\ Null \in Node \cup {Null}
      BY <1>1
    <2> QED BY <1>8, <2>1, RelinkTwo DEF Freed
  <1> HIDE DEF nx2, pv2
  <1>11. \A i, j \in 1..Len(t) : t[i] = t[j] => i = j
    <2> SUFFICES ASSUME NEW i \in 1..Len(t), NEW j \in 1..Len(t), t[i] = t[j] PROVE i = j
      OBVIOUS
    <2> DEFINE src(x) == IF x < k THEN x ELSE x + 1
    <2>1. \A x \in 1..Len(t) : src(x) \in 1..L /\ t[x] = q[src(x)]
      BY <1>1, <1>4, <1>5
    <2>2. src(i) = src(j)
      BY <2>1, <1>3
    <2> QED BY <2>2, <1>1, <1>4
  <1>12. Elems(t) = Elems(q) \ {n}
    <2>1. ASSUME NEW j \in 1..Len(t)
          PROVE  t[j] \in Elems(q) /\ t[j] # n
      <3> DEFINE i == IF j < k THEN j ELSE j + 1
      <3>1. i \in 1..L /\ t[j] = q[i] /\ i # k
        BY <1>1, <1>4, <1>5
      <3> QED BY <3>1, <1>7 DEF Elems, L
    <2>2. ASSUME NEW i \in 1..L, q[i] # n
          PROVE  q[i] \in Elems(t)
      <3> DEFINE j == IF i < k THEN i ELSE i - 1
      <3>1. i # k
        BY <2>2, <1>7
      <3>2. j \in 1..Len(t) /\ t[j] = q[i]
        BY <3>1, <1>1, <1>4, <1>5
      <3> QED BY <3>2 DEF Elems
    <2> QED BY <2>1, <2>2 DEF Elems, L
  <1>13. ASSUME NEW j \in 1..Len(t)
         PROVE  nx2[t[j]] = Link(t, j + 1) /\ pv2[t[j]] = Link(t, j - 1)
    <2>1. CASE j = k - 1
      <3>1. j \in 1..L /\ t[j] = q[j] /\ q[j] = p
        BY <2>1, <1>1, <1>4, <1>5, <1>7
      <3>2. nx2[p] = s /\ pv2[p] = Link(q, j - 1)
        BY <3>1, <2>1, <1>1, <1>2, <1>7, <1>9, <1>10 DEF TwoAnew
      <3>3. Link(t, j + 1) = s
        BY <2>1, <1>1, <1>6
      <3>4. Link(t, j - 1) = Link(q, j - 1)
        BY <2>1, <1>1, <1>6
      <3> QED BY <3>1, <3>2, <3>3, <3>4
    <2>2. CASE j = k
      <3>1. j + 1 \in 1..L /\ t[j] = q[j + 1] /\ q[j + 1] = s
        BY <2>2, <1>1, <1>4, <1>5, <1>7
      <3>2. nx2[s] = Link(q, (j + 1) + 1) /\ pv2[s] = p
        BY <3>1, <2>2, <1>1, <1>2, <1>7, <1>9, <1>10 DEF TwoAnew
      <3>3. Link(t, j + 1) = Link(q, (j + 1) + 1)
        BY <2>2, <1>1, <1>6
      <3>4. Link(t, j - 1) = p
        BY <2>2, <1>1, <1>6
      <3> QED BY <3>1, <3>2, <3>3, <3>4
    <2>3. CASE j \notin {k - 1, k}
      <3> DEFINE i == IF j < k THEN j ELSE j + 1
      <3>1. i \in 1..L /\ t[j] = q[i] /\ i # k - 1 /\ i # k /\ i # k + 1
        BY <2>3, <1>1, <1>4, <1>5
      <3>2. nx2[q[i]] = Link(q, i + 1) /\ pv2[q[i]] = Link(q, i - 1)
        <4>1. q[i] \in Node /\ q[i] # p /\ q[i] # s /\ q[i] # n
          BY <3>1, <1>1, <1>7
        <4>2. nx[q[i]] = Link(q, i + 1) /\ pv[q[i]] = Link(q, i - 1)
          BY <3>1, <1>2
        <4> HIDE DEF i
        <4> QED BY <4>1, <4>2, <1>9, <1>10 DEF TwoAnew
      <3>a. /\ j + 1 \in Int /\ j - 1 \in Int
            /\ i + 1 = IF j + 1 < k THEN j + 1 ELSE (j + 1) + 1
            /\ i - 1 = IF j - 1 < k THEN j - 1 ELSE (j - 1) + 1
        BY <2>3, <1>1, <1>4
      <3> HIDE DEF i
      <3>3. Link(t, j + 1) = Link(q, i + 1)
        BY <3>a, <1>6
      <3>4. Link(t, j - 1) = Link(q, i - 1)
        BY <3>a, <1>6
      <3> QED BY <3>1, <3>2, <3>3, <3>4
    <2> QED BY <2>1, <2>2, <2>3
  <1>14. ASSUME NEW m \in Node \ Elems(t)
         PROVE  nx2[m] = Null /\ pv2[m] = Null
    <2>1. CASE m = n
      BY <2>1, <1>8, <1>9, <1>10 DEF TwoAnew
    <2>2. CASE m # n
      <3>1. m \in Node \ Elems(q)
        BY <2>2, <1>12
      <3>2. m # p /\ m # s
        BY <3>1, <1>1, ListConstants DEF Link, Elems, L
      <3>3. nx[m] = Null /\ pv[m] = Null
        BY <3>1 DEF IsLinked
      <3> QED BY <2>2, <3>2, <3>3, <1>9, <1>10 DEF TwoAnew
    <2> QED BY <2>1, <2>2
  <1>15. IsLinked(t, nx2, pv2)
    <2>1. nx2 \in Links /\ pv2 \in Links
      BY <1>9, <1>10 DEF TwoAnew
    <2> QED BY <2>1, <1>4, <1>11, <1>13, <1>14 DEF IsLinked, Once
  <1>16. Pointed(t, IF p # Null THEN p ELSE s)
    <2>1. CASE t = <<>>
      <3>1. L = 1 /\ k = 1
        BY <2>1, <1>1, <1>4
      <3>2. p = Null /\ s = Null
        BY <3>1 DEF Link, L
      <3> QED BY <2>1, <3>2 DEF Pointed
    <2>2. CASE t # <<>> /\ p # Null
      <3>1. k - 1 \in 1..L /\ p = q[k - 1]
        BY <2>2 DEF Link, L
      <3>2. p \in Elems(q)
        BY <3>1 DEF Elems, L
      <3> QED BY <2>2, <3>2, <1>8, <1>12 DEF Pointed
    <2>3. CASE t # <<>> /\ p = Null
      <3>1. k = 1
        BY <2>3, <1>1 DEF Link, L
      <3>2. 2 \in 1..L
        BY <2>3, <1>1, <1>4
      <3>3. s = q[2] /\ s \in Elems(q)
        BY <3>1, <3>2 DEF Link, Elems, L
      <3> QED BY <2>3, <3>3, <1>8, <1>12 DEF Pointed
    <2> QED BY <2>1, <2>2, <2>3
  <1> QED BY <1>12, <1>15, <1>16 DEF t, nx2, pv2

(* Two neighbours change places (RmanageList, the move mode).              *)
Swapped(q, k) == [q EXCEPT ![k] = q[k + 1], ![k + 1] = q[k]]

LEMMA SwapLinks ==
  ASSUME NEW q, NEW nx, NEW pv, IsLinked(q, nx, pv), NEW k \in 1..Len(q) - 1,
         NEW p, p = Link(q, k - 1), NEW s, s = Link(q, k + 2),
         NEW a, a = q[k], NEW b, b = q[k + 1]
  PROVE  /\ IsLinked(Swapped(q, k), Moved(nx, p, b, a, s), Moved(pv, s, a, b, p))
         /\ Len(Swapped(q, k)) = Len(q) /\ Elems(Swapped(q, k)) = Elems(q)
         /\ Link(Swapped(q, k), 1) = IF p = Null THEN b ELSE q[1]
  <1> DEFINE t == Swapped(q, k)
             nx2 == Moved(nx, p, b, a, s)
             pv2 == Moved(pv, s, a, b, p)
             L == Len(q)
  <1>1. /\ q \in Seq(Node) /\ L \in Nat /\ nx \in Links /\ pv \in Links
        /\ \A j \in 1..L : q[j] \in Node /\ q[j] # Null
    BY ListConstants DEF IsLinked
  <1>2. \A j \in 1..L : nx[q[j]] = Link(q, j + 1) /\ pv[q[j]] = Link(q, j - 1)
    BY DEF IsLinked
  <1>3. \A i, j \in 1..L : q[i] = q[j] => i = j
    BY DEF IsLinked, Once
  <1>0. k \in 1..L /\ k + 1 \in 1..L
    BY <1>1
  <1>4. t \in Seq(Node) /\ Len(t) = L
    BY <1>0, <1>1 DEF Swapped
  <1>5. \A j \in 1..L : t[j] = IF j = k THEN b ELSE IF j = k + 1 THEN a ELSE q[j]
    BY <1>0, <1>1 DEF Swapped
  <1> HIDE DEF t, L
  <1>6. \A x \in Int : Link(t, x) = IF x = k THEN b ELSE IF x = k + 1 THEN a ELSE Link(q, x)
    BY <1>0, <1>1, <1>4, <1>5 DEF Link, L
  <1>7. \A j \in 1..L : /\ (q[j] = p <=> j = k - 1) /\ (q[j] = s <=> j = k + 2)
                        /\ (q[j] = a <=> j = k) /\ (q[j] = b <=> j = k + 1)
    BY <1>0, <1>1, <1>3 DEF Link, L
  <1>8. /\ p \in Node \cup {Null} /\ s \in Node \cup {Null} /\ a \in Node /\ b \in Node
        /\ a # b /\ p # a /\ p # b /\ s # a /\ s # b
    BY <1>0, <1>1, <1>3, ListConstants DEF Link, L
  <1>9. ThreeAnew(nx2, nx, p, b, b, a, a, s)
    <2>1. nx \in Links /\ a \in Node \cup {Null} /\ b \in Node \cup {Null}
      BY <1>1, <1>8
    <2> QED BY <1>8, <2>1, RelinkThree DEF Moved
  <1>10. ThreeAnew(pv2, pv, s, a, a, b, b, p)
    <2>1. pv \in Links /\ a \in Node \cup {Null} /\ b \in Node \cup {Null}
      BY <1>1, <1>8
    <2> QED BY <1>8, <2>1, RelinkThree DEF Moved
  <1> HIDE DEF nx2, pv2
  <1>11. \A i, j \in 1..Len(t) : t[i] = t[j] => i = j
    <2> SUFFICES ASSUME NEW i \in 1..Len(t), NEW j \in 1..Len(t), t[i] = t[j] PROVE i = j
      OBVIOUS
    <2> DEFINE src(x) == IF x = k THEN k + 1 ELSE IF x = k + 1 THEN k ELSE x
    <2>1. \A x \in 1..Len(t) : src(x) \in 1..L /\ t[x] = q[src(x)]
      BY <1>0, <1>1, <1>4, <1>5
    <2>2. src(i) = src(j)
      BY <2>1, <1>3
    <2> QED BY <2>2, <1>0, <1>1, <1>4
  <1>12. Elems(t) = Elems(q)
    <2>1. ASSUME NEW j \in 1..L
          PROVE  t[j] \in Elems(q) /\ q[j] \in Elems(t)
      <3> DEFINE i == IF j = k THEN k + 1 ELSE IF j = k + 1 THEN k ELSE j
      <3>1. i \in 1..L /\ t[j] = q[i] /\ t[i] = q[j]
        BY <1>0, <1>1, <1>5
      <3> HIDE DEF i
      <3> QED BY <3>1, <1>4 DEF Elems, L
    <2> QED BY <2>1, <1>4 DEF Elems, L
  <1>13. ASSUME NEW j \in 1..Len(t)
         PROVE  nx2[t[j]] = Link(t, j + 1) /\ pv2[t[j]] = Link(t, j - 1)
    <2>0. j \in 1..L /\ j \in Int /\ k \in Int
      BY <1>0, <1>1, <1>4
    <2>1. CASE j = k
      <3>1. t[j] = b /\ nx2[b] = a /\ pv2[b] = p
        BY <2>0, <2>1, <1>5, <1>8, <1>9, <1>10 DEF ThreeAnew
      <3>2. Link(t, j + 1) = a /\ Link(t, j - 1) = p
        BY <2>0, <2>1, <1>6
      <3> QED BY <3>1, <3>2
    <2>2. CASE j = k + 1
      <3>1. t[j] = a /\ nx2[a] = s /\ pv2[a] = b
        BY <2>0, <2>2, <1>5, <1>8, <1>9, <1>10 DEF ThreeAnew
      <3>2. Link(t, j + 1) = s /\ Link(t, j - 1) = b
        BY <2>0, <2>2, <1>6
      <3> QED BY <3>1, <3>2
    <2>3. CASE j \notin {k, k + 1}
      <3>1. t[j] = q[j] /\ q[j] \in Node /\ q[j] # a /\ q[j] # b
        BY <2>0, <2>3, <1>1, <1>5, <1>7
      <3>2. nx2[q[j]] = IF j = k - 1 THEN b ELSE Link(q, j + 1)
        <4>1. q[j] = p <=> j = k - 1
          BY <2>0, <1>7
        <4> QED BY <2>0, <3>1, <4>1, <1>2, <1>9 DEF ThreeAnew
      <3>3. pv2[q[j]] = IF j = k + 2 THEN a ELSE Link(q, j - 1)
        <4>1. q[j] = s <=> j = k + 2
          BY <2>0, <1>7
        <4> QED BY <2>0, <3>1, <4>1, <1>2, <1>10 DEF ThreeAnew
      <3>4. Link(t, j + 1) = IF j = k - 1 THEN b ELSE Link(q, j + 1)
        BY <2>0, <2>3, <1>6
      <3>5. Link(t, j - 1) = IF j = k + 2 THEN a ELSE Link(q, j - 1)
        BY <2>0, <2>3, <1>6
      <3> QED BY <3>1, <3>2, <3>3, <3>4, <3>5
    <2> QED BY <2>1, <2>2, <2>3
  <1>14. ASSUME NEW m \in Node \ Elems(t)
         PROVE  nx2[m] = Null /\ pv2[m] = Null
    <2>1. m \in Node \ Elems(q)
      BY <1>12
    <2>2. m # p /\ m # s /\ m # a /\ m # b
      BY <2>1, <1>0, <1>1, ListConstants DEF Link, Elems, L
    <2>3. nx[m] = Null /\ pv[m] = Null
      BY <2>1 DEF IsLinked
    <2> QED BY <2>2, <2>3, <1>9, <1>10 DEF ThreeAnew
  <1>15. IsLinked(t, nx2, pv2)
    <2>1. nx2 \in Links /\ pv2 \in Links
      BY <1>9, <1>10 DEF ThreeAnew
    <2> QED BY <2>1, <1>4, <1>11, <1>13, <1>14 DEF IsLinked, Once
  <1>16. Link(t, 1) = IF p = Null THEN b ELSE q[1]
    <2>1. p = Null <=> k = 1
      BY <1>0, <1>1 DEF Link, L
    <2>2. Link(q, 1) = q[1] /\ k # 0 /\ k + 1 # 1
      BY <1>0, <1>1 DEF Link, L
    <2> QED BY <2>1, <2>2, <1>6
  <1> QED BY <1>4, <1>12, <1>15, <1>16 DEF t, nx2, pv2, L

-----------------------------------------------------------------------------
(* The inductive invariant. The links are those of a list in which          *)
(* RdownloadList points to a record. That the editor paints within the     *)
(* list (Fits) is needed for what a step of it comes to: otherwise a record *)
(* could be moved in the step that ends the program.                       *)
ListHolds == IsLinked(Chain, next, previous) /\ Pointed(Chain, cur)

EditorFits == mode = "edit" => Fits(first, rows)

Inv == /\ TypeOK /\ ListHolds /\ CountsFromFirst /\ ActListed
       /\ SelectionInList /\ EditorFits

QueueStep == [Queue!Next]_(Queue!tqvars)

(* What the list looks like from RdownloadList.                            *)
LEMMA Seen ==
  ASSUME ListHolds
  PROVE  /\ Chain \in Seq(Node) /\ Once(Chain) /\ Len(Chain) \in Nat
         /\ First = Link(Chain, 1) /\ Listed = Elems(Chain)
         /\ End(next, cur) = Link(Chain, Len(Chain))
  <1>1. Chain \in Seq(Node) /\ Once(Chain)
    BY DEF ListHolds, IsLinked
  <1>2. First = Link(Chain, 1) /\ End(next, cur) = Link(Chain, Len(Chain))
    BY ChainIs DEF ListHolds, First
  <1>3. Listed = Elems(Chain)
    BY <1>1 DEF Listed, Range, Elems
  <1> QED BY <1>1, <1>2, <1>3

LEMMA SeenFromFirst ==
  ASSUME ListHolds, cur = First
  PROVE  /\ Path(next, cur) = Chain /\ Count = Len(Chain)
         /\ \A k \in Nat : Nr(k) = Link(Chain, k + 1)
  <1>1. Path(next, cur) = Chain
    BY DEF Chain
  <1>2. Count = Len(Chain) /\ Len(Chain) \in Nat
    BY <1>1, Seen DEF Count
  <1>3. \A k \in Nat : k < Count <=> k + 1 \in 1..Len(Chain)
    BY <1>2
  <1> QED BY <1>1, <1>2, <1>3 DEF Nr, Link

(* A step that leaves the links of the list q.                             *)
LEMMA NewList ==
  ASSUME NEW q, IsLinked(q, next', previous'), Pointed(q, cur')
  PROVE  /\ Chain' = q /\ ListHolds' /\ First' = Link(q, 1) /\ Listed' = Elems(q)
  <1>1. End(previous', cur') = Link(q, 1) /\ Path(next', End(previous', cur')) = q
    BY ChainIs
  <1>2. First' = Link(q, 1) /\ Chain' = q
    BY <1>1 DEF First, Chain
  <1>3. Listed' = Elems(q)
    <2>1. DOMAIN q = 1..Len(q)
      BY DEF IsLinked
    <2>2. Range(q) = Elems(q)
      BY <2>1 DEF Range, Elems
    <2> QED BY <1>2, <2>2 DEF Listed
  <1> QED BY <1>2, <1>3 DEF ListHolds

LEMMA FirstPoints ==
  ASSUME NEW q, NEW nx, NEW pv, IsLinked(q, nx, pv)
  PROVE  Pointed(q, Link(q, 1)) /\ Pointed(q, Link(q, Len(q)))
  <1>1. q \in Seq(Node) /\ Len(q) \in Nat
    BY DEF IsLinked
  <1>2. CASE q = <<>>
    BY <1>1, <1>2 DEF Pointed, Link
  <1>3. CASE q # <<>>
    <2>1. 1 \in 1..Len(q) /\ Len(q) \in 1..Len(q)
      BY <1>1, <1>3
    <2> QED BY <1>3, <2>1 DEF Pointed, Link, Elems
  <1> QED BY <1>2, <1>3

LEMMA PointedIs ==
  ASSUME ListHolds'
  PROVE  cur' \in Node \cup {Null}
  <1> DEFINE q == Chain'
  <1>1. q \in Seq(Node) /\ Pointed(q, cur')
    BY DEF ListHolds, IsLinked
  <1> HIDE DEF q
  <1> QED BY <1>1 DEF Pointed, Elems

(* The pointer alone moves, or nothing of the list does.                   *)
LEMMA SameList ==
  ASSUME ListHolds, UNCHANGED <<next, previous>>, Pointed(Chain, cur')
  PROVE  Chain' = Chain /\ ListHolds' /\ First' = First /\ Listed' = Listed
  <1>1. IsLinked(Chain, next', previous')
    BY DEF ListHolds
  <1> QED BY <1>1, NewList, Seen

LEMMA KeptList ==
  ASSUME ListHolds, UNCHANGED links
  PROVE  Chain' = Chain /\ ListHolds' /\ First' = First /\ Listed' = Listed
  BY SameList DEF ListHolds, links

LEMMA RecordIs ==
  ASSUME ListHolds, NEW n \in Listed
  PROVE  \E k \in 1..Len(Chain) : n = Chain[k] /\ n \in Node /\ n # Null
  BY Seen, ListConstants DEF Elems

(* Freeing the record at place k.                                          *)
LEMMA FreeList ==
  ASSUME ListHolds, NEW n \in Listed, Free(n)
  PROVE  /\ ListHolds' /\ First' = cur' /\ Listed' = Listed \ {n}
         /\ next' \in Links /\ previous' \in Links /\ marked' = marked \ {n}
         /\ \E k \in 1..Len(Chain) : Chain[k] = n /\ Chain' = RemoveAt(Chain, k)
  <1>1. PICK k \in 1..Len(Chain) : n = Chain[k]
    BY RecordIs
  <1> DEFINE q == RemoveAt(Chain, k)
             p == Link(Chain, k - 1)
             s == Link(Chain, k + 1)
             c == IF p # Null THEN p ELSE s
  <1>2. IsLinked(Chain, next, previous)
    BY DEF ListHolds
  <1>3. next[n] = s /\ previous[n] = p
    BY <1>1, <1>2 DEF IsLinked
  <1> HIDE DEF p, s
  <1>4. next' = Freed(next, p, s, n) /\ previous' = Freed(previous, s, p, n)
        /\ cur' = End(previous', c)
    BY <1>3 DEF Free, Unlinked, Back, Neighbour, Freed
  <1>5. /\ IsLinked(q, next', previous') /\ Elems(q) = Elems(Chain) \ {n}
        /\ Pointed(q, c)
    <2>1. p = Link(Chain, k - 1) /\ s = Link(Chain, k + 1)
      BY DEF p, s
    <2>2. /\ IsLinked(q, Freed(next, p, s, n), Freed(previous, s, p, n))
          /\ Pointed(q, c) /\ Elems(q) = Elems(Chain) \ {n}
      BY <1>1, <1>2, <2>1, FreeLinks
    <2> QED BY <1>4, <2>2
  <1> HIDE DEF q, c
  <1>6. cur' = Link(q, 1)
    <2>1. End(previous', c) = Link(q, 1)
      BY <1>5, ChainIs
    <2> QED BY <1>4, <2>1
  <1>7. Pointed(q, cur')
    BY <1>5, <1>6, FirstPoints
  <1>8. Chain' = q /\ ListHolds' /\ First' = Link(q, 1) /\ Listed' = Elems(q)
    BY <1>5, <1>7, NewList
  <1>9. next' \in Links /\ previous' \in Links
    BY <1>5 DEF IsLinked
  <1>10. marked' = marked \ {n}
    BY DEF Free, Unlinked
  <1> QED BY <1>1, <1>5, <1>6, <1>8, <1>9, <1>10, Seen DEF q

(* Exchanging the records at k and k + 1 while RdownloadList is the first. *)
LEMMA ExchangeList ==
  ASSUME ListHolds, cur = First, NEW k \in 1..Len(Chain) - 1,
         Exchange(Chain[k], Chain[k + 1])
  PROVE  /\ ListHolds' /\ First' = cur' /\ Listed' = Listed
         /\ Chain' = Swapped(Chain, k) /\ Len(Chain') = Len(Chain)
         /\ next' \in Links /\ previous' \in Links
  <1> DEFINE q == Swapped(Chain, k)
             p == Link(Chain, k - 1)
             s == Link(Chain, k + 2)
             a == Chain[k]
             b == Chain[k + 1]
  <1>1. IsLinked(Chain, next, previous) /\ Len(Chain) \in Nat
    BY Seen DEF ListHolds
  <1>2. previous[a] = p /\ next[b] = s
    <2>1. k \in 1..Len(Chain) /\ k + 1 \in 1..Len(Chain) /\ (k + 1) + 1 = k + 2
      BY <1>1
    <2> QED BY <1>1, <2>1 DEF IsLinked
  <1>3. p = Link(Chain, k - 1) /\ s = Link(Chain, k + 2) /\ a = Chain[k] /\ b = Chain[k + 1]
    OBVIOUS
  <1>4. Exchange(a, b)
    OBVIOUS
  <1> HIDE DEF p, s, a, b
  <1>5. next' = Moved(next, p, b, a, s) /\ previous' = Moved(previous, s, a, b, p)
        /\ cur' = IF p = Null THEN b ELSE cur
    BY <1>2, <1>4 DEF Exchange, Moved
  <1>6. /\ IsLinked(q, next', previous') /\ Len(q) = Len(Chain)
        /\ Elems(q) = Elems(Chain)
        /\ Link(q, 1) = IF p = Null THEN b ELSE Chain[1]
    <2>1. /\ IsLinked(q, Moved(next, p, b, a, s), Moved(previous, s, a, b, p))
          /\ Len(q) = Len(Chain) /\ Elems(q) = Elems(Chain)
          /\ Link(q, 1) = IF p = Null THEN b ELSE Chain[1]
      BY <1>1, <1>3, SwapLinks
    <2> QED BY <1>5, <2>1
  <1> HIDE DEF q
  <1>7. cur' = Link(q, 1)
    <2>1. cur = Chain[1]
      BY <1>1, Seen DEF Link
    <2> QED BY <2>1, <1>5, <1>6
  <1>8. Pointed(q, cur')
    BY <1>6, <1>7, FirstPoints
  <1>9. Chain' = q /\ ListHolds' /\ First' = Link(q, 1) /\ Listed' = Elems(q)
    BY <1>6, <1>8, NewList
  <1>10. next' \in Links /\ previous' \in Links
    BY <1>6 DEF IsLinked
  <1> QED BY <1>6, <1>7, <1>9, <1>10, Seen DEF q

-----------------------------------------------------------------------------
(* What a step is for TransferQueue.                                       *)
LEMMA QueueSame ==
  ASSUME Chain' = Chain, act' = act
  PROVE  QueueStep
  BY DEF QueueStep, Queue!tqvars

LEMMA QueueBegins ==
  ASSUME ListHolds, Chain' = Chain, act = Null, NEW n \in Listed, act' = n
  PROVE  QueueStep
  <1>1. n \in Node
    BY RecordIs
  <1>2. Queue!Begin(n)
    BY DEF Queue!Begin, Queue!Queued, Queue!Range, Listed, Range
  <1> QED BY <1>1, <1>2 DEF QueueStep, Queue!Next

LEMMA QueueStops ==
  ASSUME Chain' = Chain, act' = Null
  PROVE  QueueStep
  <1>1. Queue!Halt
    BY DEF Queue!Halt
  <1> QED BY <1>1 DEF QueueStep, Queue!Next

LEMMA QueueGrows ==
  ASSUME ListHolds, NEW n \in Node \ Listed, Chain' = Append(Chain, n), act' = act
  PROVE  QueueStep
  <1>1. Queue!Enqueue(n)
    BY DEF Queue!Enqueue, Queue!Queued, Queue!Range, Listed, Range
  <1> QED BY <1>1 DEF QueueStep, Queue!Next

LEMMA QueueShrinks ==
  ASSUME ListHolds, NEW k \in 1..Len(Chain), Chain' = RemoveAt(Chain, k),
         act' = IF Chain[k] = act THEN Null ELSE act
  PROVE  QueueStep
  <1>1. Queue!Leave(k)
    BY DEF Queue!Leave, Queue!RemoveAt, RemoveAt
  <1> QED BY <1>1 DEF QueueStep, Queue!Next

LEMMA QueueSwaps ==
  ASSUME ListHolds, NEW k \in 1..Len(Chain) - 1, Chain' = Swapped(Chain, k), act' = act
  PROVE  QueueStep
  <1>1. Queue!Swap(k)
    BY DEF Queue!Swap, Swapped
  <1>2. k \in 1..Len(Chain) /\ k < Len(Chain)
    BY Seen
  <1> QED BY <1>1, <1>2 DEF QueueStep, Queue!Next

-----------------------------------------------------------------------------
(* Outside of the editor.                                                  *)
LEMMA AddStep ==
  ASSUME Inv, NEW n \in Node, Add(n)
  PROVE  Inv' /\ QueueStep
  <1> DEFINE q == Append(Chain, n)
             last == Link(Chain, Len(Chain))
  <1>1. /\ mode' = "adding" /\ n \notin Listed /\ cur' = n
        /\ UNCHANGED <<act, marked, window>>
        /\ next' = Relink(next, {<<End(next, cur), n>>})
        /\ previous' = [previous EXCEPT ![n] = End(next, cur)]
    BY DEF Add
  <1>2. ListHolds /\ n \notin Elems(Chain) /\ IsLinked(Chain, next, previous)
        /\ End(next, cur) = last /\ Chain \in Seq(Node)
    BY <1>1, Seen DEF Inv, ListHolds
  <1>3. IsLinked(q, next', previous')
    <2>1. IsLinked(q, Relink(next, {<<last, n>>}), [previous EXCEPT ![n] = last])
      BY <1>2, AddLinks
    <2> QED BY <1>1, <1>2, <2>1
  <1>4. n \in Elems(q) /\ Elems(q) = Elems(Chain) \cup {n} /\ q # <<>>
    <2>1. Elems(q) = Elems(Chain) \cup {n}
      BY <1>2, AppendElems
    <2> HIDE DEF q
    <2>2. q # <<>>
      <3>1. n \in Elems(q)
        BY <2>1
      <3> QED BY <3>1 DEF Elems
    <2> QED BY <2>1, <2>2
  <1> HIDE DEF q
  <1>5. Pointed(q, cur')
    BY <1>1, <1>4 DEF Pointed
  <1>6. Chain' = q /\ ListHolds' /\ Listed' = Elems(q)
    BY <1>3, <1>5, NewList
  <1>7. TypeOK'
    <2>1. next' \in Links /\ previous' \in Links
      BY <1>3 DEF IsLinked
    <2> QED BY <1>1, <2>1 DEF Inv, TypeOK, Links, window
  <1>8. ActListed'
    <2>1. Listed \subseteq Listed'
      BY <1>2, <1>4, <1>6, Seen
    <2> QED BY <1>1, <2>1 DEF Inv, ActListed
  <1>9. CountsFromFirst' /\ SelectionInList' /\ EditorFits'
    BY <1>1 DEF CountsFromFirst, SelectionInList, EditorFits
  <1>10. QueueStep
    BY <1>1, <1>2, <1>6, QueueGrows DEF q
  <1> QED BY <1>6, <1>7, <1>8, <1>9, <1>10 DEF Inv

(* The pointer goes back to the first record.                              *)
LEMMA BackToFirst ==
  ASSUME Inv, cur' = First, UNCHANGED <<next, previous, act, marked, window>>,
         mode' = "main"
  PROVE  Inv' /\ QueueStep
  <1>1. ListHolds /\ Pointed(Chain, First)
    BY Seen, FirstPoints DEF Inv, ListHolds
  <1>2. Chain' = Chain /\ ListHolds' /\ First' = First /\ Listed' = Listed
    BY <1>1, SameList
  <1>3. TypeOK'
    <2>1. cur' \in Node \cup {Null}
      BY <1>1, Seen DEF Link
    <2> QED BY <2>1 DEF Inv, TypeOK, window
  <1>4. CountsFromFirst' /\ ActListed' /\ SelectionInList' /\ EditorFits'
    BY <1>2 DEF Inv, CountsFromFirst, ActListed, SelectionInList, EditorFits
  <1>5. QueueStep
    BY <1>2, QueueSame
  <1> QED BY <1>2, <1>3, <1>4, <1>5 DEF Inv

(* The engine takes a record or leaves it.                                 *)
LEMMA EngineStep ==
  ASSUME Inv, GiveUp \/ Terminate \/ \E n \in Node : Begin(n)
  PROVE  Inv' /\ QueueStep
  <1>1. UNCHANGED <<links, marked, window>>
    BY DEF GiveUp, Terminate, Begin
  <1>2. ListHolds
    BY DEF Inv
  <1>3. /\ Chain' = Chain /\ ListHolds' /\ First' = First /\ Listed' = Listed
        /\ cur' = cur /\ next' = next /\ previous' = previous
    BY <1>1, <1>2, KeptList DEF links
  <1>4. /\ act' = Null \/ (act' \in Listed /\ act' \in Node /\ act = Null)
        /\ mode' = mode \/ (mode' = "down" /\ act' = Null)
    <2>1. CASE GiveUp
      BY <2>1 DEF GiveUp
    <2>2. CASE Terminate
      BY <2>2 DEF Terminate
    <2>3. CASE \E n \in Node : Begin(n)
      BY <2>3 DEF Begin
    <2> QED BY <2>1, <2>2, <2>3
  <1>5. TypeOK'
    BY <1>1, <1>3, <1>4 DEF Inv, TypeOK, window
  <1>6. CountsFromFirst' /\ ActListed'
    BY <1>3, <1>4 DEF Inv, CountsFromFirst, ActListed
  <1>7. SelectionInList' /\ EditorFits'
    <2>1. Count' = Count
      BY <1>3 DEF Count
    <2> QED BY <1>1, <1>4, <2>1 DEF Inv, SelectionInList, EditorFits, Fits, window
  <1>8. QueueStep
    BY <1>2, <1>3, <1>4, QueueStops, QueueBegins
  <1> QED BY <1>3, <1>5, <1>6, <1>7, <1>8 DEF Inv

(* A record that is freed is one the engine has let go.                    *)
LEMMA FreeStep ==
  ASSUME Inv, NEW n \in Listed, Free(n), Forget(n), UNCHANGED <<mode, window>>,
         mode \in {"main", "purge"}
  PROVE  Inv' /\ QueueStep
  <1>1. ListHolds /\ n \in Node
    BY RecordIs DEF Inv
  <1>2. /\ ListHolds' /\ First' = cur' /\ Listed' = Listed \ {n}
        /\ next' \in Links /\ previous' \in Links /\ marked' = marked \ {n}
    BY <1>1, FreeList
  <1>3. act' = IF act = n THEN Null ELSE act
    BY DEF Forget
  <1>4. TypeOK'
    <2>1. cur' \in Node \cup {Null}
      BY <1>2, PointedIs
    <2> QED BY <1>2, <1>3, <2>1 DEF Inv, TypeOK, Links, window
  <1>5. CountsFromFirst' /\ ActListed' /\ SelectionInList' /\ EditorFits'
    BY <1>2, <1>3 DEF Inv, CountsFromFirst, ActListed, SelectionInList, EditorFits
  <1>6. QueueStep
    <2>1. PICK k \in 1..Len(Chain) : Chain[k] = n /\ Chain' = RemoveAt(Chain, k)
      BY <1>1, FreeList
    <2>2. act' = IF Chain[k] = act THEN Null ELSE act
      BY <1>3, <2>1
    <2> QED BY <1>1, <2>1, <2>2, QueueShrinks
  <1> QED BY <1>2, <1>4, <1>5, <1>6 DEF Inv

LEMMA RemoveActStep ==
  ASSUME Inv, RemoveAct
  PROVE  Inv' /\ QueueStep
  <1>1. act \in Listed /\ Free(act) /\ UNCHANGED <<mode, window>> /\ mode = "main"
    BY DEF Inv, ActListed, RemoveAct
  <1>2. Forget(act)
    BY DEF RemoveAct, Forget
  <1> QED BY <1>1, <1>2, FreeStep

LEMMA PurgeStep ==
  ASSUME Inv, Purge
  PROVE  Inv' /\ QueueStep
  <1>1. mode = "purge" /\ UNCHANGED window
    BY DEF Purge
  <1>2. ListHolds /\ TypeOK
    BY DEF Inv
  <1>3. cur # Null => cur \in Listed /\ cur \in Node
    BY <1>2, Seen DEF ListHolds, Pointed, TypeOK
  <1>4. CASE cur \in marked
    <2>1. cur \in Listed
      BY <1>2, <1>3, <1>4, ListConstants DEF TypeOK
    <2>2. Forget(cur) /\ Free(cur) /\ mode' = mode
      BY <1>4 DEF Purge
    <2> QED BY <1>1, <2>1, <2>2, FreeStep
  <1>5. CASE cur \notin marked /\ cur # Null /\ next[cur] # Null
    <2>1. cur' = next[cur] /\ mode' = mode /\ UNCHANGED <<next, previous, act, marked>>
      BY <1>5 DEF Purge
    <2>2. Pointed(Chain, cur') /\ cur' \in Node
      <3>1. PICK k \in 1..Len(Chain) : cur = Chain[k]
        BY <1>2, <1>3, <1>5, RecordIs
      <3>2. next[cur] = Link(Chain, k + 1)
        BY <1>2, <3>1 DEF ListHolds, IsLinked
      <3>3. k + 1 \in 1..Len(Chain) /\ next[cur] = Chain[k + 1]
        BY <3>2, <1>5 DEF Link
      <3>4. Chain # <<>> /\ cur' \in Elems(Chain)
        BY <2>1, <3>1, <3>3 DEF Elems
      <3>5. cur' \in Node
        BY <2>1, <1>2, <1>3, <1>5 DEF TypeOK
      <3> QED BY <3>4, <3>5 DEF Pointed
    <2>3. Chain' = Chain /\ ListHolds' /\ Listed' = Listed
      BY <1>2, <2>1, <2>2, SameList
    <2>4. TypeOK'
      BY <1>1, <1>2, <2>1, <2>2 DEF TypeOK, window
    <2>5. CountsFromFirst' /\ ActListed' /\ SelectionInList' /\ EditorFits'
      BY <1>1, <2>1, <2>3 DEF Inv, CountsFromFirst, ActListed, SelectionInList, EditorFits
    <2>6. QueueStep
      BY <2>1, <2>3, QueueSame
    <2> QED BY <2>3, <2>4, <2>5, <2>6 DEF Inv
  <1>6. CASE cur \notin marked /\ ~(cur # Null /\ next[cur] # Null)
    <2>1. cur' = First /\ mode' = "main" /\ UNCHANGED <<next, previous, act, marked>>
      BY <1>6 DEF Purge
    <2> QED BY <1>1, <2>1, BackToFirst
  <1> QED BY <1>4, <1>5, <1>6

-----------------------------------------------------------------------------
(* In the editor.                                                          *)
InEditor == Inv /\ mode = "edit"

LEMMA EditorIs ==
  ASSUME InEditor
  PROVE  /\ ListHolds /\ TypeOK /\ cur = First /\ Count = Len(Chain) /\ Count \in Nat
         /\ first \in Nat /\ sel \in Nat /\ first <= sel /\ sel < Count
         /\ rows \in Nat /\ rows > 0 /\ Fits(first, rows)
         /\ \A k \in Nat : Nr(k) = Link(Chain, k + 1)
  <1>1. ListHolds /\ TypeOK /\ cur = First
    BY DEF InEditor, Inv, CountsFromFirst
  <1>2. Count = Len(Chain) /\ Count \in Nat /\ \A k \in Nat : Nr(k) = Link(Chain, k + 1)
    BY <1>1, Seen, SeenFromFirst
  <1>3. first \in Nat /\ sel \in Nat /\ rows \in Nat /\ rows > 0
    BY <1>1, ListConstants DEF TypeOK
  <1>4. first <= sel /\ sel < Count /\ Fits(first, rows)
    BY DEF InEditor, Inv, SelectionInList, EditorFits
  <1> QED BY <1>1, <1>2, <1>3, <1>4

LEMMA EditorNumbers ==
  ASSUME InEditor
  PROVE  /\ first \in Nat /\ sel \in Nat /\ Count \in Nat /\ rows \in Nat /\ rows > 0
         /\ first <= sel /\ sel < Count /\ Count = Len(Chain)
         /\ (first = 0 /\ Count <= rows) \/ first + rows <= Count
  <1>1. Fits(first, rows)
    BY EditorIs
  <1> QED BY <1>1, EditorIs DEF Fits

(* The selected record is at place sel + 1 of the list.                    *)
LEMMA SelectedIs ==
  ASSUME InEditor
  PROVE  /\ sel + 1 \in 1..Len(Chain) /\ Selected = Chain[sel + 1] /\ Selected \in Node
         /\ next[Selected] = Link(Chain, sel + 2) /\ previous[Selected] = Link(Chain, sel)
  <1>1. sel + 1 \in 1..Len(Chain) /\ Selected = Chain[sel + 1]
    BY EditorIs DEF Selected, Link
  <1>2. IsLinked(Chain, next, previous)
    BY EditorIs DEF ListHolds
  <1>3. Selected \in Node
    BY <1>1, <1>2 DEF IsLinked
  <1>4. /\ next[Selected] = Link(Chain, (sel + 1) + 1)
        /\ previous[Selected] = Link(Chain, (sel + 1) - 1)
    BY <1>1, <1>2 DEF IsLinked
  <1>5. (sel + 1) + 1 = sel + 2 /\ (sel + 1) - 1 = sel
    BY EditorNumbers
  <1> QED BY <1>1, <1>3, <1>4, <1>5

(* Two neighbours change places, unless the list stays as it is.           *)
Exchanges == \E k \in 1..Len(Chain) - 1 : Exchange(Chain[k], Chain[k + 1])

LEMMA EditedList ==
  ASSUME InEditor, UNCHANGED links \/ Exchanges
  PROVE  /\ ListHolds' /\ First' = cur' /\ Listed' = Listed /\ Count' = Count
         /\ next' \in Links /\ previous' \in Links /\ cur' \in Node \cup {Null}
  <1>1. ListHolds /\ cur = First /\ Count = Len(Chain)
    BY EditorIs
  <1>2. CASE UNCHANGED links
    <2>1. /\ ListHolds' /\ First' = First /\ Listed' = Listed
          /\ next' = next /\ previous' = previous /\ cur' = cur
      BY <1>1, <1>2, KeptList DEF links
    <2>2. Count' = Count
      BY <2>1 DEF Count
    <2>3. next \in Links /\ previous \in Links
      BY <1>1 DEF ListHolds, IsLinked
    <2> QED BY <1>1, <2>1, <2>2, <2>3, PointedIs
  <1>3. CASE Exchanges
    <2>1. PICK k \in 1..Len(Chain) - 1 : Exchange(Chain[k], Chain[k + 1])
      BY <1>3 DEF Exchanges
    <2>2. /\ ListHolds' /\ First' = cur' /\ Listed' = Listed /\ Len(Chain') = Len(Chain)
          /\ next' \in Links /\ previous' \in Links
      BY <1>1, <2>1, ExchangeList
    <2>3. Count' = Len(Chain')
      BY <2>2 DEF Count, Chain
    <2> QED BY <1>1, <2>2, <2>3, PointedIs
  <1> QED BY <1>2, <1>3

LEMMA ShowsStep ==
  ASSUME InEditor, NEW f \in Nat, NEW s \in Nat, f <= s, s < Count, Shows(f, s),
         marked' \subseteq Node, UNCHANGED links \/ (Exchanges /\ Fits(f, rows))
  PROVE  Inv' /\ QueueStep
  <1>1. /\ ListHolds' /\ First' = cur' /\ Listed' = Listed /\ Count' = Count
        /\ next' \in Links /\ previous' \in Links /\ cur' \in Node \cup {Null}
    BY EditedList
  <1>2. first' = f /\ sel' = s /\ rows' = rows /\ cut' = cut
    BY DEF Shows
  <1>3. \/ Fits(f, rows) /\ mode' = "edit" /\ act' = act
        \/ mode' = "down" /\ act' = Null
    BY DEF Shows, Paint
  <1>4. TypeOK'
    BY <1>1, <1>2, <1>3, EditorIs DEF TypeOK, Links
  <1>5. CountsFromFirst' /\ ActListed'
    BY <1>1, <1>3 DEF CountsFromFirst, ActListed, InEditor, Inv
  <1>6. SelectionInList' /\ EditorFits'
    BY <1>1, <1>2, <1>3 DEF SelectionInList, EditorFits, Fits
  <1>7. QueueStep
    <2>1. ListHolds /\ cur = First
      BY EditorIs
    <2>2. CASE UNCHANGED links
      <3>1. Chain' = Chain
        BY <2>1, <2>2, KeptList
      <3> QED BY <3>1, <1>3, QueueSame, QueueStops
    <2>3. CASE Exchanges /\ Fits(f, rows)
      <3>1. PICK k \in 1..Len(Chain) - 1 : Exchange(Chain[k], Chain[k + 1])
        BY <2>3 DEF Exchanges
      <3>2. Chain' = Swapped(Chain, k)
        BY <2>1, <3>1, ExchangeList
      <3>3. act' = act
        BY <2>3 DEF Shows, Paint
      <3> QED BY <2>1, <3>2, <3>3, QueueSwaps
    <2> QED BY <2>2, <2>3
  <1> QED BY <1>1, <1>4, <1>5, <1>6, <1>7 DEF Inv

LEMMA DownStep ==
  ASSUME InEditor, Down, marked' \subseteq Node
  PROVE  Inv' /\ QueueStep
  <1>1. UNCHANGED links \/ (Exchanges /\ sel + 2 <= Count)
    <2>1. CASE cut /\ next[Selected] # Null
      <3>1. Exchange(Selected, next[Selected])
        BY <2>1 DEF Down
      <3>2. sel + 2 \in 1..Len(Chain) /\ next[Selected] = Chain[sel + 2]
        BY <2>1, SelectedIs DEF Link
      <3>3. /\ sel + 1 \in 1..Len(Chain) - 1 /\ sel + 2 = (sel + 1) + 1
            /\ sel + 2 <= Count
        BY <3>2, EditorNumbers
      <3>4. Exchange(Chain[sel + 1], Chain[(sel + 1) + 1])
        BY <3>1, <3>2, <3>3, SelectedIs
      <3> QED BY <3>3, <3>4 DEF Exchanges
    <2>2. CASE ~(cut /\ next[Selected] # Null)
      BY <2>2 DEF Down
    <2> QED BY <2>1, <2>2
  <1>2. CASE sel + 1 = first + rows /\ first + rows < Count
    <2>1. Shows(first + 1, sel + 1)
      BY <1>2 DEF Down
    <2>2. /\ first + 1 \in Nat /\ sel + 1 \in Nat /\ first + 1 <= sel + 1 /\ sel + 1 < Count
          /\ Fits(first + 1, rows)
      BY <1>2, EditorNumbers DEF Fits
    <2> QED BY <1>1, <2>1, <2>2, ShowsStep
  <1>3. CASE ~(sel + 1 = first + rows /\ first + rows < Count)
    <2>1. Shows(first, NextSel)
      BY <1>3 DEF Down
    <2>2. NextSel \in Nat /\ first <= NextSel /\ NextSel < Count
      BY EditorNumbers DEF NextSel
    <2> QED BY <1>1, <2>1, <2>2, EditorIs, ShowsStep
  <1> QED BY <1>2, <1>3

LEMMA UpStep ==
  ASSUME InEditor, Up
  PROVE  Inv' /\ QueueStep
  <1>1. sel > 0 /\ marked' = marked /\ marked \subseteq Node
    BY EditorIs DEF Up, TypeOK
  <1>2. UNCHANGED links \/ Exchanges
    <2>1. CASE cut
      <3>1. Exchange(previous[Selected], Selected)
        BY <2>1 DEF Up
      <3>2. sel \in 1..Len(Chain) - 1
        BY <1>1, EditorNumbers
      <3>3. sel \in 1..Len(Chain)
        BY <3>2, EditorIs
      <3>4. Exchange(Chain[sel], Chain[sel + 1])
        BY <3>1, <3>3, SelectedIs DEF Link
      <3> QED BY <3>2, <3>4 DEF Exchanges
    <2>2. CASE ~cut
      BY <2>2 DEF Up
    <2> QED BY <2>1, <2>2
  <1>3. CASE first > 0 /\ sel = first
    <2>1. Shows(first - 1, sel - 1)
      BY <1>3 DEF Up
    <2>2. /\ first - 1 \in Nat /\ sel - 1 \in Nat /\ first - 1 <= sel - 1 /\ sel - 1 < Count
          /\ Fits(first - 1, rows)
      BY <1>3, EditorNumbers DEF Fits
    <2> QED BY <1>1, <1>2, <2>1, <2>2, ShowsStep
  <1>4. CASE ~(first > 0 /\ sel = first)
    <2>1. Shows(first, sel - 1)
      BY <1>4 DEF Up
    <2>2. sel - 1 \in Nat /\ first <= sel - 1 /\ sel - 1 < Count
      BY <1>1, <1>4, EditorNumbers
    <2> QED BY <1>1, <1>2, <2>1, <2>2, EditorIs, ShowsStep
  <1> QED BY <1>3, <1>4

LEMMA PageStep ==
  ASSUME InEditor, PageDown \/ PageUp
  PROVE  Inv' /\ QueueStep
  <1>1. UNCHANGED links /\ marked' = marked /\ marked \subseteq Node
    BY EditorIs DEF PageDown, PageUp, TypeOK
  <1>2. ASSUME NEW f \in Nat, NEW s \in Nat, f <= s, s < Count, Shows(f, s)
        PROVE  Inv' /\ QueueStep
    BY <1>1, <1>2, ShowsStep
  <1>3. CASE PageDown
    <2>1. first + rows <= Count
      BY <1>3 DEF PageDown
    <2>2. CASE sel + 1 = first + rows /\ sel + rows < Count
      <3>1. Shows(sel, sel + rows - 1)
        BY <1>3, <2>2 DEF PageDown
      <3>2. sel + rows - 1 \in Nat /\ sel <= sel + rows - 1 /\ sel + rows - 1 < Count
        BY <2>2, EditorNumbers
      <3> QED BY <3>1, <3>2, <1>2, EditorNumbers
    <2>3. CASE sel + 1 = first + rows /\ ~(sel + rows < Count)
      <3>1. Shows(Count - rows, Count - 1)
        BY <1>3, <2>3 DEF PageDown
      <3>2. /\ Count - rows \in Nat /\ Count - 1 \in Nat /\ Count - rows <= Count - 1
            /\ Count - 1 < Count
        BY <2>1, EditorNumbers
      <3> QED BY <3>1, <3>2, <1>2
    <2>4. CASE sel + 1 # first + rows
      <3> DEFINE s == IF sel + rows <= Count THEN first + rows - 1 ELSE Count - 1
      <3>1. Shows(first, s)
        BY <1>3, <2>4 DEF PageDown
      <3>2. s \in Nat /\ first <= s /\ s < Count
        BY <2>1, EditorNumbers
      <3> HIDE DEF s
      <3> QED BY <3>1, <3>2, <1>2, EditorIs
    <2> QED BY <2>2, <2>3, <2>4
  <1>4. CASE PageUp
    <2> DEFINE f == IF first # sel THEN first
                    ELSE IF first - rows < 1 THEN 1 ELSE first - rows + 1
    <2>1. Shows(f, f) /\ sel > 1
      BY <1>4 DEF PageUp
    <2>2. f \in Nat /\ f <= f /\ f < Count
      BY <2>1, EditorNumbers
    <2> HIDE DEF f
    <2> QED BY <2>1, <2>2, <1>2
  <1> QED BY <1>3, <1>4

(* What leaves the list and the selection as they are.                     *)
LEMMA RestStep ==
  ASSUME InEditor, UNCHANGED <<links, first, sel>>, marked' \subseteq Node,
         rows' \in Heights, cut' \in BOOLEAN,
         \/ mode' = "edit" /\ act' = act /\ Fits(first, rows')
         \/ mode' = "purge" /\ act' = act
         \/ mode' = "down" /\ act' = Null
  PROVE  Inv' /\ QueueStep
  <1>1. /\ ListHolds' /\ First' = cur' /\ Listed' = Listed /\ Count' = Count
        /\ next' \in Links /\ previous' \in Links /\ cur' \in Node \cup {Null}
    BY EditedList
  <1>2. TypeOK'
    BY <1>1, EditorIs DEF TypeOK, Links
  <1>3. CountsFromFirst' /\ ActListed'
    BY <1>1 DEF CountsFromFirst, ActListed, InEditor, Inv
  <1>4. SelectionInList' /\ EditorFits'
    BY <1>1, EditorIs DEF SelectionInList, EditorFits, Fits
  <1>5. QueueStep
    <2>1. Chain' = Chain
      BY EditorIs, KeptList
    <2> QED BY <2>1, QueueSame, QueueStops
  <1> QED BY <1>1, <1>2, <1>3, <1>4, <1>5 DEF Inv

LEMMA EditorStep ==
  ASSUME Inv, \/ MoveOn \/ MarkDelete \/ Unmark \/ Up \/ PageDown \/ PageUp
              \/ MoveMode \/ (\E s \in SUBSET Listed : Flush(s)) \/ Resize \/ Quit
  PROVE  Inv' /\ QueueStep
  <1>1. InEditor
    BY DEF InEditor, MoveOn, MarkDelete, Unmark, Up, PageDown, PageUp, MoveMode, Flush,
           Resize, Quit, Key
  <1>2. /\ marked \subseteq Node /\ Selected \in Node /\ Listed \subseteq Node
        /\ rows \in Heights /\ cut \in BOOLEAN /\ Fits(first, rows) /\ mode = "edit"
    <2>1. Listed \subseteq Node
      BY <1>1, EditorIs, RecordIs
    <2> QED BY <1>1, <2>1, EditorIs, SelectedIs DEF TypeOK, InEditor
  <1>3. CASE MoveOn \/ MarkDelete \/ Unmark
    <2>1. Down /\ marked' \subseteq Node
      BY <1>2, <1>3 DEF MoveOn, MarkDelete, Unmark
    <2> QED BY <1>1, <2>1, DownStep
  <1>4. CASE MoveMode
    <2>1. UNCHANGED <<links, act, marked, mode, first, sel, rows>> /\ cut' \in BOOLEAN
      BY <1>4 DEF MoveMode
    <2> QED BY <1>1, <1>2, <2>1, RestStep
  <1>5. ASSUME NEW s \in SUBSET Listed, Flush(s)
        PROVE  Inv' /\ QueueStep
    <2>1. /\ UNCHANGED <<links, first, sel, rows, cut>> /\ marked' \subseteq Node
          /\ \/ mode' = "edit" /\ act' = act
             \/ mode' = "down" /\ act' = Null
      BY <1>2, <1>5 DEF Flush, window
    <2> QED BY <1>1, <1>2, <2>1, RestStep
  <1>6. CASE Resize
    <2>1. /\ UNCHANGED <<links, first, sel, cut, marked>> /\ rows' \in Heights
          /\ \/ mode' = "edit" /\ act' = act /\ Fits(first, rows')
             \/ mode' = "down" /\ act' = Null
      BY <1>6 DEF Resize, Paint
    <2> QED BY <1>1, <1>2, <2>1, RestStep
  <1>7. CASE Quit
    <2>1. UNCHANGED <<links, act, marked, first, sel, rows, cut>> /\ mode' = "purge"
      BY <1>7 DEF Quit, window
    <2> QED BY <1>1, <1>2, <2>1, RestStep
  <1> QED BY <1>1, <1>3, <1>4, <1>5, <1>6, <1>7, UpStep, PageStep

(* The editor is opened on a list that is not empty.                       *)
LEMMA OpenStep ==
  ASSUME Inv, OpenEditor
  PROVE  Inv' /\ QueueStep
  <1>1. /\ mode = "main" /\ Count # 0 /\ mode' = "edit" /\ first' = 0 /\ sel' = 0
        /\ rows' \in Heights /\ cut' = FALSE /\ UNCHANGED <<links, act, marked>>
    BY DEF OpenEditor
  <1>2. ListHolds /\ TypeOK /\ cur = First
    BY <1>1 DEF Inv, CountsFromFirst
  <1>3. /\ Chain' = Chain /\ ListHolds' /\ First' = First /\ Listed' = Listed
        /\ cur' = cur /\ next' = next /\ previous' = previous
    BY <1>1, <1>2, KeptList DEF links
  <1>4. Count' = Count /\ Count \in Nat
    BY <1>2, <1>3, Seen, SeenFromFirst DEF Count
  <1>5. TypeOK'
    BY <1>1, <1>2, <1>3 DEF TypeOK
  <1>6. CountsFromFirst' /\ ActListed'
    BY <1>1, <1>2, <1>3 DEF Inv, CountsFromFirst, ActListed
  <1>7. SelectionInList' /\ EditorFits'
    <2>1. rows' \in Nat /\ rows' > 0
      BY <1>1, ListConstants
    <2>2. Count <= rows' \/ 0 + rows' <= Count
      <3>1. \A a, b \in Nat : a <= b \/ 0 + b <= a
        OBVIOUS
      <3>2. Count \in Nat
        BY <1>4
      <3> QED BY <3>1, <3>2, <2>1
    <2>3. 0 < Count /\ 0 <= 0
      BY <1>1, <1>4
    <2> QED BY <1>1, <1>4, <2>2, <2>3 DEF SelectionInList, EditorFits, Fits
  <1>8. QueueStep
    BY <1>1, <1>3, QueueSame
  <1> QED BY <1>3, <1>5, <1>6, <1>7, <1>8 DEF Inv

-----------------------------------------------------------------------------
(* Every state.                                                            *)
LEMMA InitHolds == Init => Inv /\ Queue!Init
  <1> SUFFICES ASSUME Init PROVE Inv /\ Queue!Init
    OBVIOUS
  <1> DEFINE q == <<>>
  <1>1. /\ next = [n \in Node |-> Null] /\ previous = [n \in Node |-> Null]
        /\ cur = Null /\ act = Null /\ marked = {} /\ mode = "main"
        /\ first = 0 /\ sel = 0 /\ rows \in Heights /\ cut = FALSE
    BY DEF Init
  <1>2. IsLinked(q, next, previous) /\ Pointed(q, cur) /\ Link(q, 1) = Null
    BY <1>1 DEF IsLinked, Pointed, Once, Links, Link
  <1> HIDE DEF q
  <1>3. First = Null /\ Chain = q
    BY <1>2, ChainIs DEF First, Chain
  <1>4. TypeOK
    BY <1>1 DEF TypeOK
  <1>5. ListHolds /\ CountsFromFirst /\ ActListed /\ SelectionInList /\ EditorFits
    BY <1>1, <1>2, <1>3 DEF ListHolds, CountsFromFirst, ActListed, SelectionInList, EditorFits
  <1>6. Queue!Init
    BY <1>1, <1>3 DEF Queue!Init, q
  <1> QED BY <1>4, <1>5, <1>6 DEF Inv

LEMMA NextHolds ==
  ASSUME Inv, [Next]_vars
  PROVE  Inv' /\ QueueStep
  <1>1. CASE UNCHANGED vars
    <2>1. /\ UNCHANGED links /\ act' = act /\ marked' = marked /\ mode' = mode
          /\ first' = first /\ sel' = sel /\ rows' = rows /\ cut' = cut
      BY <1>1 DEF vars, window
    <2>2. /\ Chain' = Chain /\ ListHolds' /\ First' = First /\ Listed' = Listed
          /\ cur' = cur /\ next' = next /\ previous' = previous
      BY <2>1, KeptList DEF Inv, links
    <2>3. Count' = Count
      BY <2>2 DEF Count
    <2>4. Inv'
      BY <2>1, <2>2, <2>3 DEF Inv, TypeOK, CountsFromFirst, ActListed, SelectionInList,
                              EditorFits, Fits
    <2> QED BY <2>1, <2>2, <2>4, QueueSame
  <1>2. CASE Added \/ Start
    <2>1. cur' = First /\ UNCHANGED <<next, previous, act, marked, window>> /\ mode' = "main"
      BY <1>2 DEF Added, Start
    <2> QED BY <2>1, BackToFirst
  <1> QED BY <1>1, <1>2, AddStep, EngineStep, RemoveActStep, PurgeStep, OpenStep, EditorStep
             DEF Next

LEMMA Invariance == Spec => []Inv
  <1>1. Init => Inv
    BY InitHolds
  <1>2. Inv /\ [Next]_vars => Inv'
    BY NextHolds
  <1> QED BY <1>1, <1>2, PTL DEF Spec

(* The variables keep their types.                                         *)
THEOREM ListTyped == Spec => []TypeOK
  <1>1. Inv => TypeOK
    BY DEF Inv
  <1> QED BY <1>1, Invariance, PTL

(* However records are added, moved and freed by hand (RmanageList,         *)
(* downloadlist.c), with any number of them: the links of the list agree   *)
(* in both directions, and the walk along them ends.                       *)
THEOREM LinksAgree == Spec => []LinkedBothWays
  <1>1. Inv => LinkedBothWays
    <2> SUFFICES ASSUME Inv PROVE LinkedBothWays
      OBVIOUS
    <2>1. ListHolds /\ IsLinked(Chain, next, previous)
      BY DEF Inv, ListHolds
    <2>2. Len(Chain) <= Cardinality(Node)
      BY <2>1, Seen, OnceFits
    <2>3. ASSUME NEW n \in Listed
          PROVE  /\ next[n] # Null => previous[next[n]] = n
                 /\ previous[n] # Null => next[previous[n]] = n
      <3>1. PICK k \in 1..Len(Chain) : n = Chain[k]
        BY <2>1, RecordIs
      <3>2. k \in Nat /\ Len(Chain) \in Nat
        BY <2>1, Seen
      <3>3. next[n] = Link(Chain, k + 1) /\ previous[n] = Link(Chain, k - 1)
        BY <2>1, <3>1 DEF IsLinked
      <3>4. ASSUME next[n] # Null
            PROVE  previous[next[n]] = n
        <4>1. k + 1 \in 1..Len(Chain) /\ next[n] = Chain[k + 1]
          BY <3>3, <3>4 DEF Link
        <4>2. previous[Chain[k + 1]] = Link(Chain, (k + 1) - 1)
          BY <2>1, <4>1 DEF IsLinked
        <4>3. (k + 1) - 1 = k
          BY <3>2
        <4> QED BY <3>1, <4>1, <4>2, <4>3 DEF Link
      <3>5. ASSUME previous[n] # Null
            PROVE  next[previous[n]] = n
        <4>1. k - 1 \in 1..Len(Chain) /\ previous[n] = Chain[k - 1]
          BY <3>3, <3>5 DEF Link
        <4>2. next[Chain[k - 1]] = Link(Chain, (k - 1) + 1)
          BY <2>1, <4>1 DEF IsLinked
        <4>3. (k - 1) + 1 = k
          BY <3>2
        <4> QED BY <3>1, <4>1, <4>2, <4>3 DEF Link
      <3> QED BY <3>4, <3>5
    <2> QED BY <2>2, <2>3 DEF LinkedBothWays
  <1> QED BY <1>1, Invariance, PTL

(* RdownloadList is the first record whenever the editor and the engine's  *)
(* search count from it.                                                   *)
THEOREM FirstIsCounted == Spec => []CountsFromFirst
  <1>1. Inv => CountsFromFirst
    BY DEF Inv
  <1> QED BY <1>1, Invariance, PTL

(* The record the engine works on (RdownloadListAct) is never one that was *)
(* freed, by the engine, the editor or the purge after it.                 *)
THEOREM ActIsListed == Spec => []ActListed
  <1>1. Inv => ActListed
    BY DEF Inv
  <1> QED BY <1>1, Invariance, PTL

(* The editor selects and paints records that exist, in a window of any    *)
(* height and after any changes of it.                                     *)
THEOREM SelectionExists == Spec => []SelectionInList
  <1>1. Inv => SelectionInList
    BY DEF Inv
  <1> QED BY <1>1, Invariance, PTL

(* The rewiring of links by hand is the queue of TransferQueue: every step *)
(* appends, takes one away, exchanges two neighbours or leaves the order.  *)
THEOREM ListIsAQueue == Spec => IsAQueue
  <1>1. Init => Queue!Init
    BY InitHolds
  <1>2. Inv /\ [Next]_vars => [Queue!Next]_(Queue!tqvars)
    BY NextHolds DEF QueueStep
  <1> QED BY <1>1, <1>2, Invariance, PTL DEF Spec, IsAQueue, Queue!Spec
=============================================================================
