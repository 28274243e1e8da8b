--------------------------- MODULE DataInduction ---------------------------
(* Induction over numbers and over the places of a sequence, for sets: a   *)
(* property is the set of what has it, and a recursive definition a        *)
(* function of the place and of the value before.                          *)
EXTENDS Lists, Integers, Sequences, SequencesExt, FiniteSets, FiniteSetTheorems,
        SequenceTheorems, TLAPS

(* Of a set of numbers that is not empty one is the least: of the          *)
(* intervals 1..n none is within another for ever.                         *)
LEMMA LeastNumber ==
  ASSUME NEW N, N \subseteq Nat, N # {}
  PROVE  \E n \in N : \A m \in N : n <= m
  <1> DEFINE T == {1..n : n \in N}
  <1>1. T \subseteq FiniteSubsetsOf(Nat)
    <2>1. \A n \in N : 1..n \in FiniteSubsetsOf(Nat)
      BY FS_Interval DEF FiniteSubsetsOf
    <2> QED BY <2>1
  <1>2. T # {}
    OBVIOUS
  <1>3. IsWellFoundedOn(StrictSubsetOrdering(Nat), FiniteSubsetsOf(Nat))
    BY FS_StrictSubsetOrderingWellFounded
  <1>4. PICK t \in T : \A u \in T : ~ (<<u, t>> \in StrictSubsetOrdering(Nat))
    <2> HIDE DEF T
    <2> QED BY <1>1, <1>2, <1>3, WFMin
  <1>5. PICK n \in N : t = 1..n
    OBVIOUS
  <1>6. ASSUME NEW m \in N, m < n
        PROVE  FALSE
    <2>1. 1..m \subseteq 1..n /\ n \in 1..n /\ n \notin 1..m
      BY <1>6
    <2>2. <<1..m, 1..n>> \in StrictSubsetOrdering(Nat)
      BY <2>1 DEF StrictSubsetOrdering
    <2> QED BY <2>2, <1>4, <1>5
  <1>7. \A m \in N : n <= m
    <2>1. \A m \in N : ~(m < n) /\ m \in Int /\ n \in Int
      BY <1>6
    <2> QED BY <2>1
  <1> QED BY <1>5, <1>7

(* What holds of 0 and goes from each number to the next up to n.          *)
LEMMA UpTo ==
  ASSUME NEW n \in Nat, NEW S, 0 \in S,
         \A i \in 0..n - 1 : i \in S => i + 1 \in S
  PROVE  0..n \subseteq S
  <1> DEFINE N == (0..n) \ S
  <1> SUFFICES ASSUME N # {} PROVE FALSE
    OBVIOUS
  <1>1. N \subseteq Nat
    OBVIOUS
  <1>2. PICK m \in N : \A k \in N : m <= k
    <2> HIDE DEF N
    <2> QED BY <1>1, LeastNumber
  <1>3. m # 0 /\ m - 1 \in 0..n - 1 /\ m - 1 \in 0..n
    OBVIOUS
  <1>4. m - 1 \notin N
    BY <1>2, <1>3
  <1>5. m - 1 \in S
    BY <1>3, <1>4
  <1> QED BY <1>3, <1>5

(* A value for each of 0..n, made of the one before by next.               *)
Steps(n, S) == [1..n -> [S -> S]]
Follows(f, n, S, first, next) ==
  f \in [0..n -> S] /\ f[0] = first /\ \A i \in 1..n : f[i] = next[i][f[i - 1]]

LEMMA Recursion ==
  ASSUME NEW n \in Nat, NEW S, NEW first \in S, NEW next \in Steps(n, S)
  PROVE  \E f : Follows(f, n, S, first, next)
  <1> USE DEF Steps, Follows
  <1> DEFINE Def(m, f) == f[0] = first /\ \A i \in 1..m : f[i] = next[i][f[i - 1]]
             D == {m \in 0..n : \E f \in [0..m -> S] : Def(m, f)}
  <1>1. 0 \in D
    <2> DEFINE g == [i \in 0..0 |-> first]
    <2>1. g \in [0..0 -> S] /\ Def(0, g)
      OBVIOUS
    <2> HIDE DEF g
    <2>2. \E f \in [0..0 -> S] : Def(0, f)
      BY <2>1
    <2> HIDE DEF Def
    <2> QED BY <2>2
  <1>2. ASSUME NEW m \in 0..n - 1, m \in D
        PROVE  m + 1 \in D
    <2>1. PICK h \in [0..m -> S] : Def(m, h)
      BY <1>2
    <2> DEFINE v == next[m + 1][h[m]]
               g == [i \in 0..m + 1 |-> IF i = m + 1 THEN v ELSE h[i]]
    <2>2. v \in S
      <3>1. m + 1 \in 1..n /\ h[m] \in S
        OBVIOUS
      <3> QED BY <3>1
    <2>3. g \in [0..m + 1 -> S]
      BY <2>2
    <2>4. g[0] = first
      BY <2>1
    <2>5. ASSUME NEW i \in 1..m + 1
          PROVE  g[i] = next[i][g[i - 1]]
      <3>1. CASE i = m + 1
        <4>1. g[i] = v /\ g[i - 1] = h[m]
          BY <3>1
        <4> QED BY <4>1, <3>1
      <3>2. CASE i \in 1..m
        <4>1. g[i] = h[i] /\ g[i - 1] = h[i - 1]
          BY <3>2
        <4> QED BY <4>1, <3>2, <2>1
      <3> QED BY <3>1, <3>2
    <2>6. Def(m + 1, g)
      BY <2>4, <2>5
    <2> HIDE DEF g, Def
    <2>7. \E f \in [0..m + 1 -> S] : Def(m + 1, f)
      BY <2>3, <2>6
    <2> QED BY <2>7
  <1>3. 0..n \subseteq D
    <2> HIDE DEF D
    <2> QED BY <1>1, <1>2, UpTo
  <1>4. n \in D
    BY <1>3
  <1> QED BY <1>4
-----------------------------------------------------------------------------
(* What is in a sequence, and each of it once.                             *)
Elems(s) == {s[i] : i \in 1..Len(s)}
Once(s)  == \A i, j \in 1..Len(s) : s[i] = s[j] => i = j

LEMMA AppendElems ==
  ASSUME NEW S, NEW s \in Seq(S), NEW e \in S
  PROVE  /\ Append(s, e) \in Seq(S) /\ Elems(Append(s, e)) = Elems(s) \cup {e}
         /\ Once(s) /\ e \notin Elems(s) => Once(Append(s, e))
  <1> DEFINE t == Append(s, e)
  <1>1. /\ t \in Seq(S) /\ Len(s) \in Nat /\ Len(t) = Len(s) + 1 /\ t[Len(s) + 1] = e
        /\ \A i \in 1..Len(s) : t[i] = s[i]
    BY AppendProperties
  <1> HIDE DEF t
  <1>2. \A i \in 1..Len(t) : i \in 1..Len(s) \/ i = Len(s) + 1
    BY <1>1
  <1>3. \A i \in 1..Len(s) : i \in 1..Len(t)
    BY <1>1
  <1>4. Elems(t) \subseteq Elems(s) \cup {e}
    BY <1>1, <1>2 DEF Elems
  <1>5. Elems(s) \subseteq Elems(t) /\ e \in Elems(t)
    BY <1>1, <1>3 DEF Elems
  <1>6. ASSUME Once(s), e \notin Elems(s)
        PROVE  Once(t)
    <2> SUFFICES ASSUME NEW i \in 1..Len(t), NEW j \in 1..Len(t), t[i] = t[j] PROVE i = j
      BY DEF Once
    <2>1. \A k \in 1..Len(s) : s[k] # e
      BY <1>6 DEF Elems
    <2> QED BY <1>1, <1>2, <1>6, <2>1 DEF Once
  <1> QED BY <1>1, <1>4, <1>5, <1>6 DEF t

(* To take away what is at place k shifts the places after it by one.      *)
LEMMA RemoveAtLemma ==
  ASSUME NEW S, NEW s \in Seq(S), NEW k \in 1..Len(s)
  PROVE  /\ RemoveAt(s, k) \in Seq(S)
         /\ Len(RemoveAt(s, k)) = Len(s) - 1
         /\ \A j \in 1..(Len(s) - 1) :
               RemoveAt(s, k)[j] = IF j < k THEN s[j] ELSE s[j + 1]
  <1> DEFINE front == SubSeq(s, 1, k - 1)
             back  == SubSeq(s, k + 1, Len(s))
  <1>1. /\ front \in Seq(S) /\ Len(front) = k - 1
        /\ \A j \in 1..(k - 1) : front[j] = s[j]
    <2>1. \A j \in 1..(k - 1) : s[j] \in S
      BY ElementOfSeq
    <2>2. /\ front \in Seq(S)
          /\ Len(front) = IF 1 <= k - 1 THEN (k - 1) - 1 + 1 ELSE 0
          /\ \A j \in 1..((k - 1) - 1 + 1) : front[j] = s[1 + j - 1]
      BY <2>1, SubSeqProperties
    <2> QED BY <2>2
  <1>2. /\ back \in Seq(S) /\ Len(back) = Len(s) - k
        /\ \A j \in 1..(Len(s) - k) : back[j] = s[k + j]
    <2>1. \A j \in (k + 1)..Len(s) : s[j] \in S
      BY ElementOfSeq
    <2>2. /\ back \in Seq(S)
          /\ Len(back) = IF k + 1 <= Len(s) THEN Len(s) - (k + 1) + 1 ELSE 0
          /\ \A j \in 1..(Len(s) - (k + 1) + 1) : back[j] = s[(k + 1) + j - 1]
      BY <2>1, SubSeqProperties
    <2> QED BY <2>2
  <1>3. RemoveAt(s, k) = front \o back
    BY DEF RemoveAt
  <1> HIDE DEF front, back
  <1>4. /\ front \o back \in Seq(S)
        /\ Len(front \o back) = Len(front) + Len(back)
        /\ \A j \in 1..(Len(front) + Len(back)) :
             (front \o back)[j] = IF j <= Len(front) THEN front[j]
                                  ELSE back[j - Len(front)]
    BY <1>1, <1>2, ConcatProperties
  <1>5. Len(s) \in Nat
    BY LenProperties
  <1>6. Len(front) + Len(back) = Len(s) - 1
    BY <1>1, <1>2, <1>5
  <1>7. ASSUME NEW j \in 1..(Len(s) - 1)
        PROVE  (front \o back)[j] = IF j < k THEN s[j] ELSE s[j + 1]
    <2>1. CASE j < k
      BY <2>1, <1>1, <1>4, <1>5, <1>6
    <2>2. CASE j >= k
      <3>1. (front \o back)[j] = back[j - (k - 1)]
        BY <2>2, <1>1, <1>4, <1>5, <1>6
      <3>2. j - (k - 1) \in 1..(Len(s) - k) /\ k + (j - (k - 1)) = j + 1
        BY <2>2, <1>5
      <3> QED BY <2>2, <3>1, <3>2, <1>2, <1>5
    <2>3. j < k \/ j >= k
      BY <1>5
    <2> QED BY <2>1, <2>2, <2>3, Zenon
  <1> QED BY <1>3, <1>4, <1>6, <1>7

LEMMA OnceCounts ==
  ASSUME NEW S, NEW s \in Seq(S), Once(s)
  PROVE  Cardinality(Elems(s)) = Len(s) /\ IsFiniteSet(Elems(s))
  <1>1. Len(s) \in Nat /\ s \in [1..Len(s) -> S]
    BY LenProperties
  <1>2. s \in Bijection(1..Len(s), Elems(s))
    <2>1. s \in [1..Len(s) -> Elems(s)]
      BY <1>1 DEF Elems
    <2>2. \A i, j \in 1..Len(s) : s[i] = s[j] => i = j
      BY DEF Once
    <2>3. \A e \in Elems(s) : \E i \in 1..Len(s) : s[i] = e
      BY DEF Elems
    <2> QED BY <2>1, <2>2, <2>3 DEF Bijection, Injection, Surjection, IsInjective
  <1>3. IsFiniteSet(1..Len(s)) /\ Cardinality(1..Len(s)) = Len(s)
    BY <1>1, FS_Interval
  <1> QED BY <1>2, <1>3, FS_Bijection DEF ExistsBijection
-----------------------------------------------------------------------------
(* The walk over a list, place by place, that keeps some of it.            *)
LEMMA KeepUpToIs ==
  ASSUME NEW S, NEW s \in Seq(S), NEW P
  PROVE  /\ KeepUpTo(s, P) \in [0..Len(s) -> Seq(S)] /\ KeepUpTo(s, P)[0] = <<>>
         /\ \A i \in 1..Len(s) : KeepUpTo(s, P)[i] =
              IF i \in P THEN Append(KeepUpTo(s, P)[i - 1], s[i]) ELSE KeepUpTo(s, P)[i - 1]
  <1> DEFINE n == Len(s)
             Def(f) == f = [i \in 0..n |->
                              IF i = 0 THEN <<>>
                              ELSE IF i \in P THEN Append(f[i - 1], s[i]) ELSE f[i - 1]]
             next == [i \in 1..n |-> [r \in Seq(S) |->
                        IF i \in P THEN Append(r, s[i]) ELSE r]]
  <1>1. n \in Nat /\ <<>> \in Seq(S) /\ \A i \in 1..n : s[i] \in S
    OBVIOUS
  <1>2. next \in [1..n -> [Seq(S) -> Seq(S)]]
    <2> SUFFICES ASSUME NEW i \in 1..n, NEW r \in Seq(S)
                 PROVE  (IF i \in P THEN Append(r, s[i]) ELSE r) \in Seq(S)
      OBVIOUS
    <2> QED BY <1>1, AppendProperties
  <1>3. PICK h \in [0..n -> Seq(S)] :
          h[0] = <<>> /\ \A i \in 1..n : h[i] = next[i][h[i - 1]]
    <2> DEFINE empty == <<>>
               T == Seq(S)
    <2>1. empty \in T /\ n \in Nat /\ next \in Steps(n, T)
      BY <1>1, <1>2 DEF Steps
    <2> HIDE DEF next, n, empty, T
    <2>2. \E f : Follows(f, n, T, empty, next)
      BY <2>1, Recursion
    <2> QED BY <2>2 DEF empty, T, Follows
  <1>4. \A i \in 1..n : h[i] = IF i \in P THEN Append(h[i - 1], s[i]) ELSE h[i - 1]
    <2> SUFFICES ASSUME NEW i \in 1..n
                 PROVE  next[i][h[i - 1]]
                          = IF i \in P THEN Append(h[i - 1], s[i]) ELSE h[i - 1]
      BY <1>3
    <2>1. i - 1 \in 0..n
      BY <1>1
    <2>2. h[i - 1] \in Seq(S)
      BY <1>3, <2>1
    <2> QED BY <2>2
  <1>5. Def(h)
    <2>1. \A i \in 0..n : i = 0 \/ i \in 1..n
      BY <1>1
    <2>2. \A i \in 0..n : h[i] = IF i = 0 THEN <<>>
                                ELSE IF i \in P THEN Append(h[i - 1], s[i]) ELSE h[i - 1]
      <3> HIDE DEF n, next
      <3> QED BY <2>1, <1>3, <1>4
    <2>3. h = [i \in 0..n |-> h[i]]
      BY <1>3
    <2> HIDE DEF n, next
    <2> QED BY <2>2, <2>3
  <1> DEFINE w == KeepUpTo(s, P)
  <1>6. Def(w)
    <2>1. w = CHOOSE g : Def(g)
      BY DEF KeepUpTo
    <2> HIDE DEF Def, w
    <2> QED BY <1>5, <2>1
  <1>7. /\ DOMAIN w = 0..n /\ w[0] = <<>>
        /\ \A i \in 1..n : w[i] = IF i \in P THEN Append(w[i - 1], s[i]) ELSE w[i - 1]
    <2>1. (\A i \in 1..n : i \in 0..n /\ i # 0) /\ 0 \in 0..n
      BY <1>1
    <2>2. w = [i \in 0..n |->
                 IF i = 0 THEN <<>> ELSE IF i \in P THEN Append(w[i - 1], s[i]) ELSE w[i - 1]]
      BY <1>6
    <2> HIDE DEF w, n
    <2>3. \A i \in 0..n : w[i] = IF i = 0 THEN <<>>
                                ELSE IF i \in P THEN Append(w[i - 1], s[i]) ELSE w[i - 1]
      BY <2>2
    <2>4. DOMAIN w = 0..n
      BY <2>2
    <2> QED BY <2>1, <2>3, <2>4
  <1>8. \A i \in 0..n : w[i] \in Seq(S)
    <2> DEFINE Q == {i \in 0..n : w[i] \in Seq(S)}
    <2> HIDE DEF w
    <2>1. 0 \in Q
      <3>1. 0 \in 0..n /\ w[0] \in Seq(S)
        BY <1>1, <1>7
      <3> QED BY <3>1
    <2>2. ASSUME NEW i \in 0..n - 1, i \in Q
          PROVE  i + 1 \in Q
      <3>1. i + 1 \in 1..n /\ i + 1 \in 0..n /\ s[i + 1] \in S /\ w[i] \in Seq(S)
        BY <1>1, <2>2
      <3>2. w[i + 1] = IF i + 1 \in P THEN Append(w[i], s[i + 1]) ELSE w[i]
        BY <1>7, <3>1
      <3>3. w[i + 1] \in Seq(S)
        BY <3>1, <3>2, AppendProperties
      <3> QED BY <3>1, <3>3
    <2>3. 0..n \subseteq Q
      <3> HIDE DEF Q
      <3> QED BY <1>1, <2>1, <2>2, UpTo
    <2> QED BY <2>3
  <1> QED BY <1>6, <1>7, <1>8

(* It keeps what stands at the places, and once what stands there once.    *)
LEMMA KeepIs ==
  ASSUME NEW S, NEW s \in Seq(S), NEW P, P \subseteq 1..Len(s)
  PROVE  /\ Keep(s, P) \in Seq(S) /\ Elems(Keep(s, P)) = {s[i] : i \in P}
         /\ (\A i, j \in P : s[i] = s[j] => i = j) => Once(Keep(s, P))
  <1> DEFINE n == Len(s)
             w == KeepUpTo(s, P)
             At(m) == P \cap (1..m)
             Single == \A i, j \in P : s[i] = s[j] => i = j
             Q == {m \in 0..n : /\ Elems(w[m]) = {s[i] : i \in At(m)}
                                /\ Single => Once(w[m])}
  <1>1. n \in Nat /\ \A i \in 1..n : s[i] \in S
    OBVIOUS
  <1>2. /\ w \in [0..n -> Seq(S)] /\ w[0] = <<>>
        /\ \A i \in 1..n : w[i] = IF i \in P THEN Append(w[i - 1], s[i]) ELSE w[i - 1]
    BY KeepUpToIs
  <1> HIDE DEF w
  <1>3. 0 \in Q
    <2>1. Elems(w[0]) = {} /\ Once(w[0]) /\ At(0) = {}
      BY <1>2 DEF Elems, Once
    <2> QED BY <1>1, <2>1
  <1>4. ASSUME NEW m \in 0..n - 1, m \in Q
        PROVE  m + 1 \in Q
    <2>1. /\ m + 1 \in 1..n /\ m + 1 \in 0..n /\ m \in 0..n /\ w[m] \in Seq(S)
          /\ s[m + 1] \in S
      <3>1. m + 1 \in 1..n /\ m + 1 \in 0..n /\ m \in 0..n
        BY <1>1
      <3> HIDE DEF n
      <3> QED BY <1>1, <1>2, <3>1
    <2>2. w[m + 1] = IF m + 1 \in P THEN Append(w[m], s[m + 1]) ELSE w[m]
      <3>1. (m + 1) - 1 = m
        BY <2>1
      <3> QED BY <1>2, <2>1, <3>1
    <2>3. Elems(w[m]) = {s[i] : i \in At(m)} /\ (Single => Once(w[m]))
      BY <1>4
    <2>4. At(m + 1) = IF m + 1 \in P THEN At(m) \cup {m + 1} ELSE At(m)
      <3>1. \A i : i \in 1..m + 1 <=> i \in 1..m \/ i = m + 1
        BY <2>1
      <3> QED BY <3>1
    <2>5. m + 1 \notin At(m)
      BY <2>1
    <2>6. CASE m + 1 \notin P
      BY <2>1, <2>2, <2>3, <2>4, <2>6
    <2>7. CASE m + 1 \in P
      <3> DEFINE e == s[m + 1]
      <3>1. Single => e \notin Elems(w[m])
        <4> SUFFICES ASSUME Single, e \in Elems(w[m]) PROVE FALSE
          OBVIOUS
        <4>1. PICK i \in At(m) : s[i] = e
          BY <2>3
        <4> QED BY <4>1, <2>5, <2>7
      <3>2. e \in S /\ w[m + 1] = Append(w[m], e)
        BY <2>1, <2>2, <2>7
      <3>3. {s[i] : i \in At(m + 1)} = {s[i] : i \in At(m)} \cup {e}
        BY <2>4, <2>7
      <3> HIDE DEF e, At, Single
      <3>4. /\ Elems(Append(w[m], e)) = Elems(w[m]) \cup {e}
            /\ Once(w[m]) /\ e \notin Elems(w[m]) => Once(Append(w[m], e))
        BY <2>1, <3>2, AppendElems
      <3> QED BY <2>1, <2>3, <3>1, <3>2, <3>3, <3>4
    <2> QED BY <2>6, <2>7
  <1>5. n \in Q
    <2>1. 0..n \subseteq Q
      <3> HIDE DEF Q, n
      <3> QED BY <1>1, <1>3, <1>4, UpTo
    <2>2. n \in 0..n
      BY <1>1
    <2> HIDE DEF Q, n
    <2> QED BY <2>1, <2>2
  <1>6. Keep(s, P) = w[n] /\ At(n) = P
    BY DEF Keep, w
  <1> QED BY <1>1, <1>2, <1>5, <1>6

LEMMA KeepOnce ==
  ASSUME NEW S, NEW s \in Seq(S), NEW P, P \subseteq 1..Len(s),
         \A i, j \in P : s[i] = s[j] => i = j
  PROVE  Once(Keep(s, P))
  BY KeepIs
-----------------------------------------------------------------------------
(* The places themselves, kept, go up.                                     *)
LEMMA KeptGoUp ==
  ASSUME NEW n \in Nat, NEW P, P \subseteq 1..n, NEW s \in Seq(1..n),
         Len(s) = n, \A i \in 1..n : s[i] = i
  PROVE  /\ Keep(s, P) \in Seq(1..n)
         /\ \A i \in 1..Len(Keep(s, P)) : Keep(s, P)[i] \in P
         /\ \A i, j \in 1..Len(Keep(s, P)) : i < j => Keep(s, P)[i] < Keep(s, P)[j]
  <1> DEFINE w == KeepUpTo(s, P)
             Up(t) == \A i, j \in 1..Len(t) : i < j => t[i] < t[j]
             In(t, m) == \A i \in 1..Len(t) : t[i] \in P /\ t[i] <= m
             Q == {m \in 0..n : In(w[m], m) /\ Up(w[m])}
  <1>1. Len(s) = n /\ \A i \in 1..n : s[i] = i
    OBVIOUS
  <1>2. /\ w \in [0..n -> Seq(1..n)] /\ w[0] = <<>>
        /\ \A i \in 1..n : w[i] = IF i \in P THEN Append(w[i - 1], s[i]) ELSE w[i - 1]
    <2>1. /\ w \in [0..Len(s) -> Seq(1..n)] /\ w[0] = <<>>
          /\ \A i \in 1..Len(s) : w[i] = IF i \in P THEN Append(w[i - 1], s[i]) ELSE w[i - 1]
      <3> DEFINE T == 1..n
      <3>1. s \in Seq(T)
        OBVIOUS
      <3> HIDE DEF T
      <3>2. /\ w \in [0..Len(s) -> Seq(T)] /\ w[0] = <<>>
            /\ \A i \in 1..Len(s) : w[i] = IF i \in P THEN Append(w[i - 1], s[i]) ELSE w[i - 1]
        BY <3>1, KeepUpToIs
      <3> QED BY <3>2 DEF T
    <2> HIDE DEF w
    <2> QED BY <1>1, <2>1
  <1> HIDE DEF w
  <1>3. 0 \in Q
    BY <1>2
  <1>4. ASSUME NEW m \in 0..n - 1, m \in Q
        PROVE  m + 1 \in Q
    <2>1. m + 1 \in 1..n /\ m + 1 \in 0..n /\ m \in 0..n /\ m + 1 - 1 = m
      OBVIOUS
    <2>2. w[m] \in Seq(1..n) /\ In(w[m], m) /\ Up(w[m])
      BY <1>2, <1>4, <2>1
    <2>3. CASE m + 1 \notin P
      <3>1. w[m + 1] = w[m]
        BY <1>2, <2>1, <2>3
      <3>2. In(w[m], m + 1)
        <4> SUFFICES ASSUME NEW i \in 1..Len(w[m]) PROVE w[m][i] \in P /\ w[m][i] <= m + 1
          OBVIOUS
        <4>1. w[m][i] \in 1..n /\ w[m][i] <= m /\ w[m][i] \in P
          BY <2>2, ElementOfSeq
        <4> QED BY <4>1
      <3> QED BY <2>1, <2>2, <3>1, <3>2
    <2>4. CASE m + 1 \in P
      <3> DEFINE t == Append(w[m], m + 1)
      <3>1. w[m + 1] = t
        <4>1. w[m + 1] = Append(w[m + 1 - 1], s[m + 1])
          <5>1. \A k, j : k \in 1..n /\ j = k - 1 /\ k \in P => w[k] = Append(w[j], s[k])
            BY <1>2
          <5> QED BY <2>1, <2>4, <5>1
        <4>2. s[m + 1] = m + 1
          BY <1>1, <2>1
        <4> QED BY <2>1, <4>1, <4>2
      <3>2. /\ Len(w[m]) \in Nat /\ Len(t) = Len(w[m]) + 1 /\ t[Len(w[m]) + 1] = m + 1
            /\ \A i \in 1..Len(w[m]) : t[i] = w[m][i]
        BY <2>1, <2>2, AppendProperties
      <3>3. \A i \in 1..Len(w[m]) : w[m][i] \in 1..n /\ w[m][i] <= m /\ w[m][i] \in P
        BY <2>2, ElementOfSeq
      <3> HIDE DEF t
      <3>4. In(t, m + 1)
        <4> SUFFICES ASSUME NEW i \in 1..Len(t) PROVE t[i] \in P /\ t[i] <= m + 1
          OBVIOUS
        <4>1. i \in 1..Len(w[m]) \/ i = Len(w[m]) + 1
          BY <3>2
        <4>2. CASE i = Len(w[m]) + 1
          BY <2>4, <3>2, <4>2
        <4>3. CASE i \in 1..Len(w[m])
          BY <2>1, <3>2, <3>3, <4>3
        <4> QED BY <4>1, <4>2, <4>3
      <3>5. Up(t)
        <4> SUFFICES ASSUME NEW i \in 1..Len(t), NEW j \in 1..Len(t), i < j
                     PROVE  t[i] < t[j]
          OBVIOUS
        <4>1. i \in 1..Len(w[m]) /\ (j \in 1..Len(w[m]) \/ j = Len(w[m]) + 1)
          BY <3>2
        <4>2. CASE j = Len(w[m]) + 1
          <5>1. t[i] = w[m][i] /\ t[j] = m + 1
            BY <3>2, <4>1, <4>2
          <5>2. w[m][i] \in 1..n /\ w[m][i] <= m
            BY <3>3, <4>1
          <5> QED BY <2>1, <5>1, <5>2
        <4>3. CASE j \in 1..Len(w[m])
          BY <2>2, <3>2, <4>1, <4>3
        <4> QED BY <4>1, <4>2, <4>3
      <3> QED BY <2>1, <3>1, <3>4, <3>5
    <2> QED BY <2>3, <2>4
  <1>5. n \in Q
    <2>1. 0..n \subseteq Q
      <3> HIDE DEF Q
      <3> QED BY <1>3, <1>4, UpTo
    <2> HIDE DEF Q
    <2> QED BY <2>1
  <1>6. Keep(s, P) = w[n]
    BY <1>1 DEF Keep, w
  <1>7. w[n] \in Seq(1..n) /\ In(w[n], n) /\ Up(w[n])
    BY <1>2, <1>5
  <1> HIDE DEF w
  <1> QED BY <1>6, <1>7

(* Lists one after the other.                                              *)
LEMMA FlattenUpToIs ==
  ASSUME NEW S, NEW s \in Seq(Seq(S))
  PROVE  /\ FlattenUpTo(s) \in [0..Len(s) -> Seq(S)] /\ FlattenUpTo(s)[0] = <<>>
         /\ \A i \in 1..Len(s) : FlattenUpTo(s)[i] = FlattenUpTo(s)[i - 1] \o s[i]
  <1> DEFINE n == Len(s)
             T == Seq(S)
             empty == <<>>
             Def(f) == f = [i \in 0..n |-> IF i = 0 THEN <<>> ELSE f[i - 1] \o s[i]]
             next == [i \in 1..n |-> [r \in T |-> r \o s[i]]]
  <1>1. n \in Nat /\ empty \in T /\ \A i \in 1..n : s[i] \in T
    OBVIOUS
  <1>2. next \in Steps(n, T)
    <2> SUFFICES ASSUME NEW i \in 1..n, NEW r \in T PROVE r \o s[i] \in T
      BY DEF Steps
    <2> QED BY <1>1, ConcatProperties
  <1>3. PICK h : Follows(h, n, T, empty, next)
    <2> HIDE DEF next, n, empty, T
    <2> QED BY <1>1, <1>2, Recursion
  <1>4. /\ h \in [0..n -> T] /\ h[0] = <<>>
        /\ \A i \in 1..n : h[i] = h[i - 1] \o s[i]
    <2>1. h \in [0..n -> T] /\ h[0] = <<>> /\ \A i \in 1..n : h[i] = next[i][h[i - 1]]
      BY <1>3 DEF Follows
    <2>2. ASSUME NEW i \in 1..n PROVE next[i][h[i - 1]] = h[i - 1] \o s[i]
      <3>1. i - 1 \in 0..n
        BY <1>1
      <3>2. h[i - 1] \in T
        <4> HIDE DEF T, next, n
        <4> QED BY <2>1, <3>1
      <3> HIDE DEF T, n
      <3> QED BY <3>2
    <2> HIDE DEF T, next, n
    <2> QED BY <2>1, <2>2
  <1> HIDE DEF next, T
  <1>5. Def(h)
    <2>1. \A i \in 0..n : i = 0 \/ i \in 1..n
      BY <1>1
    <2>2. \A i \in 0..n : h[i] = IF i = 0 THEN <<>> ELSE h[i - 1] \o s[i]
      <3> HIDE DEF n
      <3> QED BY <2>1, <1>4
    <2>3. h = [i \in 0..n |-> h[i]]
      BY <1>4
    <2> HIDE DEF n
    <2> QED BY <2>2, <2>3
  <1> DEFINE w == FlattenUpTo(s)
  <1>6. Def(w)
    <2>1. w = CHOOSE g : Def(g)
      BY DEF FlattenUpTo
    <2> HIDE DEF Def, w
    <2> QED BY <1>5, <2>1
  <1>7. /\ DOMAIN w = 0..n /\ w[0] = <<>>
        /\ \A i \in 1..n : w[i] = w[i - 1] \o s[i]
    <2>1. (\A i \in 1..n : i \in 0..n /\ i # 0) /\ 0 \in 0..n
      BY <1>1
    <2>2. w = [i \in 0..n |-> IF i = 0 THEN <<>> ELSE w[i - 1] \o s[i]]
      BY <1>6
    <2> HIDE DEF w, n
    <2>3. \A i \in 0..n : w[i] = IF i = 0 THEN <<>> ELSE w[i - 1] \o s[i]
      BY <2>2
    <2>4. DOMAIN w = 0..n
      BY <2>2
    <2> QED BY <2>1, <2>3, <2>4
  <1>8. \A i \in 0..n : w[i] \in T
    <2> DEFINE Q == {i \in 0..n : w[i] \in T}
    <2> HIDE DEF w
    <2>1. 0 \in Q
      <3>1. 0 \in 0..n /\ w[0] \in T
        BY <1>1, <1>7
      <3> QED BY <3>1
    <2>2. ASSUME NEW i \in 0..n - 1, i \in Q
          PROVE  i + 1 \in Q
      <3>1. i + 1 \in 1..n /\ i + 1 \in 0..n /\ s[i + 1] \in T /\ w[i] \in T
        BY <1>1, <2>2
      <3>2. w[i + 1] = w[i] \o s[i + 1]
        <4> DEFINE Joined(r, k) == r \o s[k]
        <4>1. \A k \in 1..n : w[k] = Joined(w[k - 1], k)
          BY <1>7
        <4> HIDE DEF n, Joined
        <4>2. w[i + 1] = Joined(w[i], i + 1)
          <5>1. n \in Nat
            BY <1>1
          <5> QED BY <3>1, <4>1, <5>1
        <4> QED BY <4>2 DEF Joined
      <3>3. w[i + 1] \in T
        BY <3>1, <3>2, ConcatProperties DEF T
      <3> QED BY <3>1, <3>3
    <2>3. 0..n \subseteq Q
      <3> HIDE DEF Q
      <3> QED BY <1>1, <2>1, <2>2, UpTo
    <2> QED BY <2>3
  <1>9. w = [i \in 0..n |-> w[i]]
    <2>1. w = [i \in 0..n |-> IF i = 0 THEN <<>> ELSE w[i - 1] \o s[i]]
      BY <1>6
    <2> HIDE DEF w, n
    <2> QED BY <2>1
  <1> HIDE DEF w
  <1>10. w \in [0..n -> T]
    BY <1>8, <1>9
  <1> QED BY <1>7, <1>10 DEF w, T

LEMMA FlattenTyped ==
  ASSUME NEW S, NEW s \in Seq(Seq(S))
  PROVE  Flatten(s) \in Seq(S)
  <1>1. Len(s) \in Nat /\ Len(s) \in 0..Len(s)
    BY LenProperties
  <1>2. FlattenUpTo(s) \in [0..Len(s) -> Seq(S)]
    BY FlattenUpToIs
  <1> QED BY <1>1, <1>2 DEF Flatten

(* If they all have k elements, place j of list i is k * (i - 1) + j; here *)
(* with k = 5, the strings of a record.                                    *)
Fives(s, t, m) ==
  /\ Len(t) = 5 * m
  /\ \A i \in 1..m : \A j \in 1..5 : t[5 * i - 5 + j] = s[i][j]

LEMMA FlattenFives ==
  ASSUME NEW S, NEW s \in Seq(Seq(S)), \A i \in 1..Len(s) : Len(s[i]) = 5
  PROVE  Fives(s, Flatten(s), Len(s))
  <1> DEFINE n == Len(s)
             w == FlattenUpTo(s)
             Q == {m \in 0..n : Fives(s, w[m], m)}
  <1>1. n \in Nat /\ \A i \in 1..n : s[i] \in Seq(S)
    OBVIOUS
  <1>2. /\ w \in [0..n -> Seq(S)] /\ w[0] = <<>>
        /\ \A i \in 1..n : w[i] = w[i - 1] \o s[i]
    BY FlattenUpToIs
  <1> HIDE DEF w
  <1>3. 0 \in Q
    BY <1>1, <1>2 DEF Fives
  <1>4. ASSUME NEW m \in 0..n - 1, m \in Q
        PROVE  m + 1 \in Q
    <2>1. m + 1 \in 1..n /\ m + 1 \in 0..n /\ m \in 0..n /\ m + 1 - 1 = m
      BY <1>1
    <2>2. w[m] \in Seq(S) /\ s[m + 1] \in Seq(S) /\ Fives(s, w[m], m) /\ Len(s[m + 1]) = 5
      BY <1>1, <1>2, <1>4, <2>1
    <2>3. w[m + 1] = w[m] \o s[m + 1]
      <3> DEFINE Joined(r, k) == r \o s[k]
      <3>1. \A k \in 1..n : w[k] = Joined(w[k - 1], k)
        BY <1>2
      <3> HIDE DEF n, Joined
      <3>2. w[m + 1] = Joined(w[m], m + 1)
        BY <2>1, <3>1
      <3> QED BY <3>2 DEF Joined
    <2> DEFINE a == w[m]
               b == s[m + 1]
               c == a \o b
    <2>4. /\ Len(a) = 5 * m /\ Len(b) = 5 /\ Len(c) = Len(a) + Len(b)
          /\ \A k \in 1..Len(c) : c[k] = IF k <= Len(a) THEN a[k] ELSE b[k - Len(a)]
      <3>1. a \in Seq(S) /\ b \in Seq(S) /\ Len(a) = 5 * m /\ Len(b) = 5
        BY <2>2 DEF Fives
      <3> HIDE DEF a, b
      <3>2. /\ Len(a \o b) = Len(a) + Len(b)
            /\ \A k \in 1..(Len(a) + Len(b)) :
                  (a \o b)[k] = IF k <= Len(a) THEN a[k] ELSE b[k - Len(a)]
        BY <3>1, ConcatProperties
      <3> QED BY <3>1, <3>2
    <2> HIDE DEF a, b, c
    <2>5. ASSUME NEW i \in 1..(m + 1), NEW j \in 1..5
          PROVE  c[5 * i - 5 + j] = s[i][j]
      <3>1. 5 * i - 5 + j \in 1..Len(c)
        BY <2>1, <2>4
      <3>2. CASE i = m + 1
        <4>1. 5 * i - 5 + j = Len(a) + j
          BY <2>1, <2>4, <3>2
        <4>2. c[Len(a) + j] = b[j]
          BY <2>1, <2>4, <3>1, <4>1
        <4> QED BY <3>2, <4>1, <4>2 DEF b
      <3>3. CASE i # m + 1
        <4>1. i \in 1..m /\ 5 * i - 5 + j <= Len(a)
          BY <2>1, <2>4, <3>3
        <4>2. c[5 * i - 5 + j] = a[5 * i - 5 + j]
          BY <2>4, <3>1, <4>1
        <4> QED BY <2>2, <4>1, <4>2 DEF Fives, a
      <3> QED BY <3>2, <3>3
    <2>6. Len(c) = 5 * (m + 1)
      BY <2>1, <2>4
    <2>7. Fives(s, w[m + 1], m + 1)
      BY <2>3, <2>5, <2>6 DEF Fives, a, b, c
    <2> QED BY <2>1, <2>7
  <1>5. n \in Q
    <2>1. 0..n \subseteq Q
      <3> HIDE DEF Q, n
      <3> QED BY <1>1, <1>3, <1>4, UpTo
    <2> HIDE DEF Q
    <2> QED BY <1>1, <2>1
  <1> QED BY <1>5 DEF Flatten, w
=============================================================================
