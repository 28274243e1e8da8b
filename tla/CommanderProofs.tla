--------------------------- MODULE CommanderProofs ---------------------------
(* Proofs about Commander, for any network and any local directories: what *)
(* the keys do to the cursor of a panel, what the sort does to its list,   *)
(* and what both panels and the reading of lists keep.                     *)
EXTENDS Commander, DataInduction

(* A panel with the same list and another cursor.                          *)
Moved(p, f, i) == [p EXCEPT !.first = f, !.pos = i]

LEMMA PanelType ==
  ASSUME NEW Records, NEW p \in Panels(Records)
  PROVE  /\ p.first \in Nat /\ p.pos \in Nat /\ Count(p) \in Nat
         /\ Rows \in Nat /\ Rows > 0
  BY RowsAssumption DEF Panels, Count

LEMMA MovedInside ==
  ASSUME NEW Records, NEW p \in Panels(Records), NEW f \in Nat, NEW i \in Nat,
         i < Rows, f + i < Count(p), f > 0 => f + Rows <= Count(p)
  PROVE  Moved(p, f, i) \in Panels(Records) /\ InWindow(Moved(p, f, i))
  <1>1. /\ Moved(p, f, i).list = p.list /\ Moved(p, f, i).first = f
        /\ Moved(p, f, i).pos = i /\ Moved(p, f, i) \in Panels(Records)
    BY DEF Panels, Moved
  <1> QED BY <1>1 DEF InWindow, InList, At, Count

(* The cursor stays on a record and in the window whatever key that moves  *)
(* it is pressed, in a list of any length and a window of any height (the  *)
(* keys of main).                                                          *)
THEOREM KeysStayInside ==
  ASSUME NEW Records, NEW p \in Panels(Records), InWindow(p)
  PROVE  \A q \in {Home(p), Up(p), Down(p), End(p), PageUp(p), PageDown(p)} :
           q \in Panels(Records) /\ InWindow(q)
  <1> DEFINE c == Count(p)
             f == p.first
             i == p.pos
             Good(q) == q \in Panels(Records) /\ InWindow(q)
  <1>1. /\ f \in Nat /\ i \in Nat /\ c \in Nat /\ Rows \in Nat /\ Rows > 0
        /\ f + i < c /\ i < Rows /\ (f > 0 => f + Rows <= c)
    BY PanelType DEF InWindow, InList, At
  <1>2. ASSUME NEW a \in Nat, NEW b \in Nat, b < Rows, a + b < c, a > 0 => a + Rows <= c
        PROVE  Good(Moved(p, a, b))
    BY <1>2, MovedInside
  <1>3. p = Moved(p, f, i)
    BY DEF Moved, Panels
  <1>4. \A a : /\ [p EXCEPT !.first = a] = Moved(p, a, i)
               /\ [p EXCEPT !.pos = a] = Moved(p, f, a)
    BY DEF Moved, Panels
  <1>5. \A a, b : [p EXCEPT !.first = a, !.pos = b] = Moved(p, a, b)
    BY DEF Moved
  <1>6. At(p) = f + i
    BY DEF At
  <1> HIDE DEF c, f, i, Good
  <1>7. Home(p) = Moved(p, 0, 0)
    BY <1>5 DEF Home
  <1>8. LastPage(p) = Moved(p, c - Rows, Rows - 1)
    BY <1>5 DEF LastPage, c
  <1>9. Good(Home(p))
    BY <1>1, <1>2, <1>7
  <1>10. c >= Rows => Good(LastPage(p))
    <2> SUFFICES ASSUME c >= Rows PROVE Good(Moved(p, c - Rows, Rows - 1))
      BY <1>8
    <2>1. c - Rows \in Nat /\ Rows - 1 \in Nat
      BY <1>1
    <2> QED BY <1>1, <1>2, <2>1
  <1>11. Good(p)
    BY <1>1, <1>2, <1>3
  <1>12. c < Rows => Good(Moved(p, f, c - 1))
    <2> SUFFICES ASSUME c < Rows PROVE Good(Moved(p, f, c - 1))
      OBVIOUS
    <2>1. f = 0 /\ c - 1 \in Nat
      BY <1>1
    <2> QED BY <1>1, <1>2, <2>1
  <1>13. Good(Up(p))
    <2>1. i > 0 => Good(Moved(p, f, i - 1))
      BY <1>1, <1>2
    <2>2. i = 0 /\ f > 0 => Good(Moved(p, f - 1, i))
      BY <1>1, <1>2
    <2>3. Up(p) = IF i > 0 THEN Moved(p, f, i - 1)
                  ELSE IF f + i > 0 THEN Moved(p, f - 1, i) ELSE p
      BY <1>4, <1>6 DEF Up, i, f
    <2> QED BY <1>1, <1>11, <2>1, <2>2, <2>3
  <1>14. Good(Down(p))
    <2>1. i + 1 < Rows /\ i + 1 < c => Good(Moved(p, f, i + 1))
      BY <1>1, <1>2
    <2>2. i + 1 >= Rows /\ f + i + 1 < c => Good(Moved(p, f + 1, i))
      BY <1>1, <1>2
    <2>3. Down(p) = IF i + 1 < Rows
                    THEN IF i + 1 < c THEN Moved(p, f, i + 1) ELSE p
                    ELSE IF f + i + 1 < c THEN Moved(p, f + 1, i) ELSE p
      BY <1>4, <1>6 DEF Down, i, f, c
    <2> QED BY <1>1, <1>11, <2>1, <2>2, <2>3
  <1>15. Good(End(p))
    <2>1. End(p) = IF c + 1 > Rows THEN LastPage(p) ELSE Moved(p, f, c - 1)
      BY <1>4 DEF End, c
    <2> QED BY <1>1, <1>10, <1>12, <2>1
  <1>16. Good(PageUp(p))
    <2>1. PageUp(p) = IF f - Rows >= 0 THEN Moved(p, f - Rows, i) ELSE Home(p)
      BY <1>4 DEF PageUp, f
    <2>2. f - Rows >= 0 => Good(Moved(p, f - Rows, i))
      BY <1>1, <1>2
    <2> QED BY <1>1, <1>9, <2>1, <2>2
  <1>17. Good(PageDown(p))
    <2>1. PageDown(p) = IF f + i + 1 >= c THEN p
                        ELSE IF c < Rows THEN Moved(p, f, c - 1)
                        ELSE IF f + Rows + Rows > c THEN LastPage(p)
                        ELSE Moved(p, f + Rows, i)
      BY <1>4, <1>6 DEF PageDown, f, c
    <2>2. f + Rows + Rows <= c => Good(Moved(p, f + Rows, i))
      BY <1>1, <1>2
    <2> QED BY <1>1, <1>10, <1>11, <1>12, <2>1, <2>2
  <1> QED BY <1>9, <1>13, <1>14, <1>15, <1>16, <1>17 DEF Good

(* A cursor that is put on a record is on it, and in the window but in two *)
(* cases: record number Rows is left in the row below the window, and a    *)
(* window of one row shows the record above (RsetSelect).                  *)
THEOREM PutOnTheRecord ==
  ASSUME NEW Records, NEW p \in Panels(Records), NEW i \in 0..Count(p) - 1
  PROVE  /\ PutOn(p, i) \in Panels(Records) /\ PutOn(p, i).list = p.list
         /\ At(PutOn(p, i)) = i
         /\ (i # Rows /\ Rows > 1) => InWindow(PutOn(p, i))
         /\ InWindow(PutOn(p, i)) \/ BelowWindow(PutOn(p, i))
  <1> DEFINE c == Count(p)
             Good(q) == /\ q \in Panels(Records) /\ q.list = p.list
                        /\ At(q) = i /\ (i # Rows /\ Rows > 1 => InWindow(q))
                        /\ InWindow(q) \/ BelowWindow(q)
  <1>1. c \in Nat /\ Rows \in Nat /\ Rows > 0 /\ i \in Nat /\ i < c
    BY PanelType
  <1>2. ASSUME NEW a \in Nat, NEW b \in Nat, a + b = i, a > 0 => a + Rows <= c,
               b < Rows \/ (b = Rows /\ (i = Rows \/ Rows = 1))
        PROVE  Good(Moved(p, a, b))
    <2> DEFINE q == Moved(p, a, b)
    <2>1. q.list = p.list /\ q.first = a /\ q.pos = b /\ q \in Panels(Records)
      BY DEF Panels, Moved
    <2> HIDE DEF q
    <2>2. At(q) = i /\ Count(q) = c /\ InList(q)
      BY <1>1, <1>2, <2>1 DEF At, Count, InList
    <2>3. InWindow(q) <=> b < Rows
      BY <1>2, <2>1, <2>2 DEF InWindow
    <2>4. BelowWindow(q) <=> b = Rows
      BY <2>1, <2>2 DEF BelowWindow
    <2> QED BY <1>1, <1>2, <2>1, <2>2, <2>3, <2>4 DEF q
  <1>3. \A a, b : [p EXCEPT !.first = a, !.pos = b] = Moved(p, a, b)
    BY DEF Moved
  <1>4. PutOn(p, i) = IF i <= Rows THEN Moved(p, 0, i)
                      ELSE IF c - i < Rows THEN Moved(p, c - Rows, i - (c - Rows))
                      ELSE Moved(p, i - 1, 1)
    BY <1>3 DEF PutOn
  <1> HIDE DEF c, Good
  <1>5. i <= Rows => Good(Moved(p, 0, i))
    BY <1>1, <1>2
  <1>6. i > Rows /\ c - i < Rows => Good(Moved(p, c - Rows, i - (c - Rows)))
    <2> SUFFICES ASSUME i > Rows, c - i < Rows
                 PROVE  Good(Moved(p, c - Rows, i - (c - Rows)))
      OBVIOUS
    <2>1. c - Rows \in Nat /\ i - (c - Rows) \in Nat /\ (c - Rows) + (i - (c - Rows)) = i
          /\ i - (c - Rows) < Rows /\ (c - Rows) + Rows <= c
      BY <1>1
    <2> QED BY <1>2, <2>1
  <1>7. i > Rows /\ ~(c - i < Rows) => Good(Moved(p, i - 1, 1))
    <2> SUFFICES ASSUME i > Rows, ~(c - i < Rows) PROVE Good(Moved(p, i - 1, 1))
      OBVIOUS
    <2>1. i - 1 \in Nat /\ 1 \in Nat /\ (i - 1) + 1 = i /\ (i - 1) + Rows <= c
          /\ (1 < Rows \/ (1 = Rows /\ (i = Rows \/ Rows = 1)))
      BY <1>1
    <2> QED BY <1>2, <2>1
  <1>8. Good(PutOn(p, i))
    BY <1>1, <1>4, <1>5, <1>6, <1>7
  <1> QED BY <1>8 DEF Good
-----------------------------------------------------------------------------
(* The sort only exchanges records: the list it makes is the old one with  *)
(* the places renumbered.                                                  *)

Renumberings(n) == {f \in [1..n -> 1..n] : \A i, j \in 1..n : f[i] = f[j] => i = j}
Rearranged(l, m) ==
  /\ DOMAIN m = DOMAIN l /\ Len(m) = Len(l)
  /\ \E f \in Renumberings(Len(l)) : \A i \in 1..Len(l) : m[i] = l[f[i]]

(* Of a list of records, all its arrangements.                             *)
Arrangements(S, l) == {m \in Seq(S) : Rearranged(l, m)}

LEMMA RotateIs ==
  ASSUME NEW S, NEW l \in Seq(S), NEW m \in Arrangements(S, l),
         NEW i \in 1..Len(l), NEW j \in 1..Len(l)
  PROVE  Rotate(m, i, j) \in Arrangements(S, l)
  <1> DEFINE n == Len(l)
             r == Rotate(m, i, j)
             g(f) == [k \in 1..n |-> IF k = j THEN f[i] ELSE IF k = i THEN f[j] ELSE f[k]]
  <1>1. n \in Nat /\ m \in Seq(S) /\ Len(m) = n /\ DOMAIN m = 1..n /\ DOMAIN l = 1..n
    BY DEF Arrangements, Rearranged
  <1>2. PICK f \in Renumberings(n) : \A k \in 1..n : m[k] = l[f[k]]
    BY DEF Arrangements, Rearranged
  <1>3. /\ r \in Seq(S) /\ Len(r) = n /\ DOMAIN r = 1..n
        /\ \A k \in 1..n : r[k] = IF k = j THEN m[i] ELSE IF k = i THEN m[j] ELSE m[k]
    <2> DEFINE a == [m EXCEPT ![i] = m[j]]
    <2>1. /\ a \in Seq(S) /\ Len(a) = n /\ DOMAIN a = 1..n
          /\ \A k \in 1..n : a[k] = IF k = i THEN m[j] ELSE m[k]
      BY <1>1
    <2>2. r = [a EXCEPT ![j] = m[i]]
      BY DEF Rotate
    <2>3. m[i] \in S
      BY <1>1
    <2> HIDE DEF a, r
    <2> QED BY <1>1, <2>1, <2>2, <2>3
  <1>4. f \in [1..n -> 1..n] /\ \A a, b \in 1..n : f[a] = f[b] => a = b
    BY <1>2 DEF Renumberings
  <1> HIDE DEF n, r
  <1>5. g(f) \in Renumberings(n)
    <2>1. g(f) \in [1..n -> 1..n]
      BY <1>4 DEF n
    <2>2. ASSUME NEW a \in 1..n, NEW b \in 1..n, g(f)[a] = g(f)[b]
          PROVE  a = b
      BY <1>4, <2>2 DEF n
    <2> QED BY <2>1, <2>2 DEF Renumberings
  <1>6. \A k \in 1..n : r[k] = l[g(f)[k]]
    BY <1>2, <1>3 DEF n
  <1> QED BY <1>1, <1>3, <1>5, <1>6 DEF Arrangements, Rearranged, n, r

(* What the walks are, place by place.                                     *)
Inners(w, A, m, i, from, n, swaps) ==
  /\ w \in [0..n -> A] /\ w[0] = m
  /\ \A k \in 1..n : w[k] = Compared(w[k - 1], i, from + k - 1, swaps)
Outers(w, A, m, from, n, swaps) ==
  /\ w \in [0..n -> A] /\ w[0] = m
  /\ \A k \in 1..n : w[k] = Inner(w[k - 1], from + k - 1, from, n, swaps)[n]

(* One walk of the inner cursor, place by place: if each comparison stays  *)
(* among the lists of A, all the walk does.                                *)
LEMMA InnerSteps ==
  ASSUME NEW A, NEW m \in A, NEW i, NEW from, NEW n \in Nat, NEW swaps,
         \A r \in A : \A k \in 1..n : Compared(r, i, from + k - 1, swaps) \in A
  PROVE  Inners(Inner(m, i, from, n, swaps), A, m, i, from, n, swaps)
  <1> DEFINE step(r, k) == Compared(r, i, from + k - 1, swaps)
             Def(f) == f = [k \in 0..n |-> IF k = 0 THEN m ELSE step(f[k - 1], k)]
             w == Inner(m, i, from, n, swaps)
             next == [k \in 1..n |-> [r \in A |-> step(r, k)]]
  <1>1. \A k \in 1..n : \A r \in A : step(r, k) \in A
    OBVIOUS
  <1>2. next \in [1..n -> [A -> A]]
    <2> HIDE DEF step
    <2> QED BY <1>1
  <1> HIDE DEF step
  <1>3. PICK h \in [0..n -> A] : h[0] = m /\ \A k \in 1..n : h[k] = next[k][h[k - 1]]
    <2>1. next \in Steps(n, A)
      BY <1>2 DEF Steps
    <2> HIDE DEF next
    <2>2. \E f : Follows(f, n, A, m, next)
      BY <2>1, Recursion
    <2> QED BY <2>2 DEF Follows
  <1>4. \A k \in 1..n : h[k] = step(h[k - 1], k)
    <2> SUFFICES ASSUME NEW k \in 1..n PROVE next[k][h[k - 1]] = step(h[k - 1], k)
      BY <1>3
    <2>1. k - 1 \in 0..n
      OBVIOUS
    <2>2. h[k - 1] \in A
      BY <1>3, <2>1
    <2> QED BY <2>2
  <1> HIDE DEF next
  <1>5. Def(h)
    <2>1. \A k \in 0..n : k = 0 \/ k \in 1..n
      OBVIOUS
    <2>2. \A k \in 0..n : h[k] = IF k = 0 THEN m ELSE step(h[k - 1], k)
      BY <2>1, <1>3, <1>4
    <2>3. h = [k \in 0..n |-> h[k]]
      BY <1>3
    <2> QED BY <2>2, <2>3
  <1>6. Def(w)
    <2>1. w = CHOOSE g : Def(g)
      BY DEF Inner, step
    <2> HIDE DEF Def, w
    <2> QED BY <1>5, <2>1
  <1> HIDE DEF w
  <1>7. /\ w = [k \in 0..n |-> w[k]] /\ w[0] = m
        /\ \A k \in 1..n : w[k] = step(w[k - 1], k)
    <2>1. (\A k \in 1..n : k \in 0..n /\ k # 0) /\ 0 \in 0..n
      OBVIOUS
    <2>2. w = [k \in 0..n |-> IF k = 0 THEN m ELSE step(w[k - 1], k)]
      BY <1>6
    <2>3. \A k \in 0..n : w[k] = IF k = 0 THEN m ELSE step(w[k - 1], k)
      BY <2>2
    <2>4. w = [k \in 0..n |-> w[k]]
      BY <2>2
    <2> QED BY <2>1, <2>3, <2>4
  <1>8. \A k \in 0..n : w[k] \in A
    <2> DEFINE Q == {k \in 0..n : w[k] \in A}
    <2>1. 0 \in Q
      BY <1>7
    <2>2. ASSUME NEW k \in 0..n - 1, k \in Q
          PROVE  k + 1 \in Q
      <3>1. k + 1 \in 1..n /\ k + 1 \in 0..n /\ w[k] \in A /\ (k + 1) - 1 = k
        BY <2>2
      <3>2. w[k + 1] = step(w[k], k + 1)
        BY <1>7, <3>1
      <3> QED BY <1>1, <3>1, <3>2
    <2>3. 0..n \subseteq Q
      <3> HIDE DEF Q
      <3> QED BY <2>1, <2>2, UpTo
    <2> QED BY <2>3
  <1> QED BY <1>7, <1>8 DEF step, w, Inners

(* The walk of the outer cursor, with all those inside.                    *)
LEMMA OuterSteps ==
  ASSUME NEW A, NEW m \in A, NEW from, NEW n \in Nat, NEW swaps,
         \A r \in A : \A k \in 1..n : Inner(r, from + k - 1, from, n, swaps)[n] \in A
  PROVE  Outers(Outer(m, from, n, swaps), A, m, from, n, swaps)
  <1> DEFINE step(r, k) == Inner(r, from + k - 1, from, n, swaps)[n]
             Def(f) == f = [k \in 0..n |-> IF k = 0 THEN m ELSE step(f[k - 1], k)]
             w == Outer(m, from, n, swaps)
             next == [k \in 1..n |-> [r \in A |-> step(r, k)]]
  <1>1. \A k \in 1..n : \A r \in A : step(r, k) \in A
    OBVIOUS
  <1>2. next \in [1..n -> [A -> A]]
    <2> HIDE DEF step
    <2> QED BY <1>1
  <1> HIDE DEF step
  <1>3. PICK h \in [0..n -> A] : h[0] = m /\ \A k \in 1..n : h[k] = next[k][h[k - 1]]
    <2>1. next \in Steps(n, A)
      BY <1>2 DEF Steps
    <2> HIDE DEF next
    <2>2. \E f : Follows(f, n, A, m, next)
      BY <2>1, Recursion
    <2> QED BY <2>2 DEF Follows
  <1>4. \A k \in 1..n : h[k] = step(h[k - 1], k)
    <2> SUFFICES ASSUME NEW k \in 1..n PROVE next[k][h[k - 1]] = step(h[k - 1], k)
      BY <1>3
    <2>1. k - 1 \in 0..n
      OBVIOUS
    <2>2. h[k - 1] \in A
      BY <1>3, <2>1
    <2> QED BY <2>2
  <1> HIDE DEF next
  <1>5. Def(h)
    <2>1. \A k \in 0..n : k = 0 \/ k \in 1..n
      OBVIOUS
    <2>2. \A k \in 0..n : h[k] = IF k = 0 THEN m ELSE step(h[k - 1], k)
      BY <2>1, <1>3, <1>4
    <2>3. h = [k \in 0..n |-> h[k]]
      BY <1>3
    <2> QED BY <2>2, <2>3
  <1>6. Def(w)
    <2>1. w = CHOOSE g : Def(g)
      BY DEF Outer, step
    <2> HIDE DEF Def, w
    <2> QED BY <1>5, <2>1
  <1> HIDE DEF w
  <1>7. /\ w = [k \in 0..n |-> w[k]] /\ w[0] = m
        /\ \A k \in 1..n : w[k] = step(w[k - 1], k)
    <2>1. (\A k \in 1..n : k \in 0..n /\ k # 0) /\ 0 \in 0..n
      OBVIOUS
    <2>2. w = [k \in 0..n |-> IF k = 0 THEN m ELSE step(w[k - 1], k)]
      BY <1>6
    <2>3. \A k \in 0..n : w[k] = IF k = 0 THEN m ELSE step(w[k - 1], k)
      BY <2>2
    <2>4. w = [k \in 0..n |-> w[k]]
      BY <2>2
    <2> QED BY <2>1, <2>3, <2>4
  <1>8. \A k \in 0..n : w[k] \in A
    <2> DEFINE Q == {k \in 0..n : w[k] \in A}
    <2>1. 0 \in Q
      BY <1>7
    <2>2. ASSUME NEW k \in 0..n - 1, k \in Q
          PROVE  k + 1 \in Q
      <3>1. k + 1 \in 1..n /\ k + 1 \in 0..n /\ w[k] \in A /\ (k + 1) - 1 = k
        BY <2>2
      <3>2. w[k + 1] = step(w[k], k + 1)
        BY <1>7, <3>1
      <3> QED BY <1>1, <3>1, <3>2
    <2>3. 0..n \subseteq Q
      <3> HIDE DEF Q
      <3> QED BY <2>1, <2>2, UpTo
    <2> QED BY <2>3
  <1> QED BY <1>7, <1>8 DEF step, w, Outers

LEMMA InnerIs ==
  ASSUME NEW S, NEW l \in Seq(S), NEW m \in Arrangements(S, l), NEW i \in 1..Len(l),
         NEW from \in Nat, NEW n \in Nat, from >= 1, from + n <= Len(l) + 1, NEW swaps
  PROVE  Inner(m, i, from, n, swaps) \in [0..n -> Arrangements(S, l)]
  <1> DEFINE A == Arrangements(S, l)
  <1>1. ASSUME NEW k \in 1..n, NEW r \in A
        PROVE  Compared(r, i, from + k - 1, swaps) \in A
    <2>1. from + k - 1 \in 1..Len(l)
      OBVIOUS
    <2>2. Rotate(r, i, from + k - 1) \in A
      BY <2>1, RotateIs
    <2> HIDE DEF A
    <2> QED BY <2>2 DEF Compared
  <1>2. m \in A
    OBVIOUS
  <1> HIDE DEF A
  <1>3. \A r \in A : \A k \in 1..n : Compared(r, i, from + k - 1, swaps) \in A
    BY <1>1
  <1>4. Inners(Inner(m, i, from, n, swaps), A, m, i, from, n, swaps)
    BY <1>2, <1>3, InnerSteps
  <1> QED BY <1>4 DEF Inners, A

LEMMA OuterIs ==
  ASSUME NEW S, NEW l \in Seq(S), NEW m \in Arrangements(S, l),
         NEW from \in Nat, NEW n \in Nat, from >= 1, from + n <= Len(l) + 1, NEW swaps
  PROVE  Outer(m, from, n, swaps) \in [0..n -> Arrangements(S, l)]
  <1> DEFINE A == Arrangements(S, l)
  <1>1. ASSUME NEW k \in 1..n, NEW r \in A
        PROVE  Inner(r, from + k - 1, from, n, swaps)[n] \in A
    <2>1. from + k - 1 \in 1..Len(l)
      OBVIOUS
    <2>2. Inner(r, from + k - 1, from, n, swaps) \in [0..n -> A]
      BY <2>1, InnerIs
    <2>3. n \in 0..n
      OBVIOUS
    <2> HIDE DEF A
    <2> QED BY <2>2, <2>3
  <1>2. m \in A
    OBVIOUS
  <1> HIDE DEF A
  <1>3. \A r \in A : \A k \in 1..n : Inner(r, from + k - 1, from, n, swaps)[n] \in A
    BY <1>1
  <1>4. Outers(Outer(m, from, n, swaps), A, m, from, n, swaps)
    BY <1>2, <1>3, OuterSteps
  <1> QED BY <1>4 DEF Outers, A

LEMMA WalkIs ==
  ASSUME NEW S, NEW l \in Seq(S), NEW m \in Arrangements(S, l),
         NEW from \in Nat, NEW to \in Nat, from >= 1, from <= to, to <= Len(l) + 1,
         NEW swaps
  PROVE  Walk(m, from, to, swaps) \in Arrangements(S, l)
  <1> DEFINE n == to - from
  <1>1. n \in Nat /\ from + n <= Len(l) + 1 /\ n \in 0..n
    OBVIOUS
  <1>2. Walk(m, from, to, swaps) = Outer(m, from, n, swaps)[n]
    BY DEF Walk
  <1> HIDE DEF n
  <1>3. Outer(m, from, n, swaps) \in [0..n -> Arrangements(S, l)]
    BY <1>1, OuterIs
  <1> QED BY <1>1, <1>2, <1>3

(* A list is an arrangement of itself.                                     *)
LEMMA ItselfIs ==
  ASSUME NEW S, NEW l \in Seq(S)
  PROVE  l \in Arrangements(S, l)
  <1> DEFINE f == [k \in 1..Len(l) |-> k]
  <1>1. f \in Renumberings(Len(l)) /\ \A i \in 1..Len(l) : l[i] = l[f[i]]
    BY DEF Renumberings
  <1> QED BY <1>1 DEF Arrangements, Rearranged

(* RsortList, whatever the order.                                          *)
LEMMA SortIs ==
  ASSUME NEW S, NEW l \in Seq(S), NEW how
  PROVE  SortList(l, how) \in Arrangements(S, l)
  <1> DEFINE n == Len(l)
             A == Arrangements(S, l)
  <1>1. n \in Nat /\ l \in A /\ \A m \in A : m \in Seq(S) /\ Len(m) = n
    BY ItselfIs DEF Arrangements, Rearranged
  <1>2. CASE n < 2
    BY <1>1, <1>2 DEF SortList
  <1>3. CASE n >= 2
    <2>1. ASSUME NEW m \in A, NEW from \in 1..n, NEW to \in from..n
          PROVE  RecSort(m, from, to, how) \in A
      <3>1. from \in Nat /\ to \in Nat /\ from >= 1 /\ from <= to /\ to <= n + 1
        BY <1>1
      <3> HIDE DEF n
      <3>2. Walk(m, from, to, Unsorted(m, how)) \in A
        BY <3>1, WalkIs DEF n
      <3> QED BY <3>2 DEF RecSort
    <2>2. Grouped(l) \in A
      <3>1. 2 \in Nat /\ n + 1 \in Nat /\ 2 >= 1 /\ 2 <= n + 1 /\ n + 1 <= n + 1
        BY <1>1, <1>3
      <3>2. Walk(l, 2, n + 1, Ungrouped(l)) \in A
        BY <1>1, <3>1, WalkIs
      <3> QED BY <3>2 DEF Grouped
    <2>3. ASSUME NEW g \in A
          PROVE  Divide(g) \in 2..n
      <3> DEFINE other == {i \in 2..Len(g) : g[i].kind # "D"}
      <3>1. Len(g) = n
        BY <1>1
      <3>2. other # {} => \E i \in other : \A j \in other : i <= j
        <4>1. other \subseteq Nat
          BY <1>1, <3>1
        <4> HIDE DEF other
        <4> QED BY <4>1, LeastNumber
      <3>3. other \subseteq 2..n
        BY <3>1
      <3>4. Divide(g) = IF other = {} THEN n ELSE CHOOSE i \in other : \A j \in other : i <= j
        BY <3>1 DEF Divide
      <3> DEFINE first == CHOOSE i \in other : \A j \in other : i <= j
      <3> HIDE DEF other
      <3>5. CASE other = {}
        BY <1>1, <1>3, <3>4, <3>5
      <3>6. CASE other # {}
        <4>1. first \in other
          BY <3>2, <3>6
        <4> QED BY <3>3, <3>4, <3>6, <4>1
      <3> QED BY <3>5, <3>6
    <2>4. SortList(l, how) =
            IF how.group
            THEN RecSort(RecSort(Grouped(l), 2, Divide(Grouped(l)), how),
                         Divide(Grouped(l)), n, how)
            ELSE RecSort(l, 2, n, how)
      BY <1>1, <1>3 DEF SortList
    <2>5. Divide(Grouped(l)) \in 2..n
      BY <2>2, <2>3
    <2>6. /\ 2 \in 1..n /\ n \in 2..n
          /\ \A d \in 2..n : d \in 1..n /\ n \in d..n
      BY <1>1, <1>3
    <2> HIDE DEF A, n
    <2>7. RecSort(Grouped(l), 2, Divide(Grouped(l)), how) \in A
      BY <2>1, <2>2, <2>5, <2>6
    <2>8. RecSort(RecSort(Grouped(l), 2, Divide(Grouped(l)), how),
                  Divide(Grouped(l)), n, how) \in A
      BY <2>1, <2>5, <2>6, <2>7
    <2>9. RecSort(l, 2, n, how) \in A
      BY <1>1, <2>1, <2>6
    <2> QED BY <2>4, <2>8, <2>9 DEF A
  <1> QED BY <1>1, <1>2, <1>3

(* What is arranged in another way has each record as often.               *)
LEMMA ArrangedIsSame ==
  ASSUME NEW S, NEW l \in Seq(S), NEW m \in Arrangements(S, l)
  PROVE  SameRecords(m, l)
  <1> DEFINE n == Len(l)
             D == 1..n
  <1>1. n \in Nat /\ Len(m) = n /\ DOMAIN m = D /\ DOMAIN l = D
    BY DEF Arrangements, Rearranged
  <1>2. PICK f \in Renumberings(n) : \A i \in D : m[i] = l[f[i]]
    BY DEF Arrangements, Rearranged
  <1>3. f \in [D -> D] /\ \A i, j \in D : f[i] = f[j] => i = j
    BY <1>2 DEF Renumberings
  <1>4. IsFiniteSet(D)
    BY <1>1, FS_Interval
  <1> HIDE DEF n, D
  <1>5. \A j \in D : \E i \in D : f[i] = j
    <2>1. f \in Injection(D, D)
      BY <1>3 DEF Injection, IsInjective
    <2>2. f \in Surjection(D, D)
      BY <1>4, <2>1, FS_Injection
    <2> QED BY <2>2 DEF Surjection
  <1>6. ASSUME NEW r
        PROVE  Times(m, r) = Times(l, r)
    <2> DEFINE I == {i \in D : m[i] = r}
               J == {j \in D : l[j] = r}
               h == [i \in I |-> f[i]]
    <2>1. h \in [I -> J] /\ \A a, b \in I : h[a] = h[b] => a = b
      BY <1>2, <1>3
    <2>2. \A j \in J : \E i \in I : h[i] = j
      <3> SUFFICES ASSUME NEW j \in J PROVE \E i \in I : h[i] = j
        OBVIOUS
      <3>1. PICK i \in D : f[i] = j
        BY <1>5
      <3>2. i \in I
        BY <1>2, <3>1
      <3> QED BY <3>1, <3>2
    <2>3. IsFiniteSet(I)
      BY <1>4, FS_Subset
    <2> HIDE DEF h, I, J
    <2>4. h \in Bijection(I, J)
      BY <2>1, <2>2 DEF Bijection, Injection, Surjection, IsInjective
    <2>5. Cardinality(I) = Cardinality(J)
      BY <2>3, <2>4, FS_Bijection DEF ExistsBijection
    <2> QED BY <1>1, <2>5 DEF Times, I, J
  <1> QED BY <1>1, <1>6 DEF SameRecords, n
-----------------------------------------------------------------------------
(* A stretch of a list whose records have changed places among themselves. *)
Stretch(from, n)  == from..from + n - 1
Held(l, from, n)  == {l[p] : p \in Stretch(from, n)}
Shuffled(S, l, from, n) ==
  {m \in Seq(S) : /\ Len(m) = Len(l) /\ Held(m, from, n) = Held(l, from, n)
                  /\ \A p \in 1..Len(l) \ Stretch(from, n) : m[p] = l[p]}

LEMMA RotateShuffles ==
  ASSUME NEW S, NEW l \in Seq(S), NEW from \in Nat, NEW n \in Nat, from >= 1,
         from + n <= Len(l) + 1, NEW m \in Shuffled(S, l, from, n),
         NEW i \in Stretch(from, n), NEW j \in Stretch(from, n)
  PROVE  /\ Rotate(m, i, j) \in Shuffled(S, l, from, n)
         /\ \A k \in 1..Len(l) :
              Rotate(m, i, j)[k] = IF k = j THEN m[i] ELSE IF k = i THEN m[j] ELSE m[k]
  <1> DEFINE r == Rotate(m, i, j)
             N == 1..Len(l)
             T == Stretch(from, n)
             a == [m EXCEPT ![i] = m[j]]
  <1>1. /\ m \in Seq(S) /\ Len(m) = Len(l) /\ DOMAIN m = N /\ i \in N /\ j \in N
        /\ T \subseteq N /\ i \in T /\ j \in T
        /\ Held(m, from, n) = Held(l, from, n) /\ \A p \in N \ T : m[p] = l[p]
    BY DEF Shuffled, Stretch
  <1>2. /\ a \in Seq(S) /\ Len(a) = Len(l) /\ DOMAIN a = N
        /\ \A k \in N : a[k] = IF k = i THEN m[j] ELSE m[k]
    BY <1>1
  <1>3. r = [a EXCEPT ![j] = m[i]] /\ m[i] \in S
    BY <1>1 DEF Rotate
  <1> HIDE DEF a, r, T
  <1>4. /\ r \in Seq(S) /\ Len(r) = Len(l)
        /\ \A k \in N : r[k] = IF k = j THEN m[i] ELSE IF k = i THEN m[j] ELSE m[k]
    BY <1>1, <1>2, <1>3
  <1> HIDE DEF N
  <1>5. Held(r, from, n) = Held(m, from, n)
    <2>1. {r[p] : p \in T} \subseteq {m[p] : p \in T}
      BY <1>1, <1>4
    <2>2. {m[p] : p \in T} \subseteq {r[p] : p \in T}
      <3>1. m[i] = r[j] /\ m[j] = r[i] /\ \A p \in T : p # i /\ p # j => m[p] = r[p]
        BY <1>1, <1>4
      <3> QED BY <1>1, <3>1
    <2> QED BY <2>1, <2>2 DEF Held, T
  <1>6. \A p \in N \ T : r[p] = l[p]
    BY <1>1, <1>4
  <1> QED BY <1>1, <1>4, <1>5, <1>6 DEF Shuffled, r, N, T

(* What is exchanged when it is met (swaps, an inner record and an outer   *)
(* one) and what must not stand in this order (bad) agree so far that the  *)
(* walks sort.                                                             *)
Agree(swaps, bad, T) ==
  \A x, y \in T :
    IF <<x, y>> \in swaps
    THEN /\ <<y, x>> \notin bad
         /\ \A z \in T : /\ <<x, z>> \notin bad => <<y, z>> \notin bad
                         /\ <<z, y>> \notin bad => <<z, x>> \notin bad
    ELSE <<x, y>> \notin bad

(* The outer cursor is at i, the inner one at c: what is before i is in    *)
(* order, and the record at i may follow what the inner one has passed.    *)
Walked(m, bad, from, i, c) ==
  /\ \A p, q \in from..i - 1 : p < q => <<m[p], m[q]>> \notin bad
  /\ \A p \in from..i - 1 : p < c => <<m[p], m[i]>> \notin bad

LEMMA ComparedWalks ==
  ASSUME NEW S, NEW l \in Seq(S), NEW from \in Nat, NEW n \in Nat, from >= 1,
         from + n <= Len(l) + 1, NEW m \in Shuffled(S, l, from, n), NEW swaps, NEW bad,
         Agree(swaps, bad, Held(l, from, n)),
         NEW i \in Stretch(from, n), NEW c \in Stretch(from, n), Walked(m, bad, from, i, c)
  PROVE  LET r == Compared(m, i, c, swaps)
         IN  r \in Shuffled(S, l, from, n) /\ Walked(r, bad, from, i, c + 1)
  <1> DEFINE r == Compared(m, i, c, swaps)
             T == Held(l, from, n)
  <1>1. /\ \A p \in Stretch(from, n) : m[p] \in T
        /\ Stretch(from, n) \subseteq 1..Len(l) /\ i \in Nat /\ c \in Nat
        /\ \A p \in from..i - 1 : p \in Stretch(from, n) /\ p \in Nat /\ p # i
        /\ from <= i /\ from <= c
    <2>1. Held(m, from, n) = T
      BY DEF Shuffled
    <2>2. \A p \in Stretch(from, n) : m[p] \in T
      BY <2>1 DEF Held
    <2> QED BY <2>2 DEF Stretch
  <1>2. /\ \A p, q \in from..i - 1 : p < q => <<m[p], m[q]>> \notin bad
        /\ \A p \in from..i - 1 : p < c => <<m[p], m[i]>> \notin bad
    BY DEF Walked
  <1>3. CASE <<m[c], m[i]>> \notin swaps
    <2>1. r = m
      BY <1>3 DEF Compared
    <2>2. <<m[c], m[i]>> \notin bad
      BY <1>1, <1>3 DEF Agree
    <2>3. \A p \in from..i - 1 : p < c + 1 => p < c \/ p = c
      BY <1>1
    <2> QED BY <1>2, <2>1, <2>2, <2>3 DEF Walked
  <1>4. CASE <<m[c], m[i]>> \in swaps
    <2>1. r = Rotate(m, i, c)
      BY <1>4 DEF Compared
    <2> HIDE DEF r
    <2>2. /\ r \in Shuffled(S, l, from, n)
          /\ \A k \in 1..Len(l) : r[k] = IF k = c THEN m[i] ELSE IF k = i THEN m[c] ELSE m[k]
      BY <2>1, RotateShuffles
    <2> HIDE DEF T
    <2>3. /\ r[i] = m[c] /\ r[c] = m[i]
          /\ \A p \in from..i - 1 : p # c => r[p] = m[p]
      BY <1>1, <2>2
    <2>4. /\ <<m[i], m[c]>> \notin bad
          /\ \A k \in Stretch(from, n) : <<m[c], m[k]>> \notin bad => <<m[i], m[k]>> \notin bad
          /\ \A k \in Stretch(from, n) : <<m[k], m[i]>> \notin bad => <<m[k], m[c]>> \notin bad
      BY <1>1, <1>4 DEF Agree, T
    <2>5. ASSUME NEW p \in from..i - 1, p < c + 1
          PROVE  <<r[p], r[i]>> \notin bad
      <3>1. CASE p = c
        BY <2>3, <2>4, <3>1
      <3>2. CASE p # c
        <4>1. p < c
          BY <1>1, <2>5, <3>2
        <4>2. <<m[p], m[i]>> \notin bad
          BY <1>2, <4>1
        <4>3. p \in Stretch(from, n) /\ r[p] = m[p] /\ r[i] = m[c]
          BY <1>1, <2>3, <3>2
        <4>4. <<m[p], m[c]>> \notin bad
          BY <2>4, <4>2, <4>3, Zenon
        <4> QED BY <4>3, <4>4, Zenon
      <3> QED BY <3>1, <3>2
    <2>6. ASSUME NEW p \in from..i - 1, NEW q \in from..i - 1, p < q
          PROVE  <<r[p], r[q]>> \notin bad
      <3>1. CASE p # c /\ q # c
        BY <1>2, <2>3, <2>6, <3>1
      <3>2. CASE p = c
        <4>1. q # c /\ <<m[c], m[q]>> \notin bad
          BY <1>1, <1>2, <2>6, <3>2
        <4>2. q \in Stretch(from, n) /\ r[q] = m[q] /\ r[p] = m[i]
          BY <1>1, <2>3, <3>2, <4>1
        <4>3. <<m[i], m[q]>> \notin bad
          BY <2>4, <4>1, <4>2, Zenon
        <4> QED BY <4>2, <4>3, Zenon
      <3>3. CASE q = c
        <4>1. p # c /\ <<m[p], m[i]>> \notin bad
          BY <1>1, <1>2, <2>6, <3>3
        <4> QED BY <2>3, <3>3, <4>1
      <3> QED BY <3>1, <3>2, <3>3
    <2> QED BY <2>2, <2>5, <2>6 DEF Walked, r
  <1> QED BY <1>3, <1>4

(* So an inner walk puts the record at i in its place ...                  *)
LEMMA InnerSorts ==
  ASSUME NEW S, NEW l \in Seq(S), NEW from \in Nat, NEW n \in Nat, from >= 1,
         from + n <= Len(l) + 1, NEW m \in Shuffled(S, l, from, n), NEW swaps, NEW bad,
         Agree(swaps, bad, Held(l, from, n)),
         NEW i \in Stretch(from, n), Walked(m, bad, from, i, from)
  PROVE  LET r == Inner(m, i, from, n, swaps)[n]
         IN  r \in Shuffled(S, l, from, n) /\ Walked(r, bad, from, i + 1, from)
  <1> DEFINE A == Shuffled(S, l, from, n)
             w == Inner(m, i, from, n, swaps)
             Q == {k \in 0..n : w[k] \in A /\ Walked(w[k], bad, from, i, from + k)}
  <1>1. /\ w \in [0..n -> A] /\ w[0] = m
        /\ \A k \in 1..n : w[k] = Compared(w[k - 1], i, from + k - 1, swaps)
    <2>1. ASSUME NEW r \in A, NEW k \in 1..n
          PROVE  Compared(r, i, from + k - 1, swaps) \in A
      <3>1. from + k - 1 \in Stretch(from, n)
        BY DEF Stretch
      <3>2. Rotate(r, i, from + k - 1) \in A
        BY <3>1, RotateShuffles
      <3> QED BY <3>2 DEF Compared
    <2>2. m \in A
      OBVIOUS
    <2>3. w = Inner(m, i, from, n, swaps)
      OBVIOUS
    <2> HIDE DEF A, w
    <2>4. \A r \in A : \A k \in 1..n : Compared(r, i, from + k - 1, swaps) \in A
      BY <2>1
    <2>5. n \in Nat
      OBVIOUS
    <2>6. Inners(w, A, m, i, from, n, swaps)
      BY <2>2, <2>3, <2>4, <2>5, InnerSteps
    <2> QED BY <2>6 DEF Inners
  <1> HIDE DEF w
  <1>2. 0 \in Q
    BY <1>1
  <1>3. ASSUME NEW k \in 0..n - 1, k \in Q
        PROVE  k + 1 \in Q
    <2>1. /\ k + 1 \in 1..n /\ k + 1 \in 0..n /\ (k + 1) - 1 = k
          /\ from + (k + 1) - 1 = from + k /\ from + (k + 1) = from + k + 1
          /\ from + k \in Stretch(from, n)
      BY DEF Stretch
    <2>2. w[k + 1] = Compared(w[k], i, from + k, swaps)
      BY <1>1, <2>1
    <2>3. w[k] \in A /\ Walked(w[k], bad, from, i, from + k)
      BY <1>3
    <2>4. w[k + 1] \in A /\ Walked(w[k + 1], bad, from, i, from + k + 1)
      BY <2>1, <2>2, <2>3, ComparedWalks
    <2> QED BY <2>1, <2>4
  <1>4. n \in Q
    <2> HIDE DEF Q
    <2>1. 0..n \subseteq Q
      BY <1>2, <1>3, UpTo
    <2> QED BY <2>1
  <1>5. w[n] \in A /\ Walked(w[n], bad, from, i, from + n)
    BY <1>4
  <1> HIDE DEF A, Q
  <1>6. /\ \A p \in from..i : p \in from..i - 1 \/ p = i
        /\ \A p \in from..i - 1 : p < from + n /\ p < i
        /\ i + 1 - 1 = i /\ \A p \in from..i : ~(p < from)
        /\ \A p, q \in from..i : p < q => p \in from..i - 1
        /\ (i + 1) - 1 = i
    BY DEF Stretch
  <1> DEFINE r == w[n]
  <1>7. Walked(r, bad, from, i + 1, from)
    <2>1. /\ \A p, q \in from..i - 1 : p < q => <<r[p], r[q]>> \notin bad
          /\ \A p \in from..i - 1 : <<r[p], r[i]>> \notin bad
      BY <1>5, <1>6 DEF Walked
    <2> HIDE DEF r
    <2>2. \A p, q \in from..i : p < q => <<r[p], r[q]>> \notin bad
      BY <1>6, <2>1
    <2>3. (i + 1) - 1 = i /\ \A p \in from..i : ~(p < from)
      BY <1>6
    <2> QED BY <2>2, <2>3 DEF Walked
  <1> QED BY <1>5, <1>7 DEF w, A

(* ... and the walks of both sort the stretch.                             *)
LEMMA WalkSorts ==
  ASSUME NEW S, NEW l \in Seq(S), NEW from \in Nat, NEW to \in Nat, from >= 1,
         from <= to, to <= Len(l) + 1, NEW swaps, NEW bad,
         Agree(swaps, bad, Held(l, from, to - from))
  PROVE  LET r == Walk(l, from, to, swaps)
         IN  /\ r \in Shuffled(S, l, from, to - from)
             /\ \A p, q \in from..to - 1 : p < q => <<r[p], r[q]>> \notin bad
  <1> DEFINE n == to - from
             A == Shuffled(S, l, from, n)
             w == Outer(l, from, n, swaps)
             B == {r \in A : TRUE}
             Q == {k \in 0..n : w[k] \in A /\ Walked(w[k], bad, from, from + k, from)}
  <1>1. n \in Nat /\ from + n <= Len(l) + 1 /\ n \in 0..n /\ from + n = to
    OBVIOUS
  <1>2. Walk(l, from, to, swaps) = w[n]
    BY DEF Walk
  <1>3. Agree(swaps, bad, Held(l, from, n))
    OBVIOUS
  <1> HIDE DEF n
  <1>4. l \in A
    BY <1>1 DEF Shuffled, Held
  <1>5. /\ w \in [0..n -> A] /\ w[0] = l
        /\ \A k \in 1..n : w[k] = Inner(w[k - 1], from + k - 1, from, n, swaps)[n]
    <2>1. ASSUME NEW r \in A, NEW k \in 1..n
          PROVE  Inner(r, from + k - 1, from, n, swaps)[n] \in A
      <3> DEFINE i == from + k - 1
      <3>1. i \in Stretch(from, n)
        BY <1>1 DEF Stretch
      <3> HIDE DEF i
      <3>2. \A s \in A : \A j \in 1..n : Compared(s, i, from + j - 1, swaps) \in A
        <4> SUFFICES ASSUME NEW s \in A, NEW j \in 1..n
                     PROVE  Compared(s, i, from + j - 1, swaps) \in A
          OBVIOUS
        <4>1. from + j - 1 \in Stretch(from, n)
          BY <1>1 DEF Stretch
        <4>2. Rotate(s, i, from + j - 1) \in A
          BY <1>1, <3>1, <4>1, RotateShuffles
        <4> QED BY <4>2 DEF Compared
      <3> HIDE DEF A
      <3>3. Inner(r, i, from, n, swaps) \in [0..n -> A]
        BY <1>1, <3>2, InnerSteps DEF Inners
      <3> QED BY <1>1, <3>3 DEF i
    <2>2. w = Outer(l, from, n, swaps)
      OBVIOUS
    <2> HIDE DEF A, w
    <2>3. \A r \in A : \A k \in 1..n : Inner(r, from + k - 1, from, n, swaps)[n] \in A
      BY <2>1
    <2>4. Outers(w, A, l, from, n, swaps)
      BY <1>1, <1>4, <2>2, <2>3, OuterSteps
    <2> QED BY <2>4 DEF Outers
  <1> HIDE DEF w
  <1>6. 0 \in Q
    <2>1. from + 0 = from /\ from..from - 1 = {}
      OBVIOUS
    <2> QED BY <1>1, <1>4, <1>5, <2>1 DEF Walked
  <1>7. ASSUME NEW k \in 0..n - 1, k \in Q
        PROVE  k + 1 \in Q
    <2>1. /\ k + 1 \in 1..n /\ k + 1 \in 0..n /\ (k + 1) - 1 = k
          /\ from + (k + 1) - 1 = from + k /\ from + (k + 1) = from + k + 1
          /\ from + k \in Stretch(from, n)
      BY <1>1 DEF Stretch
    <2>2. w[k + 1] = Inner(w[k], from + k, from, n, swaps)[n]
      BY <1>5, <2>1
    <2>3. w[k] \in A /\ Walked(w[k], bad, from, from + k, from)
      BY <1>7
    <2>4. w[k + 1] \in A /\ Walked(w[k + 1], bad, from, from + k + 1, from)
      BY <1>1, <1>3, <2>1, <2>2, <2>3, InnerSorts
    <2> QED BY <2>1, <2>4
  <1>8. n \in Q
    <2> HIDE DEF Q
    <2>1. 0..n \subseteq Q
      BY <1>1, <1>6, <1>7, UpTo
    <2> QED BY <1>1, <2>1
  <1>9. w[n] \in A /\ Walked(w[n], bad, from, to, from)
    BY <1>1, <1>8
  <1> QED BY <1>2, <1>9 DEF Walked, n

(* Each order of records does what the walks need, the ascending one and,  *)
(* if the records can be ranked, the descending one.                       *)
Wrong(how, T) == {p \in T \X T : OutOfOrder(how, p[1], p[2])}

LEMMA OrdersAgree ==
  ASSUME NEW S, \A r \in S : r.size \in Nat, NEW l \in Seq(S), NEW how,
         how.method \in 1..3, NEW T, T \subseteq ToSet(l), T \subseteq S,
         Descends(how) => Ranked(how.method, T)
  PROVE  Agree(Unsorted(l, how), Wrong(how, T), T)
  <1> DEFINE G(x, y) == Greater(how.method, x, y)
             down == Descends(how)
             swaps == Unsorted(l, how)
             bad == Wrong(how, T)
  <1>1. \A x, y \in T : G(x, y) => ~G(y, x)
    <2>1. ASSUME NEW less \in {NameLess, ExtLess}, NEW a, NEW b,
                 <<a, b>> \in less, <<b, a>> \in less
          PROVE  FALSE
      <3>1. <<a, b>>[2] = <<b, a>>[1] => <<a, b>>[1] # <<b, a>>[2]
        BY <2>1, OrderAssumption
      <3> QED BY <3>1
    <2>2. \A a, b : /\ <<a, b>> \in NameLess => <<b, a>> \notin NameLess
                    /\ <<a, b>> \in ExtLess => <<b, a>> \notin ExtLess
      BY <2>1
    <2> QED BY <2>2 DEF Greater
  <1>2. \A x, y, z \in T : G(x, y) /\ G(y, z) => G(x, z)
    BY OrderAssumption DEF Greater
  <1>3. down => \A x, y, z \in T : G(x, z) => G(x, y) \/ G(y, z)
    BY DEF Ranked
  <1>4. down \in BOOLEAN /\ \A x, y \in T : G(x, y) \in BOOLEAN
    <2>1. down \in BOOLEAN
      BY DEF Descends
    <2>2. ASSUME NEW x \in T, NEW y \in T PROVE G(x, y) \in BOOLEAN
      <3>1. CASE how.method = 1
        <4>1. G(x, y) = (<<y.name, x.name>> \in NameLess)
          BY <3>1 DEF Greater
        <4> QED BY <4>1
      <3>2. CASE how.method = 2
        <4>1. G(x, y) = (<<y.name, x.name>> \in ExtLess)
          BY <3>2 DEF Greater
        <4> QED BY <4>1
      <3>3. CASE how.method = 3
        <4>1. G(x, y) = (x.size > y.size)
          BY <3>3 DEF Greater
        <4> QED BY <4>1
      <3> QED BY <3>1, <3>2, <3>3
    <2> QED BY <2>1, <2>2
  <1>5. \A x, y \in T : <<x, y>> \in swaps <=> IF down THEN ~G(x, y) ELSE G(x, y)
    <2> SUFFICES ASSUME NEW x \in T, NEW y \in T
                 PROVE  <<x, y>> \in swaps <=> IF down THEN ~G(x, y) ELSE G(x, y)
      OBVIOUS
    <2>1. <<x, y>> \in swaps <=> Exchanges(how, x, y)
      BY DEF Unsorted
    <2>2. Exchanges(how, x, y) <=> (G(x, y) # down)
      BY DEF Exchanges
    <2>3. G(x, y) \in BOOLEAN
      BY <1>4
    <2> HIDE DEF swaps, G, down
    <2> QED BY <1>4, <2>1, <2>2, <2>3
  <1>6. \A x, y \in T : <<x, y>> \in bad <=> IF down THEN G(y, x) ELSE G(x, y)
    BY DEF Wrong, OutOfOrder
  <1> HIDE DEF swaps, bad, G, down
  <1>7. ASSUME NEW x \in T, NEW y \in T
        PROVE  IF <<x, y>> \in swaps
               THEN /\ <<y, x>> \notin bad
                    /\ \A z \in T : /\ <<x, z>> \notin bad => <<y, z>> \notin bad
                                    /\ <<z, y>> \notin bad => <<z, x>> \notin bad
               ELSE <<x, y>> \notin bad
    <2>1. CASE down
      BY <1>1, <1>3, <1>5, <1>6, <2>1, Zenon
    <2>2. CASE ~down
      BY <1>1, <1>2, <1>5, <1>6, <2>2, Zenon
    <2> QED BY <2>1, <2>2
  <1> QED BY <1>7, Zenon DEF Agree, swaps, bad

(* RrecSort: it sorts its stretch, but for the last record of it.          *)
Rankable(how, T) == Descends(how) => Ranked(how.method, T)
InOrder(l, how, from, to) ==
  \A p, q \in from..to - 1 : p < q => ~OutOfOrder(how, l[p], l[q])
Sorts(r, S, l, how, from, to) ==
  /\ r \in Shuffled(S, l, from, to - from)
  /\ how.method \in 1..3 /\ Rankable(how, Held(l, from, to - from))
       => InOrder(r, how, from, to)

LEMMA RecSortSorts ==
  ASSUME NEW S, \A r \in S : r.size \in Nat, NEW l \in Seq(S), NEW how,
         NEW from \in Nat, NEW to \in Nat, from >= 1, from <= to, to <= Len(l) + 1
  PROVE  Sorts(RecSort(l, from, to, how), S, l, how, from, to)
  <1> DEFINE r == RecSort(l, from, to, how)
             n == to - from
             T == Held(l, from, n)
  <1>1. r = Walk(l, from, to, Unsorted(l, how))
    BY DEF RecSort
  <1>2. r \in Shuffled(S, l, from, n)
    <2>1. Agree(Unsorted(l, how), {}, T)
      BY DEF Agree
    <2> QED BY <1>1, <2>1, WalkSorts
  <1>3. ASSUME how.method \in 1..3, Rankable(how, T)
        PROVE  InOrder(r, how, from, to)
    <2>1. /\ n \in Nat /\ from + n - 1 = to - 1
          /\ \A p \in Stretch(from, n) : p \in 1..Len(l) /\ p \in DOMAIN l
          /\ \A p \in from..to - 1 : p \in Stretch(from, n)
      BY DEF Stretch
    <2>2. T \subseteq ToSet(l) /\ T \subseteq S
      BY <2>1 DEF Held, ToSet
    <2>3. Agree(Unsorted(l, how), Wrong(how, T), T)
      <3>1. Descends(how) => Ranked(how.method, T)
        BY <1>3 DEF Rankable
      <3> HIDE DEF T
      <3> QED BY <1>3, <2>2, <3>1, OrdersAgree
    <2>4. \A p, q \in from..to - 1 : p < q => <<r[p], r[q]>> \notin Wrong(how, T)
      BY <1>1, <2>3, WalkSorts
    <2>5. \A p \in from..to - 1 : r[p] \in T
      <3>1. Held(r, from, n) = T
        BY <1>2 DEF Shuffled
      <3> HIDE DEF T, r
      <3> QED BY <2>1, <3>1 DEF Held
    <2> HIDE DEF r, T
    <2> QED BY <2>4, <2>5 DEF Wrong, InOrder
  <1> QED BY <1>2, <1>3 DEF Sorts

(* RpreSort: if there is nothing but directories and files, or no          *)
(* directory at all, what is grouped has directories before the place that *)
(* divides it and one other kind from there on, unless all are directories.*)
OneSort(l) ==
  \/ \A i \in 2..Len(l) : l[i].kind \in {"D", "F"}
  \/ \E k : k # "D" /\ \A i \in 2..Len(l) : l[i].kind = k
Divided(g, d) ==
  /\ d \in 2..Len(g)
  /\ \A i \in 2..d - 1 : g[i].kind = "D"
  /\ \A i \in d..Len(g) : g[i].kind = g[d].kind
  /\ d < Len(g) => g[d].kind # "D"

LEMMA GroupedDivides ==
  ASSUME NEW S, NEW l \in Seq(S), Len(l) >= 2, OneSort(l)
  PROVE  /\ Grouped(l) \in Seq(S) /\ Len(Grouped(l)) = Len(l)
         /\ Divided(Grouped(l), Divide(Grouped(l)))
  <1> DEFINE g == Grouped(l)
             N == Len(l)
             other == {i \in 2..Len(g) : g[i].kind # "D"}
             first == CHOOSE i \in other : \A j \in other : i <= j
  <1>1. N \in Nat /\ N >= 2 /\ 2..N + 1 - 1 = 2..N /\ Stretch(2, N + 1 - 2) = 2..N
    BY DEF Stretch
  <1>2. /\ g \in Shuffled(S, l, 2, N + 1 - 2)
        /\ \A p, q \in 2..N : p < q => ~(g[p].kind = "F" /\ g[q].kind = "D")
    <2> DEFINE T == Held(l, 2, N + 1 - 2)
               wrong == {p \in T \X T : p[1].kind = "F" /\ p[2].kind = "D"}
    <2>1. \A p \in Stretch(2, N + 1 - 2) : p \in DOMAIN l
      BY <1>1
    <2>2. T \subseteq ToSet(l)
      BY <2>1 DEF Held, ToSet
    <2>3. Agree(Ungrouped(l), wrong, T)
      BY <2>2 DEF Agree, Ungrouped, DirFirst
    <2>4. g = Walk(l, 2, N + 1, Ungrouped(l))
      BY DEF Grouped
    <2>5. /\ g \in Shuffled(S, l, 2, N + 1 - 2)
          /\ \A p, q \in 2..N + 1 - 1 : p < q => <<g[p], g[q]>> \notin wrong
      <3>1. Agree(Ungrouped(l), wrong, Held(l, 2, N + 1 - 2))
        BY <2>3
      <3> HIDE DEF wrong, g
      <3>2. 2 \in Nat /\ N + 1 \in Nat /\ 2 >= 1 /\ 2 <= N + 1 /\ N + 1 <= Len(l) + 1
        BY <1>1
      <3>3. l \in Seq(S)
        OBVIOUS
      <3> DEFINE to == N + 1
                 swaps == Ungrouped(l)
      <3>4. /\ to \in Nat /\ 2 <= to /\ to <= Len(l) + 1
            /\ Agree(swaps, wrong, Held(l, 2, to - 2))
        BY <3>1, <3>2
      <3>5. g = Walk(l, 2, to, swaps) /\ N + 1 - 2 = to - 2 /\ 2..N + 1 - 1 = 2..to - 1
        BY <2>4
      <3> HIDE DEF N, to, swaps
      <3>6. /\ Walk(l, 2, to, swaps) \in Shuffled(S, l, 2, to - 2)
            /\ \A p, q \in 2..to - 1 :
                 p < q => <<Walk(l, 2, to, swaps)[p], Walk(l, 2, to, swaps)[q]>> \notin wrong
        BY ONLY <3>2, <3>3, <3>4, WalkSorts
      <3>7. /\ g \in Shuffled(S, l, 2, to - 2)
            /\ \A p, q \in 2..to - 1 : p < q => <<g[p], g[q]>> \notin wrong
        BY ONLY <3>5, <3>6
      <3> QED BY ONLY <3>5, <3>7
    <2>6. \A p \in 2..N : g[p] \in T
      <3>1. Held(g, 2, N + 1 - 2) = T
        BY <2>5 DEF Shuffled
      <3> HIDE DEF T, g
      <3> QED BY <1>1, <3>1 DEF Held
    <2> HIDE DEF T, g, N
    <2> QED BY <1>1, <2>5, <2>6
  <1>3. g \in Seq(S) /\ Len(g) = N
    BY <1>2 DEF Shuffled
  <1>4. \A i \in 2..N : \E j \in 2..N : g[i] = l[j]
    <2>1. Held(g, 2, N + 1 - 2) = Held(l, 2, N + 1 - 2)
      BY <1>2 DEF Shuffled
    <2> HIDE DEF g, N
    <2> QED BY <1>1, <2>1 DEF Held
  <1> HIDE DEF g
  <1>5. \/ \A i \in 2..N : g[i].kind \in {"D", "F"}
        \/ \E k : k # "D" /\ \A i \in 2..N : g[i].kind = k
    <2>1. CASE \A i \in 2..N : l[i].kind \in {"D", "F"}
      BY <1>4, <2>1
    <2>2. ASSUME NEW k, k # "D", \A i \in 2..N : l[i].kind = k
          PROVE  \A i \in 2..N : g[i].kind = k
      BY <1>4, <2>2
    <2> QED BY <2>1, <2>2 DEF OneSort
  <1>6. other = {} => \A i \in 2..N : g[i].kind = "D"
    BY <1>3
  <1>7. other # {} => first \in other /\ \A j \in other : first <= j
    <2>1. other \subseteq Nat
      BY <1>1, <1>3
    <2> HIDE DEF other
    <2>2. other # {} => \E i \in other : \A j \in other : i <= j
      BY <2>1, LeastNumber
    <2> QED BY <2>2
  <1>8. Divide(g) = IF other = {} THEN N ELSE first
    BY <1>3 DEF Divide
  <1> HIDE DEF first
  <1>9. CASE other = {}
    <2>1. Divide(g) = N
      BY <1>8, <1>9
    <2> HIDE DEF other, N
    <2>2. Divided(g, N)
      BY <1>1, <1>3, <1>6, <1>9 DEF Divided
    <2> QED BY <1>3, <2>1, <2>2 DEF g, N
  <1>10. CASE other # {}
    <2>1. Divide(g) = first /\ first \in 2..N /\ g[first].kind # "D"
      BY <1>3, <1>7, <1>8, <1>10
    <2>2. \A i \in 2..first - 1 : g[i].kind = "D"
      <3> SUFFICES ASSUME NEW i \in 2..first - 1 PROVE g[i].kind = "D"
        OBVIOUS
      <3>1. i \in 2..N /\ ~(first <= i)
        BY <1>1, <2>1
      <3>2. i \notin other
        BY <1>7, <1>10, <3>1
      <3> QED BY <1>3, <3>1, <3>2
    <2>3. \A i \in first..N : g[i].kind = g[first].kind
      <3> SUFFICES ASSUME NEW i \in first..N PROVE g[i].kind = g[first].kind
        OBVIOUS
      <3>1. i \in 2..N /\ (i = first \/ first < i)
        BY <1>1, <2>1
      <3> HIDE DEF N, other
      <3> QED BY <1>2, <1>5, <2>1, <3>1 DEF g
    <2>4. Divided(g, first)
      BY <1>3, <2>1, <2>2, <2>3 DEF Divided
    <2> QED BY <1>3, <2>1, <2>4 DEF g
  <1> QED BY <1>9, <1>10

(* RsortList.  Its stretches, in the panel that is sorted, are among what  *)
(* SortedButLast compares.                                                 *)
LEMMA SortSorts ==
  ASSUME NEW S, \A r \in S : r.size \in Nat, NEW l \in Seq(S), OneSort(l), NEW how
  PROVE  SortedButLast(SortList(l, how), how)
  <1> DEFINE N == Len(l)
             L == SortList(l, how)
  <1>1. N \in Nat
    OBVIOUS
  <1>2. CASE N < 2
    <2>1. L = l
      BY <1>2 DEF SortList
    <2>2. 2..N = {}
      BY <1>1, <1>2
    <2> HIDE DEF L, N
    <2> QED BY <2>1, <2>2 DEF SortedButLast, N, L
  <1>3. CASE N >= 2 /\ ~how.group
    <2>1. L = RecSort(l, 2, N, how)
      BY <1>1, <1>3 DEF SortList
    <2> DEFINE T == Held(l, 2, N - 2)
    <2>2. /\ L \in Shuffled(S, l, 2, N - 2)
          /\ how.method \in 1..3 /\ Rankable(how, T) => InOrder(L, how, 2, N)
      <3>1. 2 \in Nat /\ 2 >= 1 /\ 2 <= N /\ N <= Len(l) + 1
        BY <1>1, <1>3
      <3>2. Sorts(L, S, l, how, 2, N)
        BY <1>1, <2>1, <3>1, RecSortSorts
      <3> QED BY <3>2 DEF Sorts
    <2>3. Len(L) = N /\ Held(L, 2, N - 2) = T
      BY <2>2 DEF Shuffled
    <2>4. Stretch(2, N - 2) = 2..N - 1
      BY <1>1 DEF Stretch
    <2> HIDE DEF L, N
    <2>5. ASSUME NEW i \in 2..N, NEW j \in 2..N, i < j, how.method \in 1..3, j # N,
                 Rankable(how, {L[k] : k \in {k \in 2..N - 1 : Alike(how, L[i], L[k])}})
          PROVE  ~OutOfOrder(how, L[i], L[j])
      <3>1. {L[k] : k \in {k \in 2..N - 1 : Alike(how, L[i], L[k])}} = {L[k] : k \in 2..N - 1}
        BY <1>3 DEF Alike
      <3>2. Rankable(how, T)
        BY <2>3, <2>4, <2>5, <3>1 DEF Held
      <3>3. i \in 2..N - 1 /\ j \in 2..N - 1
        BY <1>1, <2>5
      <3> QED BY <2>2, <2>5, <3>2, <3>3 DEF InOrder
    <2> QED BY <1>3, <2>3, <2>5 DEF SortedButLast, Rankable, L
  <1>4. CASE N >= 2 /\ how.group
    <2> DEFINE g == Grouped(l)
               d == Divide(g)
               m == RecSort(g, 2, d, how)
    <2>1. L = RecSort(m, d, N, how)
      BY <1>1, <1>4 DEF SortList
    <2>2. g \in Seq(S) /\ Len(g) = N /\ Divided(g, d)
      BY <1>4, GroupedDivides
    <2> HIDE DEF g, d, N
    <2>3. d \in 2..N /\ d \in Nat /\ 2 <= d /\ d <= N + 1 /\ d >= 1 /\ d <= N
      BY <1>1, <2>2 DEF Divided
    <2>4. /\ m \in Shuffled(S, g, 2, d - 2)
          /\ how.method \in 1..3 /\ Rankable(how, Held(g, 2, d - 2)) => InOrder(m, how, 2, d)
      <3>1. 2 \in Nat /\ 2 >= 1 /\ d <= Len(g) + 1
        BY <1>1, <2>2, <2>3
      <3>2. Sorts(m, S, g, how, 2, d)
        BY <2>2, <2>3, <3>1, RecSortSorts
      <3> QED BY <3>2 DEF Sorts
    <2>5. m \in Seq(S) /\ Len(m) = N
      BY <2>2, <2>4 DEF Shuffled
    <2> HIDE DEF m
    <2>6. /\ L \in Shuffled(S, m, d, N - d)
          /\ how.method \in 1..3 /\ Rankable(how, Held(m, d, N - d)) => InOrder(L, how, d, N)
      <3>1. N <= Len(m) + 1
        BY <1>1, <2>5
      <3>2. Sorts(L, S, m, how, d, N)
        BY <1>1, <2>1, <2>3, <2>5, <3>1, RecSortSorts
      <3> QED BY <3>2 DEF Sorts
    <2>7. Len(L) = N
      BY <2>5, <2>6 DEF Shuffled
    <2> HIDE DEF L
    <2>8. Stretch(2, d - 2) = 2..d - 1 /\ Stretch(d, N - d) = d..N - 1
      BY <1>1, <2>3 DEF Stretch
    <2>9. /\ \A p \in 1..N \ 2..d - 1 : m[p] = g[p]
          /\ \A p \in 1..N \ d..N - 1 : L[p] = m[p]
          /\ {m[p] : p \in 2..d - 1} = {g[p] : p \in 2..d - 1}
          /\ {L[p] : p \in d..N - 1} = {m[p] : p \in d..N - 1}
      BY <2>2, <2>4, <2>5, <2>6, <2>8 DEF Shuffled, Held
    <2>10. \A p \in 2..d - 1 : L[p] = m[p] /\ L[p].kind = "D"
      <3> SUFFICES ASSUME NEW p \in 2..d - 1 PROVE L[p] = m[p] /\ L[p].kind = "D"
        OBVIOUS
      <3>1. p \in 1..N \ d..N - 1
        BY <1>1, <2>3
      <3>2. \E q \in 2..d - 1 : m[p] = g[q]
        BY <2>9
      <3> QED BY <2>2, <2>9, <3>1, <3>2 DEF Divided
    <2>11. \A p \in d..N : L[p].kind = g[d].kind
      <3> SUFFICES ASSUME NEW p \in d..N PROVE L[p].kind = g[d].kind
        OBVIOUS
      <3>1. \A q \in d..N : q \in 1..N \ 2..d - 1 /\ g[q].kind = g[d].kind
        BY <1>1, <2>2, <2>3 DEF Divided
      <3>2. CASE p \in d..N - 1
        <4>1. \E q \in d..N - 1 : L[p] = m[q]
          BY <2>9, <3>2
        <4>2. \A q \in d..N - 1 : q \in d..N
          BY <1>1, <2>3
        <4> QED BY <2>9, <3>1, <4>1, <4>2
      <3>3. CASE p \notin d..N - 1
        <4>1. p \in 1..N \ d..N - 1
          BY <1>1, <2>3, <3>3
        <4> QED BY <2>9, <3>1, <4>1
      <3> QED BY <3>2, <3>3
    <2>12. d < N => g[d].kind # "D"
      BY <2>2 DEF Divided
    <2>13. \A p \in 2..N : p \in 2..d - 1 \/ p \in d..N
      BY <1>1, <2>3
    <2>14. ASSUME NEW i \in 2..N, NEW j \in 2..N, i < j
           PROVE  ~(L[i].kind = "F" /\ L[j].kind = "D")
      <3>1. CASE i \in 2..d - 1
        BY <2>10, <3>1
      <3>2. CASE i \in d..N
        <4>1. j \in d..N
          BY <1>1, <2>3, <2>14, <3>2
        <4> QED BY <2>11, <3>2, <4>1
      <3> QED BY <2>13, <3>1, <3>2
    <2>15. ASSUME NEW i \in 2..N, NEW j \in 2..N, i < j, how.method \in 1..3, j # N,
                  L[i].kind = L[j].kind,
                  Rankable(how, {L[k] : k \in {k \in 2..N - 1 : Alike(how, L[i], L[k])}})
           PROVE  ~OutOfOrder(how, L[i], L[j])
      <3> DEFINE W == {L[k] : k \in {k \in 2..N - 1 : Alike(how, L[i], L[k])}}
      <3>0. \A X : X \subseteq W => Rankable(how, X)
        <4>1. Rankable(how, W)
          BY <2>15
        <4> HIDE DEF W
        <4> QED BY <4>1 DEF Rankable, Ranked
      <3>1. CASE i \in 2..d - 1
        <4>1. d < N \/ d = N
          BY <1>1, <2>3
        <4>2. j \notin d..N
          <5> SUFFICES ASSUME j \in d..N PROVE FALSE
            OBVIOUS
          <5>1. d < N
            BY <1>1, <2>3, <2>15
          <5> QED BY <2>10, <2>11, <2>12, <2>15, <3>1, <5>1
        <4>3. j \in 2..d - 1
          BY <2>13, <4>2
        <4>4. \A k \in 2..d - 1 : k \in 2..N - 1
          BY <1>1, <2>3
        <4>5. {m[k] : k \in 2..d - 1} \subseteq W
          BY <2>10, <3>1, <4>4 DEF Alike
        <4> HIDE DEF W
        <4>6. Rankable(how, Held(g, 2, d - 2))
          BY <2>8, <2>9, <3>0, <4>5 DEF Held
        <4> QED BY <2>4, <2>10, <2>15, <3>1, <4>3, <4>6 DEF InOrder
      <3>2. CASE i \in d..N
        <4>1. i \in d..N - 1 /\ j \in d..N - 1
          BY <1>1, <2>3, <2>15, <3>2
        <4>2. \A k \in d..N - 1 : k \in 2..N - 1 /\ k \in d..N
          BY <1>1, <2>3
        <4>3. {L[k] : k \in d..N - 1} \subseteq W
          BY <2>11, <3>2, <4>2 DEF Alike
        <4> HIDE DEF W
        <4>4. Rankable(how, Held(m, d, N - d))
          BY <2>8, <2>9, <3>0, <4>3 DEF Held
        <4> QED BY <2>6, <2>15, <4>1, <4>4 DEF InOrder
      <3> QED BY <2>13, <3>1, <3>2
    <2> QED BY <1>4, <2>7, <2>14, <2>15 DEF SortedButLast, Rankable, Alike, L
  <1> QED BY <1>1, <1>2, <1>3, <1>4
-----------------------------------------------------------------------------
(* The records of a list, with and without their marks.                    *)
LEMMA MarkIs ==
  ASSUME NEW r \in Record, NEW c \in BOOLEAN, NEW q, q = [r EXCEPT !.mark = c]
  PROVE  /\ q \in Record /\ q.name = r.name /\ q.kind = r.kind /\ q.size = r.size
         /\ q.mark = c
         /\ q = [name |-> r.name, kind |-> r.kind, size |-> r.size, mark |-> c]
  <1> DEFINE g == [name |-> r.name, kind |-> r.kind, size |-> r.size, mark |-> c]
  <1>1. q = g
    BY DEF Record
  <1>2. g \in Record /\ g.name = r.name /\ g.kind = r.kind /\ g.size = r.size /\ g.mark = c
    BY DEF Record
  <1> QED BY <1>1, <1>2

LEMMA UnmarkIs ==
  ASSUME NEW r \in Record
  PROVE  /\ [r EXCEPT !.mark = FALSE] \in Unmarked
         /\ \A q \in Record : q.name = r.name /\ q.kind = r.kind /\ q.size = r.size
              => [q EXCEPT !.mark = FALSE] = [r EXCEPT !.mark = FALSE]
         /\ r \in Unmarked => [r EXCEPT !.mark = FALSE] = r
  <1>1. ASSUME NEW q \in Record, NEW c \in BOOLEAN
        PROVE  [q EXCEPT !.mark = c]
                 = [name |-> q.name, kind |-> q.kind, size |-> q.size, mark |-> c]
    BY MarkIs
  <1>2. r = [name |-> r.name, kind |-> r.kind, size |-> r.size, mark |-> r.mark]
    BY DEF Record
  <1>3. [r EXCEPT !.mark = FALSE] \in Unmarked
    <2> DEFINE c == FALSE
               q == [r EXCEPT !.mark = c]
    <2>1. c \in BOOLEAN
      OBVIOUS
    <2>2. q \in Record /\ q.mark = c
      <3> HIDE DEF c
      <3> QED BY <2>1, MarkIs
    <2> QED BY <2>2 DEF Unmarked
  <1>4. ASSUME NEW q \in Record, q.name = r.name, q.kind = r.kind, q.size = r.size
        PROVE  [q EXCEPT !.mark = FALSE] = [r EXCEPT !.mark = FALSE]
    <2> DEFINE c == FALSE
    <2>2. c \in BOOLEAN
      OBVIOUS
    <2> HIDE DEF c
    <2>1. [q EXCEPT !.mark = c] = [r EXCEPT !.mark = c]
      BY <1>1, <1>4, <2>2
    <2> QED BY <2>1 DEF c
  <1>5. r \in Unmarked => [r EXCEPT !.mark = FALSE] = r
    <2> SUFFICES ASSUME r \in Unmarked PROVE [r EXCEPT !.mark = FALSE] = r
      OBVIOUS
    <2> DEFINE c == FALSE
    <2>1. r.mark \in BOOLEAN /\ ~r.mark
      BY DEF Unmarked, Record
    <2>2. r.mark = c /\ c \in BOOLEAN
      BY <2>1
    <2> HIDE DEF c
    <2>3. [r EXCEPT !.mark = c] = r
      BY <1>1, <1>2, <2>2
    <2> QED BY <2>3 DEF c
  <1> QED BY <1>3, <1>4, <1>5

LEMMA PlainIs ==
  ASSUME NEW l \in Seq(Record)
  PROVE  /\ Plain(l) \in Seq(Unmarked) /\ Len(Plain(l)) = Len(l)
         /\ l \in Seq(Unmarked) => Plain(l) = l
  <1> DEFINE n == Len(l)
  <1>1. n \in Nat /\ DOMAIN l = 1..n /\ \A i \in 1..n : l[i] \in Record
    OBVIOUS
  <1>2. Plain(l) = [i \in 1..n |-> [l[i] EXCEPT !.mark = FALSE]]
    BY <1>1 DEF Plain
  <1>3. \A i \in 1..n : [l[i] EXCEPT !.mark = FALSE] \in Unmarked
    BY <1>1, UnmarkIs
  <1>4. l \in Seq(Unmarked) => Plain(l) = l
    <2> SUFFICES ASSUME l \in Seq(Unmarked) PROVE Plain(l) = l
      OBVIOUS
    <2>1. \A i \in 1..n : l[i] \in Unmarked
      BY <1>1
    <2>2. \A i \in 1..n : [l[i] EXCEPT !.mark = FALSE] = l[i]
      BY <1>1, <2>1, UnmarkIs
    <2>3. l = [i \in 1..n |-> l[i]]
      BY <1>1
    <2> QED BY <1>2, <2>2, <2>3
  <1>5. Plain(l) \in [1..n -> Unmarked]
    BY <1>2, <1>3
  <1> QED BY <1>1, <1>4, <1>5

(* Lists that differ in marks only.                                        *)
LEMMA PlainMarked ==
  ASSUME NEW l \in Seq(Record), NEW m \in Seq(Record), Len(m) = Len(l),
         \A i \in 1..Len(l) : /\ m[i].name = l[i].name /\ m[i].kind = l[i].kind
                              /\ m[i].size = l[i].size
  PROVE  Plain(m) = Plain(l)
  <1> DEFINE n == Len(l)
  <1>1. /\ DOMAIN l = 1..n /\ DOMAIN m = 1..n
        /\ \A i \in 1..n : l[i] \in Record /\ m[i] \in Record
    OBVIOUS
  <1> HIDE DEF n
  <1>2. \A i \in 1..n : [m[i] EXCEPT !.mark = FALSE] = [l[i] EXCEPT !.mark = FALSE]
    BY <1>1, UnmarkIs DEF n
  <1>3. /\ Plain(m) = [i \in 1..n |-> [m[i] EXCEPT !.mark = FALSE]]
        /\ Plain(l) = [i \in 1..n |-> [l[i] EXCEPT !.mark = FALSE]]
    BY <1>1 DEF Plain
  <1> QED BY <1>2, <1>3

(* A mark does not change the order.                                       *)
LEMMA SortedPlain ==
  ASSUME NEW l \in Seq(Record), NEW how, SortedButLast(Plain(l), how)
  PROVE  SortedButLast(l, how)
  <1> DEFINE m == Plain(l)
             n == Len(l)
  <1>1. /\ n \in Nat /\ Len(m) = n
        /\ \A i \in 1..n : m[i].name = l[i].name /\ m[i].kind = l[i].kind /\ m[i].size = l[i].size
    <2>1. n \in Nat /\ Len(m) = n /\ DOMAIN l = 1..n /\ \A i \in 1..n : l[i] \in Record
      BY PlainIs
    <2>2. m = [i \in 1..n |-> [l[i] EXCEPT !.mark = FALSE]]
      BY <2>1 DEF Plain
    <2>3. \A i \in 1..n : m[i] = [l[i] EXCEPT !.mark = FALSE]
      BY <2>2
    <2> HIDE DEF m, n
    <2> QED BY <2>1, <2>3 DEF Record
  <1> HIDE DEF m, n
  <1>2. /\ 2..n \subseteq 1..n /\ 2..n - 1 \subseteq 1..n
    BY <1>1
  <1>3. \A i, j \in 1..n : /\ Greater(how.method, m[i], m[j]) <=> Greater(how.method, l[i], l[j])
                           /\ Alike(how, m[i], m[j]) <=> Alike(how, l[i], l[j])
                           /\ OutOfOrder(how, m[i], m[j]) <=> OutOfOrder(how, l[i], l[j])
    <2> SUFFICES ASSUME NEW i \in 1..n, NEW j \in 1..n
                 PROVE  /\ Greater(how.method, m[i], m[j]) <=> Greater(how.method, l[i], l[j])
                        /\ Alike(how, m[i], m[j]) <=> Alike(how, l[i], l[j])
                        /\ OutOfOrder(how, m[i], m[j]) <=> OutOfOrder(how, l[i], l[j])
      OBVIOUS
    <2>1. /\ Greater(how.method, m[i], m[j]) = Greater(how.method, l[i], l[j])
          /\ Greater(how.method, m[j], m[i]) = Greater(how.method, l[j], l[i])
      BY <1>1 DEF Greater
    <2>2. Alike(how, m[i], m[j]) <=> Alike(how, l[i], l[j])
      BY <1>1 DEF Alike
    <2> QED BY <2>1, <2>2 DEF OutOfOrder
  <1>4. ASSUME NEW K, K \subseteq 1..n
        PROVE  Ranked(how.method, {m[k] : k \in K}) <=> Ranked(how.method, {l[k] : k \in K})
    <2> DEFINE R(s) == \A x, y, z \in K : Greater(how.method, s[x], s[z])
                          => Greater(how.method, s[x], s[y]) \/ Greater(how.method, s[y], s[z])
    <2>1. \A s : Ranked(how.method, {s[k] : k \in K}) <=> R(s)
      BY DEF Ranked
    <2>2. R(m) <=> R(l)
      BY <1>3, <1>4
    <2> QED BY <2>1, <2>2
  <1>5. ASSUME NEW i \in 2..n, NEW j \in 2..n, i < j
        PROVE  /\ how.group => ~(l[i].kind = "F" /\ l[j].kind = "D")
               /\ \/ how.method \notin 1..3 \/ j = n \/ ~Alike(how, l[i], l[j])
                  \/ /\ Descends(how)
                     /\ LET with == {k \in 2..n - 1 : Alike(how, l[i], l[k])}
                        IN  ~Ranked(how.method, {l[k] : k \in with})
                  \/ ~OutOfOrder(how, l[i], l[j])
    <2> DEFINE K == {k \in 2..n - 1 : Alike(how, l[i], l[k])}
    <2>1. {k \in 2..n - 1 : Alike(how, m[i], m[k])} = K
      BY <1>2, <1>3
    <2>2. K \subseteq 1..n
      BY <1>2
    <2>3. /\ how.group => ~(m[i].kind = "F" /\ m[j].kind = "D")
          /\ \/ how.method \notin 1..3 \/ j = n \/ ~Alike(how, m[i], m[j])
             \/ /\ Descends(how)
                /\ ~Ranked(how.method, {m[k] : k \in {k \in 2..n - 1 : Alike(how, m[i], m[k])}})
             \/ ~OutOfOrder(how, m[i], m[j])
      BY <1>1, <1>5 DEF SortedButLast, m
    <2>4. i \in 1..n /\ j \in 1..n
      BY <1>2
    <2>5. Ranked(how.method, {m[k] : k \in K}) <=> Ranked(how.method, {l[k] : k \in K})
      BY <1>4, <2>2
    <2> HIDE DEF K
    <2> QED BY <1>1, <1>3, <2>1, <2>3, <2>4, <2>5 DEF K
  <1> QED BY <1>5 DEF SortedButLast, n

(* Every list of a panel begins with a record.                             *)
Listed(p, x) ==
  /\ Plain(p.list) \in Arrangements(Unmarked, <<UpRecord>> \o x.records)
  /\ SortedButLast(Plain(p.list), x.how)

(* What a list is read into: directories and files, or records of one kind *)
(* of the network.                                                         *)
LocalEntries == Of({"D", "F"})
Listings == UNION {Seq(Of(kinds)) : kinds \in {{"D", "F"}, {"W"}, {"H"}, {"S"}}}

LEMMA OfIs ==
  ASSUME NEW kinds, NEW a \in Seq(Of(kinds))
  PROVE  /\ a \in Seq(Unmarked) /\ \A i \in 1..Len(a) : a[i].kind \in kinds
         /\ <<>> \in Seq(Of(kinds))
  <1>1. Of(kinds) \subseteq Unmarked
    BY DEF Of
  <1>2. \A i \in 1..Len(a) : a[i] \in Of(kinds)
    OBVIOUS
  <1>3. a \in Seq(Unmarked)
    BY <1>1
  <1>4. \A i \in 1..Len(a) : a[i].kind \in kinds
    BY <1>2 DEF Of
  <1> QED BY <1>3, <1>4

LEMMA ListingIs ==
  /\ \A kinds \in {{"D", "F"}, {"W"}, {"H"}, {"S"}} : Seq(Of(kinds)) \subseteq Listings
  /\ Seq(LocalEntries) \subseteq Listings /\ <<>> \in Listings
  /\ LocalEntries \subseteq Unmarked
  <1>1. \A kinds \in {{"D", "F"}, {"W"}, {"H"}, {"S"}} : Seq(Of(kinds)) \subseteq Listings
    BY DEF Listings
  <1>2. <<>> \in Seq(LocalEntries)
    OBVIOUS
  <1>3. LocalEntries \subseteq Unmarked
    BY DEF LocalEntries, Of
  <1> QED BY <1>1, <1>2, <1>3 DEF LocalEntries

LEMMA ListingSorted ==
  ASSUME NEW a \in Listings
  PROVE  a \in Seq(Unmarked) /\ OneSort(<<UpRecord>> \o a)
  <1>1. PICK kinds \in {{"D", "F"}, {"W"}, {"H"}, {"S"}} : a \in Seq(Of(kinds))
    BY DEF Listings
  <1>2. a \in Seq(Unmarked) /\ \A i \in 1..Len(a) : a[i].kind \in kinds
    BY <1>1, OfIs
  <1> DEFINE u == <<UpRecord>> \o a
  <1>3. Len(u) = Len(a) + 1 /\ \A i \in 2..Len(u) : i - 1 \in 1..Len(a) /\ u[i] = a[i - 1]
    BY <1>2
  <1> HIDE DEF u
  <1>4. \A i \in 2..Len(u) : u[i].kind \in kinds
    BY <1>2, <1>3
  <1>5. ASSUME kinds = {"D", "F"}
        PROVE  OneSort(u)
    <2>1. \A i \in 2..Len(u) : u[i].kind \in {"D", "F"}
      BY <1>4, <1>5
    <2> QED BY <2>1 DEF OneSort
  <1>6. ASSUME NEW k, kinds = {k}, k # "D"
        PROVE  OneSort(u)
    <2>1. \A i \in 2..Len(u) : u[i].kind = k
      BY <1>4, <1>6
    <2> QED BY <1>6, <2>1 DEF OneSort
  <1> QED BY <1>1, <1>2, <1>5, <1>6 DEF u

LEMMA UpIsRecord == UpRecord \in Unmarked
  <1> DEFINE c == FALSE
             g == [name |-> "..", kind |-> "D", size |-> 0, mark |-> c]
  <1>1. c \in BOOLEAN /\ ~c
    OBVIOUS
  <1>2. UpRecord = g
    BY DEF UpRecord
  <1> HIDE DEF c
  <1>3. g \in Record /\ g.mark = c
    <2>1. c \in BOOLEAN
      BY <1>1
    <2>2. ".." \in AllNames
      BY CommanderAssumption
    <2>3. g.name = ".." /\ g.kind = "D" /\ g.size = 0 /\ g.mark = c
      OBVIOUS
    <2> QED BY <2>1, <2>2 DEF Record
  <1> QED BY <1>1, <1>2, <1>3 DEF Unmarked

(* RinitList: whatever was read and however it is sorted.                  *)
LEMMA InitListIs ==
  ASSUME NEW answer \in Listings \cup {Refused}, NEW how
  PROVE  LET l == InitList(answer, how)
         IN  /\ l \in Seq(Record) /\ Len(l) >= 1 /\ Answered(answer) \in Seq(Unmarked)
             /\ Plain(l) \in Arrangements(Unmarked, <<UpRecord>> \o Answered(answer))
             /\ SortedButLast(Plain(l), how)
  <1> DEFINE a == Answered(answer)
             u == <<UpRecord>> \o a
             l == InitList(answer, how)
  <1>1. a \in Seq(Unmarked) /\ OneSort(u)
    <2>1. a \in Listings
      BY ListingIs DEF Answered
    <2> HIDE DEF a
    <2> QED BY <2>1, ListingSorted
  <1>2. u \in Seq(Unmarked) /\ Len(u) = Len(a) + 1
    BY <1>1, UpIsRecord
  <1>3. l \in Arrangements(Unmarked, u) /\ SortedButLast(l, how)
    <2>1. l = SortList(u, how)
      BY DEF InitList
    <2>2. \A r \in Unmarked : r.size \in Nat
      BY DEF Unmarked, Record
    <2> HIDE DEF u, l
    <2> QED BY <1>1, <1>2, <2>1, <2>2, SortIs, SortSorts
  <1> HIDE DEF u, l, a
  <1>4. l \in Seq(Unmarked) /\ Len(l) = Len(u)
    BY <1>3 DEF Arrangements, Rearranged
  <1>5. Unmarked \subseteq Record
    BY DEF Unmarked
  <1>6. l \in Seq(Record)
    BY <1>4, <1>5
  <1>7. Plain(l) = l
    BY <1>4, <1>6, PlainIs
  <1>8. Len(l) >= 1
    BY <1>1, <1>2, <1>4
  <1> QED BY <1>1, <1>3, <1>6, <1>7, <1>8 DEF u, a, l
-----------------------------------------------------------------------------
(* What a panel keeps: its list is what was read, marked or not, and its   *)
(* cursor is on a record in the window unless it went astray.              *)
PanelHolds(p, a, x) ==
  /\ p \in Panels(Record) /\ Count(p) >= 1
  /\ a \in BOOLEAN /\ (Rows > 1 => a \/ InWindow(p))
  /\ x = [from |-> x.from, records |-> x.records, how |-> x.how, stale |-> x.stale]
  /\ x.records \in Seq(Unmarked) /\ Listed(p, x)

(* The cursor at the top.                                                  *)
LEMMA HomeIs ==
  ASSUME NEW p \in Panels(Record), Count(p) >= 1
  PROVE  Home(p) \in Panels(Record) /\ Home(p).list = p.list /\ InWindow(Home(p))
  <1>1. Rows \in Nat /\ Rows > 0 /\ Count(p) \in Nat
    BY PanelType
  <1>2. Home(p) = Moved(p, 0, 0)
    BY DEF Home, Moved
  <1>3. Moved(p, 0, 0) \in Panels(Record) /\ InWindow(Moved(p, 0, 0))
    BY <1>1, MovedInside
  <1>4. Moved(p, 0, 0).list = p.list
    BY DEF Moved, Panels
  <1> QED BY <1>2, <1>3, <1>4

(* RsetSelect: a cursor that is put on a record by its name.               *)
LEMMA SelectIs ==
  ASSUME NEW p \in Panels(Record), Count(p) >= 1, NEW name, NEW a \in BOOLEAN
  PROVE  LET q == Select(p, name)
         IN  /\ q \in Panels(Record) /\ q.list = p.list
             /\ Rows > 1 =>
                  \/ name \in Names(p) /\ BelowRow(p, name)
                  \/ name \notin Names(p) \cup {""} /\ (a \/ At(p) > 0)
                  \/ InWindow(q)
             /\ name \in Names(p) => At(q) \in 0..Count(q) - 1 /\ Current(q).name = name
  <1> DEFINE q == Select(p, name)
             n == Count(p)
             hits == {i \in 1..n : p.list[i].name = name}
             first == CHOOSE i \in hits : \A j \in hits : i <= j
  <1>1. /\ p.first \in Nat /\ p.pos \in Nat /\ n \in Nat /\ Rows \in Nat /\ Rows > 0
        /\ DOMAIN p.list = 1..n
    BY PanelType DEF Panels, Count
  <1>2. \A i \in 1..n : p.list[i] \in Record /\ p.list[i].name # ""
    <2>1. \A i \in 1..n : p.list[i] \in Record
      BY <1>1 DEF Panels, Count
    <2>2. \A i \in 1..n : p.list[i].name \in AllNames
      BY <2>1 DEF Record
    <2> QED BY <2>1, <2>2, CommanderAssumption
  <1>3. Names(p) = {p.list[i].name : i \in 1..n}
    BY <1>1 DEF Names
  <1>4. "" \notin Names(p) /\ (name \in Names(p) <=> hits # {})
    BY <1>2, <1>3
  <1>5. q = IF name = "" THEN Home(p) ELSE IF hits = {} THEN p ELSE PutOn(p, first - 1)
    BY DEF Select
  <1>6. CASE name = ""
    BY <1>4, <1>5, <1>6, HomeIs
  <1>7. CASE name # "" /\ hits = {}
    <2>1. q = p /\ name \notin Names(p) \cup {""}
      BY <1>4, <1>5, <1>7
    <2>2. At(p) > 0 \/ InWindow(p)
      BY <1>1 DEF At, InWindow, InList
    <2> QED BY <2>1, <2>2
  <1>8. CASE name # "" /\ hits # {}
    <2>1. first \in hits /\ \A j \in hits : first <= j
      <3>1. hits \subseteq Nat
        OBVIOUS
      <3>2. \E i \in hits : \A j \in hits : i <= j
        <4> HIDE DEF hits
        <4> QED BY <1>8, <3>1, LeastNumber
      <3> HIDE DEF hits
      <3> QED BY <3>2
    <2> HIDE DEF first
    <2>2. /\ first \in 1..n /\ first - 1 \in 0..n - 1 /\ p.list[first].name = name
          /\ \A j \in 1..n : j < first => p.list[j].name # name
      <3>1. first \in 1..n /\ p.list[first].name = name
        BY <2>1
      <3>2. \A j \in 1..n : j < first => p.list[j].name # name
        BY <2>1, <3>1
      <3> QED BY <1>1, <3>1, <3>2
    <2> DEFINE i == first - 1
    <2>3. q = PutOn(p, i) /\ i \in 0..n - 1 /\ i + 1 = first
      <3>1. i \in 0..n - 1 /\ i + 1 = first
        BY <1>1, <2>2
      <3>2. q = PutOn(p, i)
        <4> HIDE DEF hits, q
        <4> QED BY <1>5, <1>8 DEF first
      <3> QED BY <3>1, <3>2
    <2> HIDE DEF i, q
    <2>4. /\ q \in Panels(Record) /\ q.list = p.list /\ At(q) = i
          /\ (i # Rows /\ Rows > 1) => InWindow(q)
      BY <2>3, PutOnTheRecord
    <2>5. i = Rows => BelowRow(p, name)
      <3> SUFFICES ASSUME i = Rows PROVE BelowRow(p, name)
        OBVIOUS
      <3>1. n > Rows /\ Rows + 1 = first
        BY <1>1, <2>2, <2>3
      <3>2. \A j \in 1..Rows : j \in 1..n /\ j < first
        BY <1>1, <3>1
      <3> QED BY <2>2, <3>1, <3>2 DEF BelowRow
    <2>6. Current(q) = p.list[first] /\ Count(q) = n
      BY <2>3, <2>4 DEF Current, Count
    <2> QED BY <1>4, <1>8, <2>2, <2>3, <2>4, <2>5, <2>6 DEF q
  <1> QED BY <1>6, <1>7, <1>8
-----------------------------------------------------------------------------
(* Both panels.                                                            *)
PanelsHold ==
  /\ panel \in [Sides -> Panels(Record)] /\ astray \in [Sides -> BOOLEAN]
  /\ DOMAIN shown = Sides /\ shown = [s \in Sides |-> shown[s]]
  /\ \A s \in Sides : PanelHolds(panel[s], astray[s], shown[s])

(* Who is lost has gone astray before.                                     *)
LostHolds == Rows > 1 /\ ended = "lost" => \E s \in Sides : astray[s]

(* A panel whose cursor is in its window can be painted.                   *)
LEMMA PanelPaintedIs ==
  ASSUME NEW p \in Panels(Record), InWindow(p)
  PROVE  Painted(p)
  <1>1. p.first \in Nat /\ p.pos \in Nat /\ Count(p) \in Nat /\ Rows \in Nat
    BY PanelType
  <1> QED BY <1>1 DEF Painted, InWindow, InList, At

(* A panel is changed and painted.                                         *)
LEMMA SetPanelStep ==
  ASSUME PanelsHold, LostHolds, ended = "no", NEW side \in Sides, NEW p, SetPanel(side, p),
         NEW a, NEW x, PanelHolds(p, a, x),
         astray' = [astray EXCEPT ![side] = a], shown' = [shown EXCEPT ![side] = x]
  PROVE  PanelsHold' /\ LostHolds' /\ (ended' = "no" \/ ended' = "lost")
  <1>1. /\ panel' = [panel EXCEPT ![side] = p]
        /\ ended' = IF Painted(p) THEN ended ELSE "lost"
    BY DEF SetPanel
  <1>2. p \in Panels(Record) /\ a \in BOOLEAN
    BY DEF PanelHolds
  <1>3. panel' \in [Sides -> Panels(Record)] /\ astray' \in [Sides -> BOOLEAN]
    BY <1>1, <1>2 DEF PanelsHold
  <1>4. DOMAIN shown' = Sides /\ shown' = [s \in Sides |-> shown'[s]]
    BY DEF PanelsHold
  <1>5. \A s \in Sides : /\ panel'[s] = IF s = side THEN p ELSE panel[s]
                         /\ astray'[s] = IF s = side THEN a ELSE astray[s]
                         /\ shown'[s] = IF s = side THEN x ELSE shown[s]
    BY <1>1, <1>2 DEF PanelsHold
  <1>6. ASSUME NEW s \in Sides
        PROVE  PanelHolds(panel'[s], astray'[s], shown'[s])
    <2>1. CASE s = side
      BY <1>5, <2>1
    <2>2. CASE s # side
      BY <1>5, <2>2 DEF PanelsHold
    <2> QED BY <2>1, <2>2
  <1>7. LostHolds'
    <2> SUFFICES ASSUME Rows > 1, ended' = "lost" PROVE astray'[side]
      BY DEF LostHolds
    <2>1. ~Painted(p)
      BY <1>1
    <2>2. ~InWindow(p)
      BY <1>2, <2>1, PanelPaintedIs
    <2> QED BY <1>5, <2>2 DEF PanelHolds
  <1>8. PanelsHold'
    BY <1>3, <1>4, <1>6 DEF PanelsHold, PanelHolds, Listed, Panels, Count, InWindow, InList, At
  <1> QED BY <1>1, <1>7, <1>8

(* A panel gets a new list.                                                *)
LEMMA NewListStep ==
  ASSUME PanelsHold, LostHolds, ended = "no", NEW side \in Sides, NEW old \in Panels(Record),
         NEW how, NEW answer \in Listings \cup {Refused}, NEW name, NEW from, NEW still,
         NewList(side, old, how, answer, name, from, still)
  PROVE  /\ PanelsHold' /\ LostHolds' /\ (ended' = "no" \/ ended' = "lost")
         /\ shown'[side].from = from /\ shown'[side].stale = still
         /\ shown'[side].records = Answered(answer)
         /\ \A s \in Sides \ {side} : shown'[s] = shown[s]
         /\ name \in Names(panel'[side]) => Current(panel'[side]).name = name
  <1> DEFINE l == InitList(answer, how)
             p == [old EXCEPT !.list = l]
             g == [list |-> l, first |-> old.first, pos |-> old.pos]
             q == Select(p, name)
             a == \/ name \in Names(p) /\ BelowRow(p, name)
                  \/ name \notin Names(p) \cup {""} /\ (astray[side] \/ At(p) > 0)
             x == [from |-> from, records |-> Answered(answer), how |-> how, stale |-> still]
  <1>1. /\ SetPanel(side, q) /\ astray' = [astray EXCEPT ![side] = a]
        /\ shown' = [shown EXCEPT ![side] = x]
    BY DEF NewList
  <1>2. a \in BOOLEAN
    OBVIOUS
  <1>3. /\ l \in Seq(Record) /\ Len(l) >= 1 /\ Answered(answer) \in Seq(Unmarked)
        /\ Plain(l) \in Arrangements(Unmarked, <<UpRecord>> \o Answered(answer))
        /\ SortedButLast(Plain(l), how)
    BY InitListIs
  <1> HIDE DEF l
  <1>4. p = g
    BY DEF Panels
  <1>5. g \in Panels(Record) /\ g.list = l
    BY <1>3 DEF Panels
  <1> HIDE DEF g
  <1>6. p \in Panels(Record) /\ p.list = l /\ Count(p) >= 1
    BY <1>3, <1>4, <1>5 DEF Count
  <1> HIDE DEF p
  <1>7. /\ q \in Panels(Record) /\ q.list = p.list
        /\ Rows > 1 => a \/ InWindow(q)
        /\ name \in Names(p) => Current(q).name = name
    <2>1. astray[side] \in BOOLEAN
      BY DEF PanelsHold
    <2> QED BY <1>6, <2>1, SelectIs
  <1> HIDE DEF q, a
  <1>8. /\ x.from = from /\ x.records = Answered(answer) /\ x.how = how /\ x.stale = still
        /\ x = [from |-> x.from, records |-> x.records, how |-> x.how, stale |-> x.stale]
    OBVIOUS
  <1> HIDE DEF x
  <1>9. PanelHolds(q, a, x)
    BY <1>2, <1>3, <1>6, <1>7, <1>8 DEF PanelHolds, Listed, Count
  <1>10. PanelsHold' /\ LostHolds' /\ (ended' = "no" \/ ended' = "lost")
    BY <1>1, <1>9, SetPanelStep
  <1>11. panel'[side] = q /\ shown'[side] = x /\ \A s \in Sides \ {side} : shown'[s] = shown[s]
    BY <1>1 DEF PanelsHold, SetPanel
  <1>12. Names(q) = Names(p)
    BY <1>7 DEF Names
  <1> QED BY <1>7, <1>8, <1>10, <1>11, <1>12
-----------------------------------------------------------------------------
(* The keys.                                                               *)

(* Wherever the cursor is, a key that moves it keeps the list.             *)
LEMMA KeysKeep ==
  ASSUME NEW p \in Panels(Record), Count(p) >= 1
  PROVE  \A q \in {Up(p), Down(p), End(p), PageUp(p), PageDown(p)} :
           q \in Panels(Record) /\ q.list = p.list
  <1> DEFINE c == Count(p)
             f == p.first
             i == p.pos
             Good(q) == q \in Panels(Record) /\ q.list = p.list
  <1>1. f \in Nat /\ i \in Nat /\ c \in Nat /\ c >= 1 /\ Rows \in Nat /\ Rows > 0
    BY PanelType
  <1>2. ASSUME NEW a \in Nat, NEW b \in Nat
        PROVE  Good(Moved(p, a, b))
    BY DEF Moved, Panels
  <1>3. p = Moved(p, f, i)
    BY DEF Moved, Panels
  <1>4. \A a : /\ [p EXCEPT !.first = a] = Moved(p, a, i)
               /\ [p EXCEPT !.pos = a] = Moved(p, f, a)
    BY DEF Moved, Panels
  <1>5. \A a, b : [p EXCEPT !.first = a, !.pos = b] = Moved(p, a, b)
    BY DEF Moved
  <1>6. At(p) = f + i
    BY DEF At
  <1> HIDE DEF c, f, i, Good
  <1>7. Good(p) /\ Good(Home(p))
    <2>1. Home(p) = Moved(p, 0, 0)
      BY <1>5 DEF Home
    <2> QED BY <1>1, <1>2, <1>3, <2>1
  <1>8. c >= Rows => Good(LastPage(p))
    <2>1. LastPage(p) = Moved(p, c - Rows, Rows - 1)
      BY <1>5 DEF LastPage, c
    <2>2. c >= Rows => c - Rows \in Nat /\ Rows - 1 \in Nat
      BY <1>1
    <2> QED BY <1>2, <2>1, <2>2
  <1>9. Good(Moved(p, f, c - 1))
    <2>1. c - 1 \in Nat
      BY <1>1
    <2> QED BY <1>1, <1>2, <2>1
  <1>10. Good(Up(p))
    <2>1. Up(p) = IF i > 0 THEN Moved(p, f, i - 1)
                  ELSE IF f + i > 0 THEN Moved(p, f - 1, i) ELSE p
      BY <1>4, <1>6 DEF Up, i, f
    <2>2. /\ i > 0 => i - 1 \in Nat
          /\ ~(i > 0) /\ f + i > 0 => f - 1 \in Nat
      BY <1>1
    <2> QED BY <1>1, <1>2, <1>7, <2>1, <2>2
  <1>11. Good(Down(p))
    <2>1. Down(p) = IF i + 1 < Rows
                    THEN IF i + 1 < c THEN Moved(p, f, i + 1) ELSE p
                    ELSE IF f + i + 1 < c THEN Moved(p, f + 1, i) ELSE p
      BY <1>4, <1>6 DEF Down, i, f, c
    <2>2. i + 1 \in Nat /\ f + 1 \in Nat
      BY <1>1
    <2> QED BY <1>1, <1>2, <1>7, <2>1, <2>2
  <1>12. Good(End(p))
    <2>1. End(p) = IF c + 1 > Rows THEN LastPage(p) ELSE Moved(p, f, c - 1)
      BY <1>4 DEF End, c
    <2> QED BY <1>1, <1>8, <1>9, <2>1
  <1>13. Good(PageUp(p))
    <2>1. PageUp(p) = IF f - Rows >= 0 THEN Moved(p, f - Rows, i) ELSE Home(p)
      BY <1>4 DEF PageUp, f
    <2>2. f - Rows >= 0 => f - Rows \in Nat
      BY <1>1
    <2> QED BY <1>1, <1>2, <1>7, <2>1, <2>2
  <1>14. Good(PageDown(p))
    <2>1. PageDown(p) = IF f + i + 1 >= c THEN p
                        ELSE IF c < Rows THEN Moved(p, f, c - 1)
                        ELSE IF f + Rows + Rows > c THEN LastPage(p)
                        ELSE Moved(p, f + Rows, i)
      BY <1>4, <1>6 DEF PageDown, f, c
    <2>2. f + Rows \in Nat
      BY <1>1
    <2> QED BY <1>1, <1>2, <1>7, <1>8, <1>9, <2>1, <2>2
  <1> QED BY <1>10, <1>11, <1>12, <1>13, <1>14 DEF Good

(* The keys that mark change nothing of a list but its marks.              *)
Remarked(p, q) ==
  /\ q = [list |-> q.list, first |-> p.first, pos |-> p.pos]
  /\ q.list \in Seq(Record) /\ Len(q.list) = Len(p.list)
  /\ Plain(q.list) = Plain(p.list)

LEMMA RemarkedIs ==
  ASSUME NEW p \in Panels(Record), NEW q, Remarked(p, q)
  PROVE  /\ q \in Panels(Record) /\ Count(q) = Count(p)
         /\ Plain(q.list) = Plain(p.list)
         /\ InWindow(p) => InWindow(q)
  <1>1. q.first = p.first /\ q.pos = p.pos /\ q.list \in Seq(Record)
    BY DEF Remarked
  <1>2. q \in Panels(Record)
    BY <1>1 DEF Remarked, Panels
  <1>3. Count(q) = Count(p) /\ Plain(q.list) = Plain(p.list)
    BY DEF Remarked, Count
  <1> QED BY <1>1, <1>2, <1>3 DEF InWindow, InList, At

LEMMA RemarkList ==
  ASSUME NEW p \in Panels(Record), NEW c \in [1..Count(p) -> BOOLEAN], NEW q,
         q = [p EXCEPT !.list = [i \in DOMAIN p.list |-> [p.list[i] EXCEPT !.mark = c[i]]]]
  PROVE  Remarked(p, q)
  <1> DEFINE n == Count(p)
             l == [i \in 1..n |-> [p.list[i] EXCEPT !.mark = c[i]]]
             g == [list |-> l, first |-> p.first, pos |-> p.pos]
  <1>1. n \in Nat /\ DOMAIN p.list = 1..n /\ p.list \in Seq(Record) /\ Len(p.list) = n
        /\ \A i \in 1..n : p.list[i] \in Record
    BY DEF Panels, Count
  <1>2. q = [p EXCEPT !.list = l]
    BY <1>1
  <1>3. \A i \in 1..n : /\ [p.list[i] EXCEPT !.mark = c[i]] \in Record
                        /\ [p.list[i] EXCEPT !.mark = c[i]].name = p.list[i].name
                        /\ [p.list[i] EXCEPT !.mark = c[i]].kind = p.list[i].kind
                        /\ [p.list[i] EXCEPT !.mark = c[i]].size = p.list[i].size
    <2> SUFFICES ASSUME NEW i \in 1..n
                 PROVE  LET r == [p.list[i] EXCEPT !.mark = c[i]]
                        IN  /\ r \in Record /\ r.name = p.list[i].name
                            /\ r.kind = p.list[i].kind /\ r.size = p.list[i].size
      OBVIOUS
    <2>1. p.list[i] \in Record /\ c[i] \in BOOLEAN
      BY <1>1
    <2> DEFINE r == [p.list[i] EXCEPT !.mark = c[i]]
    <2>2. /\ r \in Record /\ r.name = p.list[i].name
          /\ r.kind = p.list[i].kind /\ r.size = p.list[i].size
      BY <2>1, MarkIs
    <2> QED BY <2>2
  <1>4. l \in [1..n -> Record]
    BY <1>3
  <1>5. l \in Seq(Record) /\ Len(l) = n
    <2> HIDE DEF l
    <2> QED BY <1>1, <1>4
  <1>6. \A i \in 1..n : /\ l[i].name = p.list[i].name /\ l[i].kind = p.list[i].kind
                        /\ l[i].size = p.list[i].size
    BY <1>3
  <1> HIDE DEF l
  <1>7. Plain(l) = Plain(p.list)
    BY <1>1, <1>5, <1>6, PlainMarked
  <1>8. q = g
    BY <1>2 DEF Panels
  <1>9. g.list = l /\ g.first = p.first /\ g.pos = p.pos
    OBVIOUS
  <1> HIDE DEF g
  <1>10. q = [list |-> q.list, first |-> p.first, pos |-> p.pos]
    BY <1>8, <1>9 DEF g
  <1> QED BY <1>1, <1>5, <1>7, <1>8, <1>9, <1>10 DEF Remarked

(* 'm' and the insert key: the record under the cursor, and then down.     *)
LEMMA MarkKeeps ==
  ASSUME NEW p \in Panels(Record), InList(p)
  PROVE  LET q == Mark(p)
         IN  /\ q \in Panels(Record) /\ Count(q) = Count(p)
             /\ Plain(q.list) = Plain(p.list)
             /\ InWindow(p) => InWindow(q)
  <1> DEFINE n == Count(p)
             i == At(p) + 1
             m == [p EXCEPT !.list[i].mark = ~@]
             c == [j \in 1..n |-> IF j = i THEN ~p.list[j].mark ELSE p.list[j].mark]
             h == [p EXCEPT !.list =
                     [j \in DOMAIN p.list |-> [p.list[j] EXCEPT !.mark = c[j]]]]
             o == IF p.list[i].name = ".." THEN p ELSE m
  <1>1. /\ n \in Nat /\ DOMAIN p.list = 1..n /\ i \in 1..n /\ p.list \in Seq(Record)
        /\ \A j \in 1..n : p.list[j] \in Record
    BY PanelType DEF Panels, Count, At, InList
  <1>2. c \in [1..n -> BOOLEAN]
    BY <1>1 DEF Record
  <1>3. Remarked(p, h)
    <2> HIDE DEF c
    <2> QED BY <1>2, RemarkList
  <1>4. m = h
    <2> DEFINE g == [p.list[i] EXCEPT !.mark = ~p.list[i].mark]
               l == [p.list EXCEPT ![i] = g]
    <2>1. m = [p EXCEPT !.list = l]
      OBVIOUS
    <2>2. l = [j \in 1..n |-> IF j = i THEN g ELSE p.list[j]]
      BY <1>1
    <2>3. ASSUME NEW j \in 1..n
          PROVE  (IF j = i THEN g ELSE p.list[j]) = [p.list[j] EXCEPT !.mark = c[j]]
      <3>1. CASE j = i
        BY <3>1
      <3>2. CASE j # i
        <4>1. c[j] = p.list[j].mark
          BY <3>2
        <4>2. p.list[j] \in Record
          BY <1>1
        <4>3. [p.list[j] EXCEPT !.mark = p.list[j].mark] = p.list[j]
          BY <4>2 DEF Record
        <4> QED BY <3>2, <4>1, <4>3
      <3> QED BY <3>1, <3>2
    <2> HIDE DEF g, c
    <2>4. l = [j \in DOMAIN p.list |-> [p.list[j] EXCEPT !.mark = c[j]]]
      BY <1>1, <2>2, <2>3
    <2> HIDE DEF l
    <2> QED BY <2>1, <2>4
  <1> HIDE DEF h, m
  <1>5. /\ o \in Panels(Record) /\ Count(o) = n /\ Plain(o.list) = Plain(p.list)
        /\ InWindow(p) => InWindow(o)
    <2>1. /\ m \in Panels(Record) /\ Count(m) = n /\ Plain(m.list) = Plain(p.list)
          /\ InWindow(p) => InWindow(m)
      BY <1>3, <1>4, RemarkedIs
    <2> HIDE DEF n
    <2> QED BY <2>1 DEF n
  <1>6. Mark(p) = Down(o)
    BY DEF Mark, m
  <1> HIDE DEF o
  <1>7. Down(o) \in Panels(Record) /\ Down(o).list = o.list
    BY <1>1, <1>5, KeysKeep
  <1>8. InWindow(p) => InWindow(Down(o))
    BY <1>5, KeysStayInside
  <1> QED BY <1>5, <1>6, <1>7, <1>8 DEF Count

(* '+', '-' and '*': all of them.                                          *)
LEMMA MarkEachKeeps ==
  ASSUME NEW p \in Panels(Record), NEW marked \in BOOLEAN
  PROVE  \A q \in {MarkEach(p, marked), MarkOthers(p)} :
           /\ q \in Panels(Record) /\ Count(q) = Count(p)
           /\ Plain(q.list) = Plain(p.list)
           /\ InWindow(p) => InWindow(q)
  <1> DEFINE n == Count(p)
             c == [j \in 1..n |-> marked]
             d == [j \in 1..n |-> ~p.list[j].mark]
  <1>1. /\ n \in Nat /\ DOMAIN p.list = 1..n
        /\ \A j \in 1..n : p.list[j] \in Record
    BY DEF Panels, Count
  <1>2. c \in [1..n -> BOOLEAN] /\ d \in [1..n -> BOOLEAN]
    BY <1>1 DEF Record
  <1>3. MarkEach(p, marked)
          = [p EXCEPT !.list = [j \in DOMAIN p.list |-> [p.list[j] EXCEPT !.mark = c[j]]]]
    BY <1>1 DEF MarkEach
  <1>4. MarkOthers(p)
          = [p EXCEPT !.list = [j \in DOMAIN p.list |-> [p.list[j] EXCEPT !.mark = d[j]]]]
    <2>1. MarkOthers(p) = [p EXCEPT !.list =
            [j \in DOMAIN p.list |-> [p.list[j] EXCEPT !.mark = ~p.list[j].mark]]]
      BY Zenon DEF MarkOthers
    <2>2. \A j \in DOMAIN p.list : [p.list[j] EXCEPT !.mark = ~p.list[j].mark]
                                    = [p.list[j] EXCEPT !.mark = d[j]]
      BY <1>1, Zenon
    <2> QED BY <2>1, <2>2, Zenon
  <1> HIDE DEF c, d
  <1>5. Remarked(p, MarkEach(p, marked)) /\ Remarked(p, MarkOthers(p))
    BY <1>2, <1>3, <1>4, RemarkList
  <1> QED BY <1>5, RemarkedIs
-----------------------------------------------------------------------------
(* What is kept beside the panels: the local directories hold records that *)
(* are not marked, and none of them is a link, ...                         *)
LocalType(m) ==
  /\ m \in [DOMAIN m -> Seq(LocalEntries)]
  /\ DOMAIN m \subseteq NewDirs \cup DOMAIN Local
LocalsHold == dirL \in Seq(AllNames) /\ LocalType(local)

(* ... a read has one of five purposes and goes to a level, ...            *)
ReadType(r) ==
  /\ r = [why |-> r.why, at |-> r.at, to |-> r.to, name |-> r.name,
          count |-> r.count, found |-> r.found]
  /\ r.why \in {"enter", "down", "up", "refresh", "bookmark"}
  /\ r.at \in 0..3 /\ r.count \in Int /\ r.found \in BOOLEAN

(* ... the attempts that are made and those that are left are together not *)
(* more than were configured, ...                                          *)
Counts(r, n) ==
  (r.found /\ r.at # LEVEL_HOSTS) \/ (r.count >= 0 /\ n + r.count <= Retry)
ReadHolds ==
  /\ level \in 0..3 /\ tries \in 0..MaxTries
  /\ read = NotReading \/ ReadType(read)
  /\ (read # NotReading /\ Retry >= 0) => Counts(read, tries)

(* ... and the lists are of the places in the titles; the right one is not *)
(* while a list is read for which the place has changed already.  It has   *)
(* directories only if it is a list of files, so that one is entered at    *)
(* another level only from a list that was left in the panel.              *)
DirsAmong(records, l) ==
  \A i \in DOMAIN records : records[i].kind = "D" => l = LEVEL_FILES
PlacesHold ==
  /\ shown["left"].stale \/ shown["left"].from = dirL
  /\ read = NotReading \/ read.why \in {"enter", "down"} =>
       shown["right"].stale \/ shown["right"].from = <<level, place>>
  /\ DirsAmong(shown["right"].records, shown["right"].from[1])
  /\ read.why = "down" =>
       read.at = LEVEL_FILES /\ (shown["right"].stale \/ level = LEVEL_FILES)

CommanderHolds ==
  /\ PanelsHold /\ LostHolds /\ LocalsHold /\ ReadHolds /\ PlacesHold
  /\ selected \in Sides /\ ended \in {"no", "quit", "lost", "crash"}

(* A step that leaves both panels alone.                                   *)
LEMMA PanelsSame ==
  ASSUME PanelsHold, LostHolds, UNCHANGED panels,
         Rows > 1 /\ ended' = "lost" => ended = "lost" \/ \E s \in Sides : astray[s]
  PROVE  PanelsHold' /\ LostHolds'
  <1>1. panel' = panel /\ shown' = shown /\ astray' = astray
    BY DEF panels
  <1> QED BY <1>1 DEF PanelsHold, LostHolds, PanelHolds, Listed

(* A step that leaves the rest alone.                                      *)
LEMMA RestSame ==
  ASSUME LocalsHold, ReadHolds, PlacesHold
  PROVE  /\ UNCHANGED <<dirL, local>> => LocalsHold'
         /\ UNCHANGED network => ReadHolds'
         /\ UNCHANGED <<shown, dirL, network>> => PlacesHold'
  BY DEF LocalsHold, LocalType, ReadHolds, PlacesHold, ReadType, Counts, network

(* A key that moves the cursor or marks.                                   *)
LEMMA KeyStep ==
  ASSUME CommanderHolds, NEW p \in Panels(Record), Key(p),
         Count(p) = Count(Active), Plain(p.list) = Plain(Active.list),
         InWindow(Active) => InWindow(p)
  PROVE  CommanderHolds'
  <1> DEFINE s == selected
             a == astray[s]
             x == shown[s]
  <1>1. /\ PanelsHold /\ LostHolds /\ LocalsHold /\ ReadHolds /\ PlacesHold /\ s \in Sides
        /\ panel[s] = Active /\ PanelHolds(panel[s], a, x)
    BY DEF CommanderHolds, PanelsHold, Active
  <1>2. /\ ended = "no" /\ SetPanel(s, p) /\ shown' = shown /\ astray' = astray
        /\ UNCHANGED <<selected, order, dirL, local, network>>
    BY DEF Key, AnyKey
  <1>3. PanelHolds(p, a, x)
    BY <1>1 DEF PanelHolds, Listed
  <1>4. astray' = [astray EXCEPT ![s] = a] /\ shown' = [shown EXCEPT ![s] = x]
    BY <1>1, <1>2 DEF PanelsHold
  <1>5. PanelsHold' /\ LostHolds' /\ (ended' = "no" \/ ended' = "lost")
    <2> HIDE DEF s, a, x
    <2> QED BY <1>1, <1>2, <1>3, <1>4, SetPanelStep
  <1>6. LocalsHold' /\ ReadHolds' /\ PlacesHold'
    BY <1>1, <1>2, RestSame
  <1> QED BY <1>1, <1>2, <1>5, <1>6 DEF CommanderHolds

LEMMA KeysStep ==
  ASSUME CommanderHolds,
         KeyDown \/ KeyUp \/ KeyEnd \/ KeyPageUp \/ KeyPageDown
  PROVE  CommanderHolds'
  <1> DEFINE A == Active
             Good(q) == /\ q \in Panels(Record) /\ Count(q) = Count(A)
                        /\ Plain(q.list) = Plain(A.list)
                        /\ InWindow(A) => InWindow(q)
  <1>1. A \in Panels(Record) /\ Count(A) >= 1
    BY DEF CommanderHolds, PanelsHold, PanelHolds, Active
  <1>2. \A q \in {Up(A), Down(A), End(A), PageUp(A), PageDown(A)} :
          q \in Panels(Record) /\ q.list = A.list
    <2> HIDE DEF A
    <2> QED BY <1>1, KeysKeep
  <1>3. InWindow(A) =>
          \A q \in {Home(A), Up(A), Down(A), End(A), PageUp(A), PageDown(A)} : InWindow(q)
    <2> HIDE DEF A
    <2> QED BY <1>1, KeysStayInside
  <1>4. \A q \in {Up(A), Down(A), End(A), PageUp(A), PageDown(A)} : Good(q)
    <2> HIDE DEF A
    <2> QED BY <1>2, <1>3 DEF Count
  <1>5. PICK q \in {Up(A), Down(A), End(A), PageUp(A), PageDown(A)} : Key(q)
    BY DEF KeyDown, KeyUp, KeyEnd, KeyPageUp, KeyPageDown
  <1> QED BY <1>4, <1>5, KeyStep

LEMMA MarksStep ==
  ASSUME CommanderHolds, KeyMark \/ KeyMarkAll \/ KeyMarkNone \/ KeyMarkOthers
  PROVE  CommanderHolds'
  <1>1. Active \in Panels(Record)
    BY DEF CommanderHolds, PanelsHold, PanelHolds, Active
  <1>2. CASE KeyMark
    <2>1. InList(Active) /\ Key(Mark(Active))
      BY <1>2 DEF KeyMark, OnRecord
    <2> QED BY <1>1, <2>1, MarkKeeps, KeyStep
  <1>3. CASE KeyMarkAll
    <2>1. Key(MarkEach(Active, TRUE))
      BY <1>3 DEF KeyMarkAll
    <2> DEFINE c == TRUE
    <2>2. c \in BOOLEAN /\ Key(MarkEach(Active, c))
      BY <2>1
    <2> HIDE DEF c
    <2> QED BY <1>1, <2>2, MarkEachKeeps, KeyStep
  <1>4. CASE KeyMarkNone
    <2>1. Key(MarkEach(Active, FALSE))
      BY <1>4 DEF KeyMarkNone
    <2> DEFINE c == FALSE
    <2>2. c \in BOOLEAN /\ Key(MarkEach(Active, c))
      BY <2>1
    <2> HIDE DEF c
    <2> QED BY <1>1, <2>2, MarkEachKeeps, KeyStep
  <1>5. CASE KeyMarkOthers
    <2>1. Key(MarkOthers(Active))
      BY <1>5 DEF KeyMarkOthers
    <2> DEFINE c == FALSE
    <2>2. c \in BOOLEAN
      OBVIOUS
    <2> HIDE DEF c
    <2> QED BY <1>1, <2>1, <2>2, MarkEachKeeps, KeyStep
  <1> QED BY <1>2, <1>3, <1>4, <1>5

LEMMA HomeStep ==
  ASSUME CommanderHolds, KeyHome
  PROVE  CommanderHolds'
  <1> DEFINE s == selected
             c == FALSE
             p == Home(Active)
             x == shown[s]
  <1>1. /\ PanelsHold /\ LostHolds /\ LocalsHold /\ ReadHolds /\ PlacesHold /\ s \in Sides
        /\ panel[s] = Active /\ PanelHolds(panel[s], astray[s], x)
    BY DEF CommanderHolds, PanelsHold, Active
  <1>2. /\ ended = "no" /\ SetPanel(s, p) /\ shown' = shown
        /\ astray' = [astray EXCEPT ![s] = c]
        /\ UNCHANGED <<selected, order, dirL, local, network>>
    BY DEF KeyHome, AnyKey
  <1>3. p \in Panels(Record) /\ p.list = Active.list /\ InWindow(p)
    <2>1. Active \in Panels(Record) /\ Count(Active) >= 1
      BY <1>1 DEF PanelHolds
    <2> QED BY <2>1, HomeIs
  <1>4. c \in BOOLEAN
    OBVIOUS
  <1>5. PanelHolds(p, c, x)
    <2> HIDE DEF c, x, p
    <2> QED BY <1>1, <1>3, <1>4 DEF PanelHolds, Listed, Count
  <1>6. shown' = [shown EXCEPT ![s] = x]
    BY <1>1, <1>2 DEF PanelsHold
  <1>7. PanelsHold' /\ LostHolds' /\ (ended' = "no" \/ ended' = "lost")
    <2> HIDE DEF s, c, x, p
    <2> QED BY <1>1, <1>2, <1>5, <1>6, SetPanelStep
  <1>8. LocalsHold' /\ ReadHolds' /\ PlacesHold'
    BY <1>1, <1>2, RestSame
  <1> QED BY <1>1, <1>2, <1>7, <1>8 DEF CommanderHolds

(* Steps that leave the panels, the lists and the reading alone.           *)
LEMMA OthersStep ==
  ASSUME CommanderHolds, Lost \/ KeyTab \/ Quit
  PROVE  CommanderHolds'
  <1>1. /\ PanelsHold /\ LostHolds /\ LocalsHold /\ ReadHolds /\ PlacesHold
        /\ selected \in Sides
        /\ \A s \in Sides : /\ panel[s] \in Panels(Record) /\ astray[s] \in BOOLEAN
                            /\ Rows > 1 => astray[s] \/ InWindow(panel[s])
    BY DEF CommanderHolds, PanelsHold, PanelHolds
  <1>2. UNCHANGED <<panels, dirL, local, network>> /\ selected' \in Sides
    BY <1>1 DEF Lost, KeyTab, Quit
  <1>3. Rows > 1 /\ ended' = "lost" => ended = "lost" \/ \E s \in Sides : astray[s]
    <2> SUFFICES ASSUME Rows > 1, ended' = "lost", ended # "lost"
                 PROVE  \E s \in Sides : astray[s]
      OBVIOUS
    <2>1. CASE Lost
      <3>1. ~InWindow(Active)
        BY <2>1 DEF Lost, InWindow
      <3> QED BY <1>1, <3>1 DEF Active
    <2>2. CASE KeyTab
      <3>1. PICK s \in Sides : ~Painted(panel[s])
        BY <2>2 DEF KeyTab
      <3>2. ~InWindow(panel[s])
        BY <1>1, <3>1, PanelPaintedIs
      <3> QED BY <1>1, <3>2
    <2>3. CASE Quit
      BY <2>3 DEF Quit
    <2> QED BY <2>1, <2>2, <2>3
  <1>4. PanelsHold' /\ LostHolds'
    BY <1>1, <1>2, <1>3, PanelsSame
  <1>5. LocalsHold' /\ ReadHolds' /\ PlacesHold'
    BY <1>1, <1>2, RestSame DEF panels
  <1>6. ended' \in {"no", "quit", "lost", "crash"}
    BY DEF Lost, KeyTab, Quit, CommanderHolds
  <1> QED BY <1>2, <1>4, <1>5, <1>6 DEF CommanderHolds

(* A change of the size of the window puts both cursors to the top.        *)
LEMMA ResizeStep ==
  ASSUME CommanderHolds, Resize
  PROVE  CommanderHolds'
  <1> DEFINE c == FALSE
  <1>1. /\ PanelsHold /\ LostHolds /\ LocalsHold /\ ReadHolds /\ PlacesHold
        /\ selected \in Sides
        /\ \A s \in Sides : PanelHolds(panel[s], astray[s], shown[s])
    BY DEF CommanderHolds, PanelsHold
  <1>2. /\ ended = "no" /\ panel' = [s \in Sides |-> Home(panel[s])]
        /\ astray' = [s \in Sides |-> c] /\ c \in BOOLEAN
        /\ UNCHANGED <<selected, order, dirL, local, network, shown, ended>>
    BY DEF Resize
  <1> HIDE DEF c
  <1>3. ASSUME NEW s \in Sides
        PROVE  /\ Home(panel[s]) \in Panels(Record)
               /\ PanelHolds(Home(panel[s]), c, shown[s])
    <2>1. panel[s] \in Panels(Record) /\ Count(panel[s]) >= 1
      BY <1>1 DEF PanelHolds
    <2>2. /\ Home(panel[s]) \in Panels(Record) /\ Home(panel[s]).list = panel[s].list
          /\ InWindow(Home(panel[s]))
      BY <2>1, HomeIs
    <2> QED BY <1>1, <1>2, <2>2 DEF PanelHolds, Listed, Count
  <1>4. \A s \in Sides : /\ panel'[s] = Home(panel[s]) /\ astray'[s] = c
                         /\ shown'[s] = shown[s]
    BY <1>2
  <1>5. \A s \in Sides : PanelHolds(panel'[s], astray'[s], shown'[s])
    BY <1>3, <1>4
  <1>6. /\ panel' \in [Sides -> Panels(Record)] /\ astray' \in [Sides -> BOOLEAN]
        /\ DOMAIN shown' = Sides /\ shown' = [s \in Sides |-> shown'[s]]
    BY <1>1, <1>2, <1>3 DEF PanelsHold
  <1>7. PanelsHold'
    BY <1>5, <1>6 DEF PanelsHold, PanelHolds, Listed, Panels, Count, InWindow, InList, At
  <1>8. LostHolds' /\ LocalsHold' /\ ReadHolds' /\ PlacesHold'
    BY <1>1, <1>2, RestSame DEF LostHolds
  <1> QED BY <1>1, <1>2, <1>7, <1>8 DEF CommanderHolds
-----------------------------------------------------------------------------
(* The reading of lists.                                                   *)

(* A read begins.                                                          *)
LEMMA AskIs ==
  ASSUME NEW why \in {"enter", "down", "up", "refresh", "bookmark"}, NEW at \in 0..3,
         NEW to, NEW name, Ask(why, at, to, name)
  PROVE  /\ ReadType(read') /\ read' # NotReading /\ tries' \in 0..MaxTries
         /\ read'.why = why /\ read'.at = at /\ read'.to = to /\ read'.name = name
         /\ Retry >= 0 => Counts(read', tries')
  <1> DEFINE c == FALSE
             n == IF at = LEVEL_FILES THEN 0 ELSE Retry
             g == [why |-> why, at |-> at, to |-> to, name |-> name, count |-> n,
                   found |-> c]
  <1>1. read' = g /\ tries' = 0
    BY DEF Ask
  <1>2. c \in BOOLEAN
    OBVIOUS
  <1>3. Retry \in Int /\ MaxTries \in Nat
    BY CommanderAssumption
  <1>4. n \in Int /\ (n = 0 \/ n = Retry)
    BY <1>3
  <1> HIDE DEF c, n
  <1>5. /\ g.why = why /\ g.at = at /\ g.to = to /\ g.name = name /\ g.count = n
        /\ g.found = c
        /\ g = [why |-> g.why, at |-> g.at, to |-> g.to, name |-> g.name,
                count |-> g.count, found |-> g.found]
    OBVIOUS
  <1> HIDE DEF g
  <1>6. ReadType(g)
    BY <1>2, <1>5, <1>4 DEF ReadType
  <1>7. read' # NotReading
    BY <1>1, <1>5 DEF NotReading
  <1>8. tries' \in 0..MaxTries
    BY <1>1, <1>3
  <1>9. Retry >= 0 => Counts(g, 0)
    BY <1>5, <1>3, <1>4 DEF Counts
  <1> QED BY <1>1, <1>5, <1>6, <1>7, <1>8, <1>9

LEMMA AskOnlyStep ==
  ASSUME CommanderHolds, AnyKey, NEW why \in {"enter", "down", "up", "refresh"},
         NEW at \in 0..3, NEW to, NEW name,
         why = "down" => at = LEVEL_FILES /\ (shown["right"].stale \/ level = LEVEL_FILES),
         Ask(why, at, to, name),
         UNCHANGED <<panels, selected, level, place, dirL, local, ended>>
  PROVE  CommanderHolds'
  <1>1. /\ PanelsHold /\ LostHolds /\ LocalsHold /\ ReadHolds /\ PlacesHold
    BY DEF CommanderHolds
  <1>2. /\ ReadType(read') /\ read' # NotReading /\ tries' \in 0..MaxTries
        /\ Retry >= 0 => Counts(read', tries')
        /\ read'.why = why /\ read'.at = at
    BY AskIs
  <1>3. PanelsHold' /\ LostHolds'
    BY <1>1, PanelsSame
  <1>4. LocalsHold'
    BY <1>1, RestSame
  <1>5. ReadHolds'
    BY <1>1, <1>2 DEF ReadHolds, ReadType, Counts
  <1>6. PlacesHold'
    <2>1. read = NotReading
      BY DEF AnyKey
    <2> QED BY <1>1, <1>2, <2>1 DEF PlacesHold, panels
  <1> QED BY <1>3, <1>4, <1>5, <1>6 DEF CommanderHolds

LEMMA MoveStep ==
  ASSUME CommanderHolds, NEW why \in {"refresh", "bookmark"}, NEW at \in 0..3,
         NEW to, NEW name, Move(why, at, to, name)
  PROVE  CommanderHolds'
  <1>1. /\ PanelsHold /\ LostHolds /\ LocalsHold /\ ReadHolds /\ PlacesHold
    BY DEF CommanderHolds
  <1>2. /\ Ask(why, at, to, name) /\ level' = at /\ selected' = "right"
        /\ UNCHANGED <<panels, dirL, local, ended>>
    BY DEF Move
  <1>3. /\ ReadType(read') /\ read' # NotReading /\ tries' \in 0..MaxTries
        /\ read'.why = why
        /\ Retry >= 0 => Counts(read', tries')
    BY <1>2, AskIs
  <1>4. PanelsHold' /\ LostHolds' /\ LocalsHold'
    BY <1>1, <1>2, PanelsSame, RestSame
  <1>5. ReadHolds'
    BY <1>1, <1>2, <1>3 DEF ReadHolds, ReadType, Counts
  <1>6. PlacesHold'
    <2>1. why \notin {"enter", "down"}
      OBVIOUS
    <2>2. read' # NotReading /\ read'.why \notin {"enter", "down"}
      BY <1>3, <2>1, Zenon
    <2> QED BY <1>1, <1>2, <2>2 DEF PlacesHold, panels
  <1> QED BY <1>2, <1>4, <1>5, <1>6 DEF CommanderHolds, Sides

LEMMA LevelIs == \A p : LevelOf(p) \in 0..3
  BY DEF LevelOf, LEVEL_WORKGROUPS, LEVEL_HOSTS, LEVEL_SHARES, LEVEL_FILES

(* A directory that the right panel shows was read.                        *)
LEMMA EnteredIs ==
  ASSUME NEW p \in Panels(Record), NEW x, Listed(p, x), x.records \in Seq(Unmarked),
         InList(p), Current(p).kind = "D", Current(p).name # ".."
  PROVE  \E i \in DOMAIN x.records : x.records[i].kind = "D"
  <1> DEFINE l == Plain(p.list)
             m == <<UpRecord>> \o x.records
             n == At(p) + 1
             c == FALSE
  <1>1. p.list \in Seq(Record) /\ n \in DOMAIN p.list /\ Current(p) = p.list[n]
    <2>1. p.list \in Seq(Record) /\ p.first \in Nat /\ p.pos \in Nat
      BY DEF Panels
    <2>2. At(p) \in Nat /\ At(p) < Len(p.list)
      BY <2>1 DEF InList, Count, At
    <2>3. Current(p) = p.list[n]
      BY DEF Current
    <2> HIDE DEF n
    <2>4. n = At(p) + 1
      BY DEF n
    <2> QED BY <2>1, <2>2, <2>3, <2>4
  <1>2. l \in Arrangements(Unmarked, m)
    BY DEF Listed
  <1>3. m \in Seq(Unmarked) /\ DOMAIN l = DOMAIN p.list
    BY UpIsRecord DEF Plain
  <1>4. l[n].kind = "D" /\ l[n].name # ".."
    <2>1. l[n] = [p.list[n] EXCEPT !.mark = c]
      BY <1>1 DEF Plain
    <2> HIDE DEF c, l
    <2> QED BY <1>1, <2>1 DEF Record
  <1> HIDE DEF l, n
  <1>5. PICK j \in DOMAIN m : m[j] = l[n]
    <2>1. l \in Seq(Unmarked) /\ DOMAIN l = DOMAIN m /\ Len(l) = Len(m)
      BY <1>2 DEF Arrangements, Rearranged
    <2>2. PICK f \in Renumberings(Len(m)) : \A i \in 1..Len(m) : l[i] = m[f[i]]
      BY <1>2 DEF Arrangements, Rearranged
    <2> HIDE DEF m
    <2>3. n \in 1..Len(m) /\ f[n] \in 1..Len(m) /\ DOMAIN m = 1..Len(m)
      BY <1>1, <1>3, <2>1, <2>2 DEF Renumberings
    <2> QED BY <2>2, <2>3
  <1>6. j # 1
    <2>1. m[1] = UpRecord
      OBVIOUS
    <2> QED BY <1>4, <1>5, <2>1 DEF UpRecord
  <1>7. j - 1 \in DOMAIN x.records /\ m[j] = x.records[j - 1]
    BY <1>5, <1>6
  <1> QED BY <1>4, <1>5, <1>7

LEMMA RightKeysStep ==
  ASSUME CommanderHolds,
         UpRight \/ EnterRight \/ RefreshRight \/ Goto \/ Find \/ BookmarkRight
  PROVE  CommanderHolds'
  <1>1. level \in 0..3
    BY DEF CommanderHolds, ReadHolds
  <1>2. CASE UpRight
    <2>1. AnyKey
      BY <1>2 DEF UpRight, OnRecord, KeyIn
    <2>2. PICK at, to, name : at \in 0..3 /\ AskOnly("up", at, to, name)
      <3>1. /\ LEVEL_WORKGROUPS \in 0..3 /\ LEVEL_HOSTS \in 0..3
            /\ LEVEL_SHARES \in 0..3 /\ LEVEL_FILES \in 0..3
        BY DEF LEVEL_WORKGROUPS, LEVEL_HOSTS, LEVEL_SHARES, LEVEL_FILES
      <3>2. \A up : (IF up = <<>> THEN LEVEL_SHARES ELSE LEVEL_FILES) \in 0..3
        BY <3>1
      <3> QED BY <1>2, <3>1, <3>2, Zenon DEF UpRight
    <2> QED BY <2>1, <2>2, AskOnlyStep DEF AskOnly
  <1>3. CASE EnterRight
    <2>1. AnyKey
      BY <1>3 DEF EnterRight, OnRecord, KeyIn
    <2>2. PICK why, at, to, name :
            /\ at \in 0..3 /\ AskOnly(why, at, to, name) /\ why \in {"enter", "down"}
            /\ why = "down" => at = LEVEL_FILES /\ Current(Active).kind = "D"
                               /\ Current(Active).name # ".."
      <3>1. LEVEL_HOSTS \in 0..3 /\ LEVEL_SHARES \in 0..3 /\ LEVEL_FILES \in 0..3
        BY DEF LEVEL_HOSTS, LEVEL_SHARES, LEVEL_FILES
      <3>2. "enter" # "down"
        OBVIOUS
      <3> QED BY <1>3, <3>1, <3>2, Zenon DEF EnterRight
    <2>3. ASSUME why = "down"
          PROVE  shown["right"].stale \/ level = LEVEL_FILES
      <3>1. /\ InList(panel["right"]) /\ Current(panel["right"]).kind = "D"
            /\ Current(panel["right"]).name # ".." /\ "right" \in Sides
        BY <1>3, <2>2, <2>3 DEF EnterRight, OnRecord, KeyIn, Active, Sides
      <3>2. /\ Listed(panel["right"], shown["right"]) /\ panel["right"] \in Panels(Record)
            /\ shown["right"].records \in Seq(Unmarked)
        BY <3>1 DEF CommanderHolds, PanelsHold, PanelHolds
      <3>3. PICK i \in DOMAIN shown["right"].records :
              shown["right"].records[i].kind = "D"
        BY <3>1, <3>2, EnteredIs
      <3>4. shown["right"].from[1] = LEVEL_FILES
        BY <3>3 DEF CommanderHolds, PlacesHold, DirsAmong
      <3>5. shown["right"].stale \/ shown["right"].from = <<level, place>>
        BY <2>1 DEF CommanderHolds, PlacesHold, AnyKey
      <3> QED BY <3>4, <3>5
    <2> QED BY <2>1, <2>2, <2>3, AskOnlyStep DEF AskOnly
  <1>4. CASE RefreshRight
    <2>1. AnyKey /\ AskOnly("refresh", level, place, "")
      BY <1>4 DEF RefreshRight, KeyIn
    <2> QED BY <1>1, <2>1, AskOnlyStep DEF AskOnly
  <1>5. CASE Goto
    <2>1. PICK at, to, name : at \in 0..3 /\ Move("refresh", at, to, name)
      BY <1>5, LevelIs DEF Goto
    <2> QED BY <2>1, MoveStep
  <1>6. CASE Find
    <2>1. PICK at, to, name : at \in 0..3 /\ Move("refresh", at, to, name)
      BY <1>6, LevelIs DEF Find
    <2> QED BY <2>1, MoveStep
  <1>7. CASE BookmarkRight
    <2>1. PICK at, to, name : at \in 0..3 /\ Move("bookmark", at, to, name)
      BY <1>7, LevelIs DEF BookmarkRight
    <2> QED BY <2>1, MoveStep
  <1> QED BY <1>2, <1>3, <1>4, <1>5, <1>6, <1>7

(* What the network has for a place is a list of records without marks.    *)
LEMMA RemoteIs ==
  ASSUME NEW l \in 0..3, NEW p
  PROVE  Remote(l, p) \in Listings /\ DirsAmong(Remote(l, p), l)
  <1>1. ASSUME NEW kinds \in {{"D", "F"}, {"W"}, {"H"}, {"S"}}, NEW map,
               map \in [DOMAIN map -> Seq(Of(kinds))], NEW key
        PROVE  /\ Contents(map, key) \in Listings
               /\ "D" \notin kinds => \A i \in DOMAIN Contents(map, key) :
                                        Contents(map, key)[i].kind # "D"
    <2>1. Contents(map, key) \in Seq(Of(kinds))
      <3>1. <<>> \in Seq(Of(kinds))
        OBVIOUS
      <3> QED BY <1>1, <3>1 DEF Contents
    <2>2. \A i \in DOMAIN Contents(map, key) : Contents(map, key)[i] \in Of(kinds)
      BY <2>1
    <2> QED BY <2>1, <2>2, ListingIs DEF Of
  <1>2. /\ Groups \in Seq(Of({"W"})) /\ Hosts \in [DOMAIN Hosts -> Seq(Of({"H"}))]
        /\ Shares \in [DOMAIN Shares -> Seq(Of({"S"}))]
        /\ Files \in [DOMAIN Files -> Seq(Of({"D", "F"}))]
    BY CommanderAssumption
  <1>3. Groups \in Listings
    BY <1>2, ListingIs
  <1>4. /\ l = LEVEL_WORKGROUPS => Remote(l, p) = Groups
        /\ l = LEVEL_HOSTS => Remote(l, p) = Contents(Hosts, p.group)
        /\ l = LEVEL_SHARES => Remote(l, p) = Contents(Shares, p.host)
        /\ l = LEVEL_FILES => Remote(l, p) = Contents(Files, <<p.host, p.dir>>)
    BY DEF Remote, LEVEL_WORKGROUPS, LEVEL_HOSTS, LEVEL_SHARES, LEVEL_FILES
  <1>5. l \in {LEVEL_WORKGROUPS, LEVEL_HOSTS, LEVEL_SHARES, LEVEL_FILES}
    BY DEF LEVEL_WORKGROUPS, LEVEL_HOSTS, LEVEL_SHARES, LEVEL_FILES
  <1>6. /\ Contents(Hosts, p.group) \in Listings
        /\ Contents(Shares, p.host) \in Listings
        /\ Contents(Files, <<p.host, p.dir>>) \in Listings
    BY <1>1, <1>2
  <1>7. ASSUME l # LEVEL_FILES
        PROVE  \A i \in DOMAIN Remote(l, p) : Remote(l, p)[i].kind # "D"
    <2>1. \A i \in DOMAIN Groups : Groups[i].kind # "D"
      BY <1>2 DEF Of
    <2>2. \A i \in DOMAIN Contents(Hosts, p.group) : Contents(Hosts, p.group)[i].kind # "D"
      BY <1>1, <1>2
    <2>3. \A i \in DOMAIN Contents(Shares, p.host) : Contents(Shares, p.host)[i].kind # "D"
      BY <1>1, <1>2
    <2> QED BY <1>4, <1>5, <1>7, <2>1, <2>2, <2>3
  <1> QED BY <1>3, <1>4, <1>5, <1>6, <1>7 DEF DirsAmong

(* A list that stays in the panel while the place moves.                   *)
LEMMA KeepListStep ==
  ASSUME PanelsHold, LostHolds, NEW side \in Sides, KeepList(side)
  PROVE  /\ PanelsHold' /\ LostHolds' /\ ended' = ended
         /\ shown'[side].stale /\ \A s \in Sides \ {side} : shown'[s] = shown[s]
  <1> DEFINE c == TRUE
             x == shown[side]
             y == [x EXCEPT !.stale = c]
             g == [from |-> x.from, records |-> x.records, how |-> x.how, stale |-> c]
  <1>1. /\ shown' = [shown EXCEPT ![side] = y]
        /\ panel' = panel /\ astray' = astray /\ ended' = ended
    BY DEF KeepList
  <1>2. /\ DOMAIN shown = Sides /\ shown = [s \in Sides |-> shown[s]]
        /\ \A s \in Sides : PanelHolds(panel[s], astray[s], shown[s])
    BY DEF PanelsHold
  <1>3. c
    OBVIOUS
  <1> HIDE DEF c
  <1>4. y = g
    <2>1. x = [from |-> x.from, records |-> x.records, how |-> x.how, stale |-> x.stale]
      BY <1>2 DEF PanelHolds
    <2> HIDE DEF x
    <2> QED BY <2>1
  <1>5. g.from = x.from /\ g.records = x.records /\ g.how = x.how /\ g.stale = c
    OBVIOUS
  <1> HIDE DEF g, y
  <1>6. PanelHolds(panel[side], astray[side], g)
    <2>1. g = [from |-> g.from, records |-> g.records, how |-> g.how, stale |-> g.stale]
      BY <1>5 DEF g
    <2> QED BY <1>2, <1>5, <2>1 DEF PanelHolds, Listed
  <1>7. shown'[side] = g /\ \A s \in Sides \ {side} : shown'[s] = shown[s]
    BY <1>1, <1>2, <1>4
  <1>8. \A s \in Sides : PanelHolds(panel'[s], astray'[s], shown'[s])
    BY <1>1, <1>2, <1>6, <1>7
  <1>9. DOMAIN shown' = Sides /\ shown' = [s \in Sides |-> shown'[s]]
    BY <1>1, <1>2
  <1>10. PanelsHold'
    BY <1>1, <1>8, <1>9 DEF PanelsHold, PanelHolds, Listed
  <1>11. LostHolds'
    BY <1>1 DEF LostHolds
  <1> QED BY <1>1, <1>3, <1>5, <1>7, <1>10, <1>11

(* What follows an answer.                                                 *)
LEMMA FinishStep ==
  ASSUME CommanderHolds, read # NotReading, ended = "no",
         NEW answer \in Listings \cup {Refused}, Finish(read, answer),
         DirsAmong(Answered(answer), read.at),
         tries' \in 0..MaxTries, UNCHANGED <<selected, dirL, local>>
  PROVE  /\ CommanderHolds' /\ read' = NotReading
         /\ read.why = "up" /\ read.name \in Names(panel'["right"])
              => Current(panel'["right"]).name = read.name
  <1>1. /\ PanelsHold /\ LostHolds /\ LocalsHold /\ ReadHolds /\ PlacesHold
        /\ selected \in Sides /\ ReadType(read)
    BY DEF CommanderHolds, ReadHolds
  <1>2. read' = NotReading /\ read'.why = "none"
    BY DEF Finish, NotReading
  <1>3. level \in 0..3 /\ read.at \in 0..3
    BY <1>1 DEF ReadHolds, ReadType
  <1>4. LocalsHold'
    BY <1>1, RestSame
  <1>5. level' \in 0..3 => ReadHolds'
    BY <1>2 DEF ReadHolds
  <1>6. ASSUME answer = Refused, read.why = "bookmark"
        PROVE  CommanderHolds'
    <2>1. KeepList("right") /\ level' = level
      BY <1>6 DEF Finish
    <2>2. /\ PanelsHold' /\ LostHolds' /\ ended' = ended /\ shown'["right"].stale
          /\ shown'["left"] = shown["left"]
      BY <1>1, <2>1, KeepListStep DEF Sides
    <2>3. shown'["right"].from = shown["right"].from
          /\ shown'["right"].records = shown["right"].records
      BY <1>1, <2>1 DEF KeepList, PanelsHold, PanelHolds, Sides
    <2>4. PlacesHold'
      BY <1>1, <1>2, <2>2, <2>3 DEF PlacesHold
    <2> QED BY <1>1, <1>3, <1>4, <1>5, <2>1, <2>2, <2>4 DEF CommanderHolds
  <1>7. ASSUME read.why \in {"enter", "down"}, answer = Refused
        PROVE  CommanderHolds'
    <2>1. UNCHANGED <<panels, ended, level, place>>
      BY <1>7 DEF Finish
    <2>2. PanelsHold' /\ LostHolds'
      BY <1>1, <2>1, PanelsSame
    <2>3. PlacesHold'
      BY <1>1, <1>2, <1>7, <2>1 DEF PlacesHold, panels
    <2> QED BY <1>1, <1>3, <1>4, <1>5, <2>1, <2>2, <2>3 DEF CommanderHolds
  <1>8. ASSUME ~(read.why \in {"enter", "down", "bookmark"} /\ answer = Refused)
        PROVE  /\ CommanderHolds'
               /\ read.name \in Names(panel'["right"])
                    => Current(panel'["right"]).name = read.name
    <2> DEFINE old == IF read.why = "refresh" THEN Home(panel.right) ELSE panel.right
               how == order.right
               own == read.why = "down" => level = read.at
               still == ~own /\ shown.right.stale
               given == IF own THEN answer ELSE <<>>
    <2>1. /\ level' = IF own THEN read.at ELSE level
          /\ place' = read.to
          /\ NewList("right", old, how, given, read.name, <<read.at, read.to>>, still)
      BY <1>8, Zenon DEF Finish
    <2>2. panel.right \in Panels(Record) /\ Count(panel.right) >= 1
      BY <1>1 DEF PanelsHold, PanelHolds, Sides
    <2>3. old \in Panels(Record)
      BY <2>2, HomeIs
    <2>4. given \in Listings \cup {Refused} /\ DirsAmong(Answered(given), read.at)
      <3>1. <<>> \in Listings
        BY ListingIs
      <3>2. Answered(<<>>) = <<>>
        BY DEF Answered
      <3>3. DirsAmong(<<>>, read.at)
        BY DEF DirsAmong
      <3> QED BY <3>1, <3>2, <3>3, Zenon
    <2>5. ~own => still
      <3>1. PlacesHold
        BY <1>1
      <3> QED BY <1>8, <3>1 DEF PlacesHold
    <2> HIDE DEF old, how, given, still
    <2>6. /\ PanelsHold' /\ LostHolds' /\ (ended' = "no" \/ ended' = "lost")
          /\ shown'["right"].from = <<read.at, read.to>>
          /\ shown'["right"].stale = still
          /\ shown'["right"].records = Answered(given)
          /\ shown'["left"] = shown["left"]
          /\ read.name \in Names(panel'["right"])
               => Current(panel'["right"]).name = read.name
      BY <1>1, <2>1, <2>3, <2>4, NewListStep DEF Sides
    <2>7. PlacesHold'
      <3>1. shown'["right"].stale \/ shown'["right"].from = <<level', place'>>
        BY <2>1, <2>5, <2>6
      <3>2. DirsAmong(shown'["right"].records, shown'["right"].from[1])
        BY <2>4, <2>6
      <3> QED BY <1>1, <1>2, <2>6, <3>1, <3>2 DEF PlacesHold
    <2>8. level' \in 0..3
      BY <1>3, <2>1
    <2> QED BY <1>1, <1>4, <1>5, <2>1, <2>6, <2>7, <2>8 DEF CommanderHolds
  <1> QED BY <1>2, <1>6, <1>7, <1>8

(* A list is asked for once more.                                          *)
LEMMA OnceMoreStep ==
  ASSUME CommanderHolds, read # NotReading, NEW n \in Int, NEW found \in BOOLEAN,
         read' = [read EXCEPT !.count = n, !.found = found], Counted,
         UNCHANGED <<panels, level, place, ended>>,
         \/ found /\ read.at # LEVEL_HOSTS
         \/ read.count > 0 /\ n = read.count - 1 /\ (found = read.found \/ read.at = LEVEL_HOSTS)
         \/ read.count < 0 /\ n = read.count /\ (found = read.found \/ read.at = LEVEL_HOSTS)
  PROVE  CommanderHolds' /\ read' # NotReading
  <1> DEFINE g == [why |-> read.why, at |-> read.at, to |-> read.to, name |-> read.name,
                   count |-> n, found |-> found]
  <1>1. /\ PanelsHold /\ LostHolds /\ LocalsHold /\ ReadHolds /\ PlacesHold
        /\ ReadType(read) /\ level \in 0..3 /\ tries \in 0..MaxTries
    BY DEF CommanderHolds, ReadHolds
  <1>2. Retry >= 0 => Counts(read, tries)
    BY DEF CommanderHolds, ReadHolds
  <1>3. read' = g
    <2>1. read = [why |-> read.why, at |-> read.at, to |-> read.to, name |-> read.name,
                  count |-> read.count, found |-> read.found]
      BY <1>1 DEF ReadType
    <2> QED BY <2>1
  <1>4. /\ g.why = read.why /\ g.at = read.at /\ g.to = read.to /\ g.name = read.name
        /\ g.count = n /\ g.found = found
        /\ g = [why |-> g.why, at |-> g.at, to |-> g.to, name |-> g.name,
                count |-> g.count, found |-> g.found]
    OBVIOUS
  <1> HIDE DEF g
  <1>5. /\ read.why \in {"enter", "down", "up", "refresh", "bookmark"} /\ read.at \in 0..3
        /\ read.count \in Int
    BY <1>1 DEF ReadType
  <1>6. ReadType(g)
    BY <1>4, <1>5 DEF ReadType
  <1>7. read' # NotReading
    BY <1>3, <1>4, <1>5 DEF NotReading
  <1>8. /\ tries' = IF tries < MaxTries THEN tries + 1 ELSE tries
        /\ UNCHANGED <<selected, order, dirL, local>>
    BY <1>7 DEF Counted
  <1>9. Retry \in Int /\ MaxTries \in Nat
    BY CommanderAssumption
  <1>10. tries' \in 0..MaxTries /\ tries' <= tries + 1
    BY <1>1, <1>8, <1>9
  <1>11. Retry >= 0 => Counts(g, tries')
    <2> SUFFICES ASSUME Retry >= 0, ~(found /\ read.at # LEVEL_HOSTS)
                 PROVE  n >= 0 /\ tries' + n <= Retry
      BY <1>4 DEF Counts
    <2>1. ~(read.found /\ read.at # LEVEL_HOSTS)
      OBVIOUS
    <2>2. read.count >= 0 /\ tries + read.count <= Retry
      BY <1>2, <2>1 DEF Counts
    <2>3. n = read.count - 1 /\ read.count > 0
      BY <1>5, <2>2
    <2> QED BY <1>1, <1>5, <1>9, <1>10, <2>2, <2>3
  <1>12. ReadHolds'
    BY <1>1, <1>3, <1>6, <1>10, <1>11 DEF ReadHolds, ReadType, Counts
  <1>13. PanelsHold' /\ LostHolds' /\ LocalsHold'
    BY <1>1, <1>8, PanelsSame, RestSame
  <1>14. PlacesHold'
    BY <1>1, <1>3, <1>4, <1>7, <1>8 DEF PlacesHold, panels
  <1> QED BY <1>7, <1>8, <1>12, <1>13, <1>14 DEF CommanderHolds

(* What an attempt makes of a read.                                        *)
Comes == read.why = "up" /\ read' = NotReading /\ read.name \in Names(panel'["right"])
           => Current(panel'["right"]).name = read.name

LEMMA AttemptStep ==
  ASSUME CommanderHolds, Attempt
  PROVE  CommanderHolds' /\ Comes
  <1>1. /\ ReadType(read) /\ read # NotReading /\ ended = "no" /\ Counted
        /\ read.at \in 0..3 /\ read.found \in BOOLEAN /\ read.count \in Int
        /\ tries \in 0..MaxTries
    <2>1. read # NotReading /\ ended = "no" /\ Counted
      BY DEF Attempt, GetMasterList, GetHostsFromGroup, GetSharesFromHost,
             GetFileFromDirR, Asked
    <2> QED BY <2>1 DEF CommanderHolds, ReadHolds, ReadType
  <1>2. ASSUME NEW answer \in Listings \cup {Refused}, Finish(read, answer),
               DirsAmong(Answered(answer), read.at)
        PROVE  CommanderHolds' /\ Comes
    <2>1. read' = NotReading /\ UNCHANGED <<selected, dirL, local>>
      BY <1>1, <1>2 DEF Finish, Counted
    <2>2. tries' \in 0..MaxTries
      <3>1. MaxTries \in Nat
        BY CommanderAssumption
      <3> QED BY <1>1, <2>1, <3>1 DEF Counted
    <2> QED BY <1>1, <1>2, <2>1, <2>2, FinishStep DEF Comes
  <1>3. ASSUME NEW records \in Answers
        PROVE  records \in Listings /\ DirsAmong(Answered(records), read.at)
    <2>1. Remote(read.at, read.to) \in Listings /\ <<>> \in Listings
      BY <1>1, RemoteIs, ListingIs
    <2>2. DirsAmong(Remote(read.at, read.to), read.at) /\ DirsAmong(<<>>, read.at)
      BY <1>1, RemoteIs DEF DirsAmong
    <2>3. Answered(records) \in {records, <<>>}
      BY DEF Answered
    <2> QED BY <1>3, <2>1, <2>2, <2>3 DEF Answers
  <1>4. ASSUME NEW found \in BOOLEAN, Repeat(read, found),
               found = read.found \/ read.at = LEVEL_HOSTS
        PROVE  CommanderHolds' /\ Comes
    <2> DEFINE n == IF read.count > 0 THEN read.count - 1 ELSE read.count
    <2>1. CASE read.count = 0
      <3> DEFINE answer == IF found THEN <<>> ELSE Refused
      <3>1. Finish(read, answer)
        BY <1>4, <2>1 DEF Repeat
      <3>2. answer \in Listings \cup {Refused} /\ Answered(answer) = <<>>
        BY ListingIs DEF Answered
      <3>3. DirsAmong(Answered(answer), read.at)
        BY <3>2 DEF DirsAmong
      <3> HIDE DEF answer
      <3> QED BY <1>2, <3>1, <3>2, <3>3
    <2>2. CASE read.count # 0
      <3>1. /\ read' = [read EXCEPT !.count = n, !.found = found]
            /\ UNCHANGED <<panels, level, place, ended>>
        BY <1>4, <2>2 DEF Repeat
      <3>2. \/ read.count > 0 /\ n = read.count - 1
            \/ read.count < 0 /\ n = read.count
        BY <1>1, <2>2
      <3>3. n \in Int
        BY <1>1
      <3> HIDE DEF n
      <3> QED BY <1>1, <1>4, <3>1, <3>2, <3>3, OnceMoreStep DEF Comes
    <2> QED BY <2>1, <2>2
  <1>5. ASSUME AskAgain, read.at # LEVEL_HOSTS
        PROVE  CommanderHolds' /\ Comes
    <2> DEFINE c == TRUE
    <2>1. read' = [read EXCEPT !.found = c] /\ UNCHANGED <<panels, level, place, ended>>
      BY <1>5 DEF AskAgain
    <2>2. c /\ c \in BOOLEAN
      OBVIOUS
    <2> HIDE DEF c
    <2>3. read' = [read EXCEPT !.count = read.count, !.found = c]
      <3>1. read = [why |-> read.why, at |-> read.at, to |-> read.to, name |-> read.name,
                    count |-> read.count, found |-> read.found]
        BY <1>1 DEF ReadType
      <3> QED BY <2>1, <3>1
    <2> QED BY <1>1, <1>5, <2>1, <2>2, <2>3, OnceMoreStep DEF Comes
  <1>6. ASSUME Refuse
        PROVE  CommanderHolds' /\ Comes
    BY <1>1, <1>4, <1>6 DEF Refuse
  <1>7. ASSUME FullOrAgain, read.at # LEVEL_HOSTS
        PROVE  CommanderHolds' /\ Comes
    <2>1. AskAgain \/ \E records \in Answers : Finish(read, records)
      BY <1>7 DEF FullOrAgain
    <2> QED BY <1>2, <1>3, <1>5, <1>7, <2>1
  <1>8. CASE GetMasterList
    <2>1. read.at # LEVEL_HOSTS
      BY <1>8 DEF GetMasterList, Asked, LEVEL_WORKGROUPS, LEVEL_HOSTS
    <2> QED BY <1>6, <1>7, <1>8, <2>1 DEF GetMasterList
  <1>9. CASE GetHostsFromGroup
    <2>1. read.at = LEVEL_HOSTS
      BY <1>9 DEF GetHostsFromGroup, Asked
    <2>2. CASE Refuse
      BY <1>6, <2>2
    <2>3. CASE \E records \in Answers : Finish(read, records)
      BY <1>2, <1>3, <2>3
    <2>4. CASE Repeat(read, TRUE)
      <3> DEFINE c == TRUE
      <3>1. c \in BOOLEAN /\ Repeat(read, c)
        BY <2>4
      <3> HIDE DEF c
      <3> QED BY <1>4, <2>1, <3>1
    <2> QED BY <1>9, <2>2, <2>3, <2>4 DEF GetHostsFromGroup
  <1>10. CASE GetSharesFromHost
    <2>1. read.at # LEVEL_HOSTS
      BY <1>10 DEF GetSharesFromHost, Asked, LEVEL_SHARES, LEVEL_HOSTS
    <2> QED BY <1>6, <1>7, <1>10, <2>1 DEF GetSharesFromHost
  <1>11. CASE GetFileFromDirR
    <2>1. PICK answer \in Answers \cup {Refused} : Finish(read, answer)
      BY <1>11 DEF GetFileFromDirR
    <2>2. DirsAmong(Answered(Refused), read.at)
      BY DEF Answered, DirsAmong
    <2> QED BY <1>2, <1>3, <2>1, <2>2
  <1> QED BY <1>8, <1>9, <1>10, <1>11 DEF Attempt
-----------------------------------------------------------------------------
(* The local directories.                                                  *)
Locals(D) == UNION {[E -> Seq(LocalEntries)] : E \in SUBSET D}
Disks(D) == [map: Locals(D), crash: BOOLEAN]

LEMMA LocalsAre ==
  ASSUME NEW D, NEW m
  PROVE  m \in Locals(D) <=> m \in [DOMAIN m -> Seq(LocalEntries)] /\ DOMAIN m \subseteq D
  <1>1. ASSUME m \in Locals(D)
        PROVE  m \in [DOMAIN m -> Seq(LocalEntries)] /\ DOMAIN m \subseteq D
    <2>1. PICK E \in SUBSET D : m \in [E -> Seq(LocalEntries)]
      BY <1>1 DEF Locals
    <2> QED BY <2>1
  <1>2. ASSUME m \in [DOMAIN m -> Seq(LocalEntries)], DOMAIN m \subseteq D
        PROVE  m \in Locals(D)
    <2>1. DOMAIN m \in SUBSET D
      BY <1>2
    <2> QED BY <1>2, <2>1, Zenon DEF Locals
  <1> QED BY <1>1, <1>2

(* A directory without what is below it.                                   *)
LEMMA EmptiedIs ==
  ASSUME NEW D, NEW m \in Locals(D), NEW d
  PROVE  /\ Emptied(m, d) \in Locals(D)
         /\ \A e : e \in DOMAIN Emptied(m, d) <=> e \in DOMAIN m /\ (~Under(d, e) \/ e = d)
         /\ \A e \in DOMAIN Emptied(m, d) :
              Emptied(m, d)[e] = IF e = d THEN <<>> ELSE m[e]
  <1> DEFINE E == {e \in DOMAIN m : ~Under(d, e) \/ e = d}
             w == Emptied(m, d)
  <1>1. m \in [DOMAIN m -> Seq(LocalEntries)] /\ DOMAIN m \subseteq D
    BY LocalsAre
  <1>2. w = [e \in E |-> IF e = d THEN <<>> ELSE m[e]]
    BY DEF Emptied
  <1>3. E \subseteq DOMAIN m
    OBVIOUS
  <1> HIDE DEF E, w
  <1>4. \A e \in E : (IF e = d THEN <<>> ELSE m[e]) \in Seq(LocalEntries)
    <2>1. <<>> \in Seq(LocalEntries)
      OBVIOUS
    <2> QED BY <1>1, <1>3, <2>1
  <1>5. w \in [DOMAIN w -> Seq(LocalEntries)] /\ DOMAIN w = E
    BY <1>2, <1>4
  <1>6. w \in Locals(D)
    BY <1>1, <1>3, <1>5, LocalsAre
  <1> QED BY <1>2, <1>5, <1>6 DEF E, w

(* A directory without the records of a name.                              *)
LEMMA WithoutIs ==
  ASSUME NEW D, NEW m \in Locals(D), NEW d, NEW name
  PROVE  /\ Without(m, d, name) \in Locals(D)
         /\ DOMAIN Without(m, d, name) = DOMAIN m
         /\ \A e \in DOMAIN m : e # d => Without(m, d, name)[e] = m[e]
         /\ d \in DOMAIN m => \A i \in DOMAIN m[d] :
              m[d][i].name # name => m[d][i] \in Elems(Without(m, d, name)[d])
         /\ \A e \in DOMAIN m : Elems(Without(m, d, name)[e]) \subseteq Elems(m[e])
  <1>1. m \in [DOMAIN m -> Seq(LocalEntries)] /\ DOMAIN m \subseteq D
    BY LocalsAre
  <1>2. CASE d \notin DOMAIN m \/ Append(d, name) \in DOMAIN m
    <2>1. Without(m, d, name) = m
      BY <1>2 DEF Without
    <2>2. d \in DOMAIN m => DOMAIN m[d] = 1..Len(m[d])
      BY <1>1
    <2> QED BY <2>1, <2>2 DEF Elems
  <1>3. CASE d \in DOMAIN m /\ Append(d, name) \notin DOMAIN m
    <2> DEFINE s == m[d]
               P == {i \in DOMAIN s : s[i].name # name}
               k == Keep(s, P)
               w == Without(m, d, name)
    <2>1. s \in Seq(LocalEntries) /\ P \subseteq 1..Len(s)
      BY <1>1, <1>3
    <2>2. w = [m EXCEPT ![d] = k]
      BY <1>3 DEF Without
    <2> HIDE DEF P, k, s
    <2>3. k \in Seq(LocalEntries) /\ Elems(k) = {s[i] : i \in P}
      BY <2>1, KeepIs DEF k
    <2> HIDE DEF w
    <2>4. w \in [DOMAIN m -> Seq(LocalEntries)] /\ w[d] = k
          /\ \A e \in DOMAIN m : e # d => w[e] = m[e]
      BY <1>1, <1>3, <2>2, <2>3
    <2>5. DOMAIN w = DOMAIN m
      BY <2>4
    <2>6. w \in Locals(D)
      BY <1>1, <2>4, <2>5, LocalsAre
    <2>7. \A i \in DOMAIN s : s[i].name # name => s[i] \in Elems(w[d])
      BY <2>3, <2>4 DEF P
    <2>8. Elems(k) \subseteq Elems(s)
      BY <2>1, <2>3 DEF Elems
    <2> QED BY <2>4, <2>5, <2>6, <2>7, <2>8 DEF w, s
  <1> QED BY <1>2, <1>3

(* What one record that is deleted leaves: less in no more directories.    *)
Shrunk(m) ==
  DOMAIN m \subseteq DOMAIN local /\ \A e \in DOMAIN m : Elems(m[e]) \subseteq Elems(local[e])

LEMMA RemovingIs ==
  ASSUME NEW D, NEW x \in Disks(D), NEW r
  PROVE  /\ RemoveRecord(x, r) \in Disks(D)
         /\ Shrunk(x.map) => Shrunk(RemoveRecord(x, r).map)
  <1> DEFINE at == Real(x.map, dirL)
             d == Follow(x.map, at, r.name)
             rest == Emptied(x.map, d)
             fewer == [e \in DOMAIN rest \ {d} |-> rest[e]]
             c == TRUE
  <1>1. x.map \in Locals(D) /\ x.crash \in BOOLEAN
    BY DEF Disks
  <1>2. ASSUME NEW m \in Locals(D)
        PROVE  [x EXCEPT !.map = m] \in Disks(D) /\ [x EXCEPT !.map = m].map = m
    BY DEF Disks
  <1>3. [x EXCEPT !.crash = c] \in Disks(D) /\ [x EXCEPT !.crash = c].map = x.map
    <2>1. c \in BOOLEAN
      OBVIOUS
    <2> HIDE DEF c
    <2> QED BY <2>1 DEF Disks
  <1>6. RemoveRecord(x, r) =
          IF x.crash THEN x
          ELSE IF r.kind = "F" THEN [x EXCEPT !.map = Without(x.map, at, r.name)]
          ELSE IF Unreadable(x.map, d) THEN [x EXCEPT !.crash = c]
          ELSE IF d # Append(at, r.name) THEN [x EXCEPT !.map = rest]
          ELSE [x EXCEPT !.map = Without(fewer, at, r.name)]
    BY DEF RemoveRecord
  <1> HIDE DEF at, d, c
  <1>4. /\ rest \in Locals(D) /\ DOMAIN rest \subseteq DOMAIN x.map
        /\ \A e \in DOMAIN rest : rest[e] = <<>> \/ rest[e] = x.map[e]
    BY <1>1, EmptiedIs
  <1> HIDE DEF rest
  <1>5. /\ fewer \in Locals(D) /\ DOMAIN fewer \subseteq DOMAIN rest
        /\ \A e \in DOMAIN fewer : fewer[e] = rest[e]
    <2>1. rest \in [DOMAIN rest -> Seq(LocalEntries)] /\ DOMAIN rest \subseteq D
      BY <1>4, LocalsAre
    <2>2. fewer \in [DOMAIN fewer -> Seq(LocalEntries)] /\ DOMAIN fewer \subseteq D
      BY <2>1
    <2>3. DOMAIN fewer \subseteq DOMAIN rest /\ \A e \in DOMAIN fewer : fewer[e] = rest[e]
      OBVIOUS
    <2> HIDE DEF fewer
    <2> QED BY <2>2, <2>3, LocalsAre
  <1> HIDE DEF fewer
  <1>7. ASSUME NEW m \in Locals(D), NEW name
        PROVE  /\ Without(m, at, name) \in Locals(D)
               /\ Shrunk(m) => Shrunk(Without(m, at, name))
    <2>1. /\ Without(m, at, name) \in Locals(D) /\ DOMAIN Without(m, at, name) = DOMAIN m
          /\ \A e \in DOMAIN m : Elems(Without(m, at, name)[e]) \subseteq Elems(m[e])
      BY WithoutIs
    <2> QED BY <2>1 DEF Shrunk
  <1>8. Shrunk(x.map) => Shrunk(rest) /\ Shrunk(fewer)
    <2>1. Elems(<<>>) = {}
      BY DEF Elems
    <2> SUFFICES ASSUME Shrunk(x.map) PROVE Shrunk(rest) /\ Shrunk(fewer)
      OBVIOUS
    <2>2. \A e \in DOMAIN rest : Elems(rest[e]) \subseteq Elems(local[e])
      BY <1>4, <2>1 DEF Shrunk
    <2>3. Shrunk(rest)
      BY <1>4, <2>2 DEF Shrunk
    <2>4. Shrunk(fewer)
      BY <1>5, <2>3 DEF Shrunk
    <2> QED BY <2>3, <2>4
  <1>9. /\ Without(x.map, at, r.name) \in Locals(D) /\ Without(fewer, at, r.name) \in Locals(D)
        /\ Shrunk(x.map) => /\ Shrunk(Without(x.map, at, r.name))
                            /\ Shrunk(Without(fewer, at, r.name))
    BY <1>1, <1>5, <1>7, <1>8
  <1>10. CASE x.crash \/ (r.kind # "F" /\ Unreadable(x.map, d))
    BY <1>3, <1>6, <1>10
  <1>11. CASE ~x.crash /\ r.kind = "F"
    BY <1>2, <1>6, <1>9, <1>11
  <1>12. CASE ~x.crash /\ r.kind # "F" /\ ~Unreadable(x.map, d)
    BY <1>2, <1>4, <1>6, <1>8, <1>9, <1>12
  <1> QED BY <1>10, <1>11, <1>12

(* The directory that a path leads to.                                     *)
LEMMA RealIs ==
  ASSUME NEW map, DOMAIN map \subseteq Seq(AllNames), NEW d \in Seq(AllNames)
  PROVE  /\ RealUpTo(map, d)[0] = <<>>
         /\ \A k \in 1..Len(d) : RealUpTo(map, d)[k] = Follow(map, RealUpTo(map, d)[k - 1], d[k])
  <1> DEFINE n == Len(d)
             A == Seq(AllNames) \cup {NoDir} \cup {Links[p] : p \in DOMAIN Links}
             step(r, k) == Follow(map, r, d[k])
             Def(f) == f = [k \in 0..n |-> IF k = 0 THEN <<>> ELSE step(f[k - 1], k)]
             next == [k \in 1..n |-> [r \in A |-> step(r, k)]]
             w == RealUpTo(map, d)
  <1>0. <<>> \in A /\ n \in Nat
    OBVIOUS
  <1>1. \A k \in 1..n : \A r \in A : step(r, k) \in A
    <2> SUFFICES ASSUME NEW k \in 1..n, NEW r \in A PROVE Follow(map, r, d[k]) \in A
      OBVIOUS
    <2>1. d[k] \in AllNames
      OBVIOUS
    <2>2. r \in DOMAIN map => Parent(r) \in Seq(AllNames) /\ Append(r, d[k]) \in Seq(AllNames)
      BY <2>1 DEF Parent
    <2> HIDE DEF n
    <2> QED BY <2>2 DEF Follow
  <1>2. next \in [1..n -> [A -> A]] /\ <<>> \in A
    <2> HIDE DEF step, A
    <2> QED BY <1>0, <1>1
  <1> HIDE DEF step, A
  <1>3. PICK h \in [0..n -> A] : h[0] = <<>> /\ \A k \in 1..n : h[k] = next[k][h[k - 1]]
    <2>1. next \in Steps(n, A)
      BY <1>2 DEF Steps
    <2> HIDE DEF next
    <2>2. \E f : Follows(f, n, A, <<>>, next)
      BY <1>0, <2>1, Recursion
    <2> QED BY <2>2 DEF Follows
  <1>4. \A k \in 1..n : h[k] = step(h[k - 1], k)
    <2> SUFFICES ASSUME NEW k \in 1..n PROVE next[k][h[k - 1]] = step(h[k - 1], k)
      BY <1>3
    <2>1. k - 1 \in 0..n
      OBVIOUS
    <2>2. h[k - 1] \in A
      BY <1>3, <2>1
    <2> QED BY <2>2
  <1> HIDE DEF next
  <1>5. Def(h)
    <2>1. \A k \in 0..n : k = 0 \/ k \in 1..n
      OBVIOUS
    <2>2. \A k \in 0..n : h[k] = IF k = 0 THEN <<>> ELSE step(h[k - 1], k)
      BY <2>1, <1>3, <1>4
    <2>3. h = [k \in 0..n |-> h[k]]
      BY <1>3
    <2> QED BY <2>2, <2>3
  <1>6. Def(w)
    <2>1. w = CHOOSE g : Def(g)
      BY DEF RealUpTo, step
    <2> HIDE DEF Def, w
    <2> QED BY <1>5, <2>1
  <1>7. w[0] = <<>> /\ \A k \in 1..n : w[k] = step(w[k - 1], k)
    <2>1. (\A k \in 1..n : k \in 0..n /\ k # 0) /\ 0 \in 0..n
      OBVIOUS
    <2>2. w = [k \in 0..n |-> IF k = 0 THEN <<>> ELSE step(w[k - 1], k)]
      BY <1>6
    <2> HIDE DEF w
    <2>3. \A k \in 0..n : w[k] = IF k = 0 THEN <<>> ELSE step(w[k - 1], k)
      BY <2>2
    <2> QED BY <2>1, <2>3
  <1> QED BY <1>7 DEF step

(* While records are deleted a path leads where it led, or nowhere.        *)
LEMMA FollowShrinks ==
  ASSUME LocalType(local), NEW m \in Locals(DOMAIN local), Shrunk(m), NEW at, NEW name
  PROVE  /\ Follow(m, at, name) \in DOMAIN m =>
              at \in DOMAIN m /\ Follow(m, at, name) = Follow(local, at, name)
  <1> DEFINE p == Append(at, name)
  <1>1. NoDir \notin DOMAIN m
    <2>1. DOMAIN m \subseteq Seq(AllNames) /\ "" \notin AllNames
      BY CommanderAssumption DEF Shrunk, LocalType
    <2>2. \A s \in Seq(AllNames) : 1 \in DOMAIN s => s[1] \in AllNames
      OBVIOUS
    <2>3. 1 \in DOMAIN NoDir /\ NoDir[1] = ""
      BY DEF NoDir
    <2> QED BY <2>1, <2>2, <2>3
  <1>2. DOMAIN m \cap DOMAIN Links = {} /\ DOMAIN m \subseteq DOMAIN local
    BY CommanderAssumption DEF Shrunk, LocalType
  <1>3. ASSUME at \in DOMAIN m, name \in {r.name : r \in ToSet(m[at])}
        PROVE  name \in {r.name : r \in ToSet(local[at])}
    <2>1. m \in [DOMAIN m -> Seq(LocalEntries)]
      BY LocalsAre
    <2>2. m[at] \in Seq(LocalEntries) /\ local[at] \in Seq(LocalEntries)
      BY <1>2, <1>3, <2>1 DEF LocalType
    <2>3. ToSet(m[at]) = Elems(m[at]) /\ ToSet(local[at]) = Elems(local[at])
      BY <2>2 DEF ToSet, Elems
    <2> QED BY <1>3, <2>3 DEF Shrunk
  <1> HIDE DEF p
  <1> QED BY <1>1, <1>2, <1>3 DEF Follow, p

LEMMA RealShrinks ==
  ASSUME LocalType(local), NEW m \in Locals(DOMAIN local), Shrunk(m), NEW d \in Seq(AllNames),
         Real(m, d) \in DOMAIN m
  PROVE  Real(m, d) = Real(local, d)
  <1> DEFINE v == RealUpTo(m, d)
             w == RealUpTo(local, d)
             n == Len(d)
             Q == {k \in 0..n : v[k] \in DOMAIN m => v[k] = w[k]}
  <1>1. DOMAIN m \subseteq Seq(AllNames) /\ DOMAIN local \subseteq Seq(AllNames)
    BY CommanderAssumption DEF Shrunk, LocalType
  <1>2. /\ v[0] = <<>> /\ w[0] = <<>> /\ n \in Nat
        /\ \A k \in 1..n : v[k] = Follow(m, v[k - 1], d[k]) /\ w[k] = Follow(local, w[k - 1], d[k])
    BY <1>1, RealIs
  <1> HIDE DEF v, w, n
  <1>3. 0 \in Q
    BY <1>2
  <1>4. ASSUME NEW k \in 0..n - 1, k \in Q
        PROVE  k + 1 \in Q
    <2>1. k + 1 \in 1..n /\ k + 1 \in 0..n /\ (k + 1) - 1 = k
      BY <1>2
    <2>2. v[k + 1] = Follow(m, v[k], d[k + 1]) /\ w[k + 1] = Follow(local, w[k], d[k + 1])
      BY <1>2, <2>1
    <2>3. v[k + 1] \in DOMAIN m =>
            v[k] \in DOMAIN m /\ v[k + 1] = Follow(local, v[k], d[k + 1])
      BY <2>2, FollowShrinks
    <2> QED BY <1>4, <2>1, <2>2, <2>3
  <1>5. 0..n \subseteq Q
    <2> HIDE DEF Q
    <2> QED BY <1>2, <1>3, <1>4, UpTo
  <1>6. n \in Q
    BY <1>2, <1>5
  <1> QED BY <1>6 DEF Real, v, w, n

(* ... and a list of them, one after the other: what each record keeps all *)
(* records keep.                                                           *)
LEMMA RemoveUpToIs ==
  ASSUME NEW S, NEW R, NEW first \in S, NEW records \in Seq(R),
         \A x \in S, q \in R : RemoveRecord(x, q) \in S
  PROVE  RemoveUpTo(first, records) \in [0..Len(records) -> S]
  <1> DEFINE n == Len(records)
             A == S
             step(r, k) == RemoveRecord(r, records[k])
             Def(f) == f = [k \in 0..n |-> IF k = 0 THEN first ELSE step(f[k - 1], k)]
             next == [k \in 1..n |-> [r \in A |-> step(r, k)]]
             w == RemoveUpTo(first, records)
  <1>1. \A k \in 1..n : \A r \in A : step(r, k) \in A
    <2>1. \A k \in 1..n : records[k] \in R
      OBVIOUS
    <2> QED BY <2>1
  <1>0. first \in A /\ n \in Nat
    OBVIOUS
  <1>2. next \in [1..n -> [A -> A]] /\ first \in A
    <2> HIDE DEF step, A
    <2> QED BY <1>0, <1>1
  <1> HIDE DEF step, A
  <1>3. PICK h \in [0..n -> A] : h[0] = first /\ \A k \in 1..n : h[k] = next[k][h[k - 1]]
    <2>1. next \in Steps(n, A)
      BY <1>2 DEF Steps
    <2> HIDE DEF next
    <2>2. \E f : Follows(f, n, A, first, next)
      BY <1>0, <2>1, Recursion
    <2> QED BY <2>2 DEF Follows
  <1>4. \A k \in 1..n : h[k] = step(h[k - 1], k)
    <2> SUFFICES ASSUME NEW k \in 1..n PROVE next[k][h[k - 1]] = step(h[k - 1], k)
      BY <1>3
    <2>1. k - 1 \in 0..n
      OBVIOUS
    <2>2. h[k - 1] \in A
      BY <1>3, <2>1
    <2> QED BY <2>2
  <1> HIDE DEF next
  <1>5. Def(h)
    <2>1. \A k \in 0..n : k = 0 \/ k \in 1..n
      OBVIOUS
    <2>2. \A k \in 0..n : h[k] = IF k = 0 THEN first ELSE step(h[k - 1], k)
      BY <2>1, <1>3, <1>4
    <2>3. h = [k \in 0..n |-> h[k]]
      BY <1>3
    <2> QED BY <2>2, <2>3
  <1>6. Def(w)
    <2>1. w = CHOOSE g : Def(g)
      BY DEF RemoveUpTo, step
    <2> HIDE DEF Def, w
    <2> QED BY <1>5, <2>1
  <1>7. /\ w = [k \in 0..n |-> w[k]] /\ w[0] = first
        /\ \A k \in 1..n : w[k] = step(w[k - 1], k)
    <2>1. (\A k \in 1..n : k \in 0..n /\ k # 0) /\ 0 \in 0..n
      OBVIOUS
    <2>2. w = [k \in 0..n |-> IF k = 0 THEN first ELSE step(w[k - 1], k)]
      BY <1>6
    <2> HIDE DEF w
    <2>3. \A k \in 0..n : w[k] = IF k = 0 THEN first ELSE step(w[k - 1], k)
      BY <2>2
    <2>4. w = [k \in 0..n |-> w[k]]
      BY <2>2
    <2> QED BY <2>1, <2>3, <2>4
  <1>8. \A k \in 0..n : w[k] \in A
    <2> DEFINE Q == {k \in 0..n : w[k] \in A}
    <2> HIDE DEF w
    <2>1. 0 \in Q
      BY <1>2, <1>7
    <2>2. ASSUME NEW k \in 0..n - 1, k \in Q
          PROVE  k + 1 \in Q
      <3>1. k + 1 \in 1..n /\ k + 1 \in 0..n /\ w[k] \in A /\ (k + 1) - 1 = k
        BY <2>2
      <3>2. w[k + 1] = step(w[k], k + 1)
        BY <1>7, <3>1
      <3>3. w[k + 1] \in A
        BY <1>1, <3>1, <3>2
      <3> QED BY <3>1, <3>3
    <2>3. 0..n \subseteq Q
      <3> HIDE DEF Q
      <3> QED BY <2>1, <2>2, <1>0, UpTo
    <2> QED BY <2>3
  <1> QED BY <1>7, <1>8 DEF A

(* What a delete of some names spares: all but their records, and what is  *)
(* in and below the directories that they lead to.                         *)
TakenBy(N, d) == \E t \in N : Under(Follow(local, Real(local, dirL), t), d)
Spared(N, m) ==
  \A d \in DOMAIN local :
    IF d \in DOMAIN m
    THEN \A i \in DOMAIN local[d] :
           \/ local[d][i] \in {m[d][j] : j \in DOMAIN m[d]}
           \/ d = Real(local, dirL) /\ local[d][i].name \in N
           \/ TakenBy(N, d)
    ELSE TakenBy(N, d)

LEMMA WithoutSpares ==
  ASSUME NEW D, NEW N, NEW w \in Locals(D), Spared(N, w), NEW name \in N, NEW at,
         at \in DOMAIN w => at = Real(local, dirL)
  PROVE  Spared(N, Without(w, at, name))
  <1> DEFINE v == Without(w, at, name)
  <1>1. /\ v \in Locals(D) /\ DOMAIN v = DOMAIN w
        /\ \A e \in DOMAIN w : e # at => v[e] = w[e]
        /\ at \in DOMAIN w => \A i \in DOMAIN w[at] :
             w[at][i].name # name => w[at][i] \in Elems(v[at])
    BY WithoutIs
  <1>2. v \in [DOMAIN v -> Seq(LocalEntries)]
    BY <1>1, LocalsAre
  <1> HIDE DEF v
  <1> SUFFICES ASSUME NEW d \in DOMAIN local, d \in DOMAIN v, NEW i \in DOMAIN local[d]
               PROVE  \/ local[d][i] \in {v[d][j] : j \in DOMAIN v[d]}
                      \/ d = Real(local, dirL) /\ local[d][i].name \in N
                      \/ TakenBy(N, d)
    BY <1>1 DEF Spared, v
  <1>3. \/ local[d][i] \in {w[d][j] : j \in DOMAIN w[d]}
        \/ d = Real(local, dirL) /\ local[d][i].name \in N
        \/ TakenBy(N, d)
    BY <1>1 DEF Spared
  <1>4. CASE d # at
    BY <1>1, <1>3, <1>4
  <1>5. CASE d = at /\ local[d][i].name = name
    BY <1>1, <1>5
  <1>6. CASE d = at /\ local[d][i].name # name
              /\ local[d][i] \in {w[d][j] : j \in DOMAIN w[d]}
    <2>1. local[d][i] \in Elems(v[d])
      BY <1>1, <1>6
    <2>2. DOMAIN v[d] = 1..Len(v[d])
      BY <1>2
    <2> QED BY <2>1, <2>2 DEF Elems
  <1> QED BY <1>3, <1>4, <1>5, <1>6

LEMMA EmptiedSpares ==
  ASSUME NEW D, NEW N, NEW m \in Locals(D), Spared(N, m), NEW t \in Seq(AllNames),
         \A d : Under(t, d) => TakenBy(N, d)
  PROVE  LET rest == Emptied(m, t)
         IN  Spared(N, rest) /\ Spared(N, [e \in DOMAIN rest \ {t} |-> rest[e]])
  <1> DEFINE rest == Emptied(m, t)
             fewer == [e \in DOMAIN rest \ {t} |-> rest[e]]
  <1>1. TakenBy(N, t)
    <2>1. Len(t) \in Nat
      OBVIOUS
    <2>2. Under(t, t)
      BY <2>1 DEF Under, IsPrefix
    <2> QED BY <2>2
  <1>2. /\ \A e : e \in DOMAIN rest <=> e \in DOMAIN m /\ (~Under(t, e) \/ e = t)
        /\ \A e \in DOMAIN rest : e # t => rest[e] = m[e]
    BY EmptiedIs
  <1> HIDE DEF rest
  <1>3. DOMAIN fewer = DOMAIN rest \ {t} /\ \A e \in DOMAIN fewer : fewer[e] = rest[e]
    OBVIOUS
  <1> HIDE DEF fewer
  <1>4. ASSUME NEW f \in {rest, fewer}
        PROVE  Spared(N, f)
    <2>1. \A d \in DOMAIN m : d \notin DOMAIN f => TakenBy(N, d)
      BY <1>1, <1>2, <1>3
    <2>2. \A d \in DOMAIN f : d \in DOMAIN m /\ (d = t \/ f[d] = m[d])
      BY <1>2, <1>3
    <2> SUFFICES ASSUME NEW d \in DOMAIN local, ~TakenBy(N, d)
                 PROVE  /\ d \in DOMAIN f
                        /\ \A i \in DOMAIN local[d] :
                             \/ local[d][i] \in {f[d][j] : j \in DOMAIN f[d]}
                             \/ d = Real(local, dirL) /\ local[d][i].name \in N
      BY DEF Spared
    <2>3. d \in DOMAIN m
      BY DEF Spared
    <2>4. d \in DOMAIN f /\ d # t
      BY <1>1, <2>1, <2>3
    <2>5. f[d] = m[d]
      BY <2>2, <2>4
    <2> QED BY <2>3, <2>4, <2>5 DEF Spared
  <1> QED BY <1>4 DEF rest, fewer

LEMMA RemoveSpares ==
  ASSUME NEW N, NEW x \in Disks(DOMAIN local), Spared(N, x.map), Shrunk(x.map), NEW r,
         r.name \in N, dirL \in Seq(AllNames), LocalType(local)
  PROVE  Spared(N, RemoveRecord(x, r).map)
  <1> DEFINE m == x.map
             at == Real(m, dirL)
             d == Follow(m, at, r.name)
             rest == Emptied(m, d)
             fewer == [e \in DOMAIN rest \ {d} |-> rest[e]]
             y == RemoveRecord(x, r)
             c == TRUE
  <1>1. m \in Locals(DOMAIN local)
    BY DEF Disks
  <1>2. at \in DOMAIN m => at = Real(local, dirL)
    BY <1>1, RealShrinks
  <1>3. y = IF x.crash THEN x
            ELSE IF r.kind = "F" THEN [x EXCEPT !.map = Without(m, at, r.name)]
            ELSE IF Unreadable(m, d) THEN [x EXCEPT !.crash = c]
            ELSE IF d # Append(at, r.name) THEN [x EXCEPT !.map = rest]
            ELSE [x EXCEPT !.map = Without(fewer, at, r.name)]
    BY DEF RemoveRecord
  <1>4. d \in DOMAIN m => at \in DOMAIN m /\ d = Follow(local, at, r.name)
    BY <1>1, FollowShrinks
  <1>5. Spared(N, Without(m, at, r.name))
    BY <1>1, <1>2, WithoutSpares
  <1> HIDE DEF at, d, rest
  <1>6. ASSUME ~Unreadable(m, d)
        PROVE  Spared(N, rest) /\ Spared(N, Without(fewer, at, r.name))
    <2>1. d \in DOMAIN m
      BY <1>6 DEF Unreadable
    <2>2. at = Real(local, dirL) /\ d = Follow(local, Real(local, dirL), r.name)
      BY <1>2, <1>4, <2>1
    <2>3. \A e : Under(d, e) => TakenBy(N, e)
      BY <2>2 DEF TakenBy
    <2>4. d \in Seq(AllNames)
      BY <2>1, CommanderAssumption DEF Shrunk, LocalType
    <2> HIDE DEF m
    <2>5. Spared(N, rest) /\ Spared(N, fewer)
      BY <1>1, <2>3, <2>4, EmptiedSpares DEF rest, m
    <2>6. rest \in Locals(DOMAIN local)
      BY <1>1, EmptiedIs DEF rest
    <2>7. fewer \in Locals(DOMAIN local)
      <3>1. rest \in [DOMAIN rest -> Seq(LocalEntries)] /\ DOMAIN rest \subseteq DOMAIN local
        BY <2>6, LocalsAre
      <3>2. fewer \in [DOMAIN fewer -> Seq(LocalEntries)] /\ DOMAIN fewer \subseteq DOMAIN local
        BY <3>1
      <3> HIDE DEF fewer
      <3> QED BY <3>2, LocalsAre
    <2> HIDE DEF fewer
    <2> QED BY <2>2, <2>5, <2>7, WithoutSpares
  <1> HIDE DEF fewer, y, c
  <1>7. /\ \A w : [x EXCEPT !.map = w].map = w
        /\ [x EXCEPT !.crash = c].map = m
    BY DEF Disks
  <1> HIDE DEF m
  <1> QED BY <1>3, <1>5, <1>6, <1>7 DEF y, m
-----------------------------------------------------------------------------
(* The left panel.                                                         *)
LEMMA ReadingsAre ==
  ASSUME NEW map, map \in [DOMAIN map -> Seq(LocalEntries)], NEW d,
         NEW answer \in Readings(map, d)
  PROVE  answer \in Listings \cup {Refused}
  <1> DEFINE at == Real(map, d)
             l == map[at]
             Read(odd) == [i \in DOMAIN l |->
                             IF i \in odd THEN [l[i] EXCEPT !.kind = "F"] ELSE l[i]]
  <1> SUFFICES ASSUME at \in DOMAIN map, NEW odd, answer = Read(odd)
               PROVE  answer \in Listings
    BY DEF Readings
  <1>1. l \in Seq(LocalEntries)
    OBVIOUS
  <1> HIDE DEF l
  <1>2. ASSUME NEW e \in LocalEntries
        PROVE  [e EXCEPT !.kind = "F"] \in LocalEntries
    <2> DEFINE g == [e EXCEPT !.kind = "F"]
    <2>1. e \in Record /\ ~e.mark
      BY DEF LocalEntries, Of, Unmarked
    <2>2. g \in Record /\ g.kind = "F" /\ g.mark = e.mark
      BY <2>1 DEF Record
    <2> HIDE DEF g
    <2>3. g \in LocalEntries
      BY <2>1, <2>2 DEF LocalEntries, Of, Unmarked
    <2> QED BY <2>3 DEF g
  <1>3. \A i \in DOMAIN l : Read(odd)[i] \in LocalEntries
    BY <1>1, <1>2
  <1>4. DOMAIN l = 1..Len(l) /\ Len(l) \in Nat
    BY <1>1
  <1>5. Read(odd) \in Seq(LocalEntries)
    <2>1. Read(odd) \in [1..Len(l) -> LocalEntries]
      BY <1>3, <1>4
    <2> HIDE DEF Read
    <2> QED BY <1>4, <2>1
  <1> QED BY <1>5, ListingIs

(* It shows a directory.                                                   *)
LEMMA NewLeftList ==
  ASSUME PanelsHold, LostHolds, ended = "no",
         NEW answer \in Listings \cup {Refused}, NEW how, NEW d, NEW name,
         NEW still, NewList("left", panel.left, how, answer, name, d, still)
  PROVE  /\ PanelsHold' /\ LostHolds' /\ (ended' = "no" \/ ended' = "lost")
         /\ shown'["left"].from = d /\ shown'["right"] = shown["right"]
  <1> DEFINE old == panel.left
             side == "left"
  <1>1. side \in Sides /\ "right" \in Sides \ {side} /\ old \in Panels(Record)
    BY DEF PanelsHold, Sides
  <1>2. NewList(side, old, how, answer, name, d, still)
    OBVIOUS
  <1> HIDE DEF old, side
  <1>3. /\ PanelsHold' /\ LostHolds' /\ (ended' = "no" \/ ended' = "lost")
        /\ shown'[side].from = d
        /\ \A s \in Sides \ {side} : shown'[s] = shown[s]
    <2>1. PanelsHold' /\ LostHolds' /\ (ended' = "no" \/ ended' = "lost")
      BY <1>1, <1>2, NewListStep
    <2>2. shown'[side].from = d
      BY <1>1, <1>2, NewListStep
    <2>3. \A s \in Sides \ {side} : shown'[s] = shown[s]
      BY <1>1, <1>2, NewListStep
    <2> QED BY <2>1, <2>2, <2>3
  <1> QED BY <1>1, <1>3 DEF side

LEMMA NewLeftStep ==
  ASSUME CommanderHolds, AnyKey, NEW answer \in Listings \cup {Refused},
         NEW how, NEW d \in Seq(AllNames), NEW name, dirL' = d,
         NEW still, NewList("left", panel.left, how, answer, name, d, still),
         LocalType(local'), selected' \in Sides,
         UNCHANGED network
  PROVE  CommanderHolds'
  <1>1. /\ PanelsHold /\ LostHolds /\ LocalsHold /\ ReadHolds /\ PlacesHold
        /\ ended = "no" /\ read = NotReading
    BY DEF CommanderHolds, AnyKey
  <1>2. /\ PanelsHold' /\ LostHolds' /\ (ended' = "no" \/ ended' = "lost")
        /\ shown'["left"].from = d /\ shown'["right"] = shown["right"]
    BY <1>1, NewLeftList, Zenon
  <1>3. LocalsHold'
    BY DEF LocalsHold
  <1>4. ReadHolds'
    BY <1>1, RestSame
  <1>5. PlacesHold'
    BY <1>1, <1>2 DEF PlacesHold, network
  <1> QED BY <1>2, <1>3, <1>4, <1>5 DEF CommanderHolds

LEMMA GoLeftStep ==
  ASSUME CommanderHolds, AnyKey, NEW map, map \in [DOMAIN map -> Seq(LocalEntries)],
         NEW how, NEW d \in Seq(AllNames), NEW name, GoLeft(map, how, d, name),
         LocalType(local'), selected' \in Sides,
         UNCHANGED network
  PROVE  CommanderHolds'
  <1> DEFINE c == FALSE
  <1>1. PICK answer \in Readings(map, d) : NewList("left", panel.left, how, answer, name, d, c)
    BY DEF GoLeft
  <1>2. dirL' = d
    BY DEF GoLeft
  <1> HIDE DEF c
  <1>3. answer \in Listings \cup {Refused}
    BY ReadingsAre
  <1> QED BY <1>1, <1>2, <1>3, NewLeftStep

LEMMA LeftKeysStep ==
  ASSUME CommanderHolds, EnterLeft \/ RefreshLeft
  PROVE  CommanderHolds'
  <1>1. /\ dirL \in Seq(AllNames) /\ local \in [DOMAIN local -> Seq(LocalEntries)]
        /\ selected \in Sides /\ LocalType(local)
    BY DEF CommanderHolds, LocalsHold, LocalType
  <1>2. CASE RefreshLeft
    <2>1. AnyKey /\ GoLeft(local, order.left, dirL, "")
          /\ UNCHANGED <<selected, local, network>>
      BY <1>2 DEF RefreshLeft, KeyIn
    <2>2. LocalType(local')
      BY <1>1, <2>1
    <2> QED BY <1>1, <2>1, <2>2, GoLeftStep
  <1>3. CASE EnterLeft
    <2>1. /\ AnyKey /\ dirL # <<>> /\ UNCHANGED <<selected, local, network>>
          /\ InList(Active) /\ Active = panel["left"]
      BY <1>3 DEF EnterLeft, OnRecord, KeyIn, Active
    <2>2. PICK d, name : /\ GoLeft(local, order.left, d, name)
                         /\ d = Parent(dirL) \/ d = Append(dirL, Current(Active).name)
      BY <1>3 DEF EnterLeft
    <2>3. Parent(dirL) \in Seq(AllNames)
      BY <1>1, <2>1 DEF Parent
    <2>4. Current(Active).name \in AllNames
      <3>1. Active \in Panels(Record)
        BY <2>1 DEF CommanderHolds, PanelsHold, Sides
      <3>2. Current(Active) \in Record
        BY <2>1, <3>1, PanelType DEF Current, InList, At, Count, Panels
      <3> QED BY <3>2 DEF Record
    <2>5. d \in Seq(AllNames)
      BY <1>1, <2>2, <2>3, <2>4
    <2>6. LocalType(local')
      BY <1>1, <2>1
    <2> QED BY <1>1, <2>1, <2>2, <2>5, <2>6, GoLeftStep
  <1> QED BY <1>2, <1>3

LEMMA BookmarkLeftStep ==
  ASSUME CommanderHolds, BookmarkLeft
  PROVE  CommanderHolds'
  <1> DEFINE c == FALSE
  <1>1. /\ dirL \in Seq(AllNames) /\ local \in [DOMAIN local -> Seq(LocalEntries)]
        /\ PanelsHold /\ LostHolds /\ LocalsHold /\ ReadHolds /\ PlacesHold /\ LocalType(local)
    BY DEF CommanderHolds, LocalsHold, LocalType
  <1>2. AnyKey /\ UNCHANGED <<local, network>>
    BY DEF BookmarkLeft, OnRecord, KeyIn
  <1>3. PICK m \in LeftMarks :
          /\ selected' = "left" /\ dirL' = m.dir
          /\ \E answer \in Readings(local, m.dir) :
               IF answer = Refused
               THEN KeepList("left")
               ELSE NewList("left", panel.left, order.left, answer, m.name, m.dir, c)
    BY DEF BookmarkLeft
  <1> HIDE DEF c
  <1>4. PICK answer \in Readings(local, m.dir) :
          IF answer = Refused
          THEN KeepList("left")
          ELSE NewList("left", panel.left, order.left, answer, m.name, m.dir, c)
    BY <1>3
  <1>5. m.dir \in Seq(AllNames) /\ selected' \in Sides /\ LocalType(local')
    BY <1>1, <1>2, <1>3, CommanderAssumption DEF Sides
  <1>6. answer \in Listings \cup {Refused}
    BY <1>1, ReadingsAre
  <1>7. CASE answer = Refused
    <2>1. KeepList("left")
      BY <1>4, <1>7
    <2>2. /\ PanelsHold' /\ LostHolds' /\ ended' = ended /\ shown'["left"].stale
          /\ shown'["right"] = shown["right"]
      BY <1>1, <2>1, KeepListStep DEF Sides
    <2>3. LocalsHold'
      BY <1>3, <1>5 DEF LocalsHold
    <2>4. ReadHolds'
      BY <1>1, <1>2, RestSame
    <2>5. PlacesHold'
      BY <1>1, <1>2, <2>2 DEF PlacesHold, network
    <2> QED BY <1>5, <2>2, <2>3, <2>4, <2>5 DEF CommanderHolds
  <1>8. CASE answer # Refused
    <2>1. NewList("left", panel.left, order.left, answer, m.name, m.dir, c)
      BY <1>4, <1>8
    <2> QED BY <1>2, <1>3, <1>5, <1>6, <2>1, NewLeftStep
  <1> QED BY <1>7, <1>8

(* RcreateDir: one directory more.                                         *)
LEMMA PutBefore ==
  ASSUME NEW S, NEW s \in Seq(S), NEW r \in S
  PROVE  /\ <<r>> \o s \in Seq(S)
         /\ \A i \in DOMAIN s : \E j \in DOMAIN (<<r>> \o s) : (<<r>> \o s)[j] = s[i]
  <1> DEFINE t == <<r>> \o s
  <1>1. /\ t \in Seq(S) /\ Len(t) = Len(s) + 1
        /\ \A i \in 1..Len(s) : t[i + 1] = s[i]
    OBVIOUS
  <1>2. DOMAIN t = 1..Len(s) + 1 /\ DOMAIN s = 1..Len(s) /\ Len(s) \in Nat
    BY <1>1
  <1>3. \A i \in 1..Len(s) : i + 1 \in 1..Len(s) + 1
    BY <1>2
  <1> HIDE DEF t
  <1> QED BY <1>1, <1>2, <1>3 DEF t

LEMMA CreateDirIs ==
  ASSUME NEW map, map \in [DOMAIN map -> Seq(LocalEntries)], NEW name \in AllNames
  PROVE  LET m == CreateDir(map, name)
         IN  /\ m \in [DOMAIN m -> Seq(LocalEntries)]
             /\ DOMAIN m \subseteq DOMAIN map \cup {Append(Real(map, dirL), name)}
             /\ \A d \in DOMAIN map :
                  d \in DOMAIN m /\ \A i \in DOMAIN map[d] : \E j \in DOMAIN m[d] :
                                      m[d][j] = map[d][i]
  <1> DEFINE at == Real(map, dirL)
             d == Append(at, name)
             m == CreateDir(map, name)
             D == DOMAIN map \cup {d}
             new == <<NewRecord(name)>>
             made(e) == IF e = d THEN <<>> ELSE IF e = at THEN new \o map[e] ELSE map[e]
  <1>1. CASE m = map
    BY <1>1
  <1>2. CASE m # map
    <2>1. m = [e \in D |-> made(e)] /\ d \notin DOMAIN map
      BY <1>2 DEF CreateDir
    <2>2. NewRecord(name) \in LocalEntries
      <3> DEFINE c == FALSE
                 g == [name |-> name, kind |-> "D", size |-> 0, mark |-> c]
      <3>1. NewRecord(name) = g
        BY DEF NewRecord
      <3>2. c \in BOOLEAN /\ ~c
        OBVIOUS
      <3> HIDE DEF c
      <3>3. g \in Record /\ g.mark = c /\ g.kind = "D"
        BY <3>2 DEF Record
      <3> QED BY <3>1, <3>2, <3>3 DEF LocalEntries, Of, Unmarked
    <2>3. ASSUME NEW e \in DOMAIN map
          PROVE  /\ new \o map[e] \in Seq(LocalEntries)
                 /\ \A i \in DOMAIN map[e] : \E j \in DOMAIN (new \o map[e]) :
                      (new \o map[e])[j] = map[e][i]
      <3>1. map[e] \in Seq(LocalEntries)
        OBVIOUS
      <3> QED BY <2>2, <3>1, PutBefore
    <2> HIDE DEF new
    <2>4. \A e \in D : made(e) \in Seq(LocalEntries)
      <3>1. <<>> \in Seq(LocalEntries)
        OBVIOUS
      <3> QED BY <2>3, <3>1
    <2>5. m \in [D -> Seq(LocalEntries)]
      <3> HIDE DEF made, m, D
      <3> QED BY <2>1, <2>4
    <2>6. \A e \in DOMAIN map : e \in D /\ e # d /\ m[e] = made(e)
      BY <2>1
    <2>7. \A e \in DOMAIN map : \A i \in DOMAIN map[e] : \E j \in DOMAIN m[e] :
            m[e][j] = map[e][i]
      <3> SUFFICES ASSUME NEW e \in DOMAIN map, NEW i \in DOMAIN map[e]
                   PROVE  \E j \in DOMAIN m[e] : m[e][j] = map[e][i]
        OBVIOUS
      <3>1. m[e] = IF e = at THEN new \o map[e] ELSE map[e]
        BY <2>6
      <3> HIDE DEF m, D
      <3>2. CASE e = at
        <4>1. m[e] = new \o map[e]
          BY <3>1, <3>2
        <4> QED BY <2>3, <4>1
      <3>3. CASE e # at
        BY <3>1, <3>3
      <3> QED BY <3>2, <3>3
    <2>8. DOMAIN m = D
      BY <2>5
    <2> HIDE DEF m
    <2> QED BY <2>5, <2>6, <2>7, <2>8 DEF m
  <1> QED BY <1>1, <1>2

(* The directory is made in the one that the panel shows.                  *)
LEMMA MadeIs ==
  ASSUME CommanderHolds, MakeDir
  PROVE  \E d \in NewDirs : /\ Last(d) \in AllNames /\ local' = CreateDir(local, Last(d))
                            /\ Append(Real(local, dirL), Last(d)) = d
                            /\ GoLeft(local', order.left, dirL, "")
  <1>1. PICK d \in NewDirs : /\ d # <<>> /\ Parent(d) = Real(local, dirL)
                             /\ local' = CreateDir(local, Last(d))
                             /\ GoLeft(local', order.left, dirL, "")
    BY DEF MakeDir
  <1>2. d \in Seq(AllNames) /\ Len(d) > 0
    <2>1. d \in Seq(AllNames)
      BY <1>1, CommanderAssumption
    <2>2. d # <<>>
      BY <1>1
    <2>3. ASSUME NEW S, NEW s \in Seq(S), s # <<>> PROVE Len(s) > 0
      BY <2>3
    <2> QED BY ONLY <2>1, <2>2, <2>3
  <1>3. Last(d) \in AllNames /\ Append(Parent(d), Last(d)) = d
    BY <1>2 DEF Last, Parent
  <1> QED BY <1>1, <1>3

LEMMA MakeDirStep ==
  ASSUME CommanderHolds, MakeDir
  PROVE  CommanderHolds'
  <1>1. /\ dirL \in Seq(AllNames) /\ local \in [DOMAIN local -> Seq(LocalEntries)]
        /\ selected \in Sides /\ LocalType(local)
    BY DEF CommanderHolds, LocalsHold, LocalType
  <1>2. AnyKey /\ UNCHANGED <<selected, network>>
    BY DEF MakeDir, KeyIn
  <1>3. PICK d \in NewDirs : /\ Last(d) \in AllNames /\ local' = CreateDir(local, Last(d))
                             /\ Append(Real(local, dirL), Last(d)) = d
                             /\ GoLeft(local', order.left, dirL, "")
    BY MadeIs
  <1>4. /\ local' \in [DOMAIN local' -> Seq(LocalEntries)]
        /\ DOMAIN local' \subseteq DOMAIN local \cup {d}
    BY <1>1, <1>3, CreateDirIs
  <1>5. LocalType(local')
    BY <1>1, <1>4 DEF LocalType
  <1> QED BY <1>1, <1>2, <1>3, <1>4, <1>5, GoLeftStep

(* Ctrl-D: what is chosen is marked, or the record under the cursor if     *)
(* nothing is.                                                             *)
LEMMA ChosenIs ==
  ASSUME NEW p \in Panels(Record)
  PROVE  Chosen(p) \in Seq(Record)
  <1> DEFINE P == {i \in DOMAIN p.list : p.list[i].mark}
             c == Chosen(p)
  <1>1. p.list \in Seq(Record) /\ P \subseteq 1..Len(p.list)
    BY DEF Panels
  <1>2. Marked(p) = {p.list[i] : i \in P}
    BY DEF Marked
  <1> HIDE DEF P
  <1>3. CASE Marked(p) # {}
    <2>1. c = Keep(p.list, P)
      BY <1>3 DEF Chosen, P
    <2>2. c \in Seq(Record) /\ Elems(c) = Marked(p)
      BY <1>1, <1>2, <2>1, KeepIs
    <2> QED BY <1>3, <2>2
  <1>4. CASE Marked(p) = {} /\ InList(p) /\ Current(p).name # ".."
    <2>1. c = <<Current(p)>>
      BY <1>4 DEF Chosen
    <2>2. Current(p) \in Record
      BY <1>1, <1>4, PanelType DEF Current, InList, At, Count
    <2>3. c \in Seq(Record) /\ Elems(c) = {Current(p)}
      BY <2>1, <2>2 DEF Elems
    <2> QED BY <1>4, <2>3
  <1>5. CASE Marked(p) = {} /\ ~(InList(p) /\ Current(p).name # "..")
    <2>1. c = <<>>
      BY <1>5 DEF Chosen
    <2> QED BY <2>1 DEF Elems
  <1> QED BY <1>3, <1>4, <1>5

(* The disk after a delete.                                                *)
AfterDelete == RemoveUpTo([map |-> local, crash |-> FALSE], Chosen(Active))[Len(Chosen(Active))]

LEMMA DeletedIs ==
  ASSUME CommanderHolds, DeleteLeft
  PROVE  /\ AfterDelete \in Disks(DOMAIN local)
         /\ Spared(Targets(panel.left), AfterDelete.map)
  <1> DEFINE D == DOMAIN local
             c == FALSE
             first == [map |-> local, crash |-> c]
             records == Chosen(Active)
             n == Len(records)
             T == Targets(panel.left)
             S == {x \in Disks(D) : Spared(T, x.map) /\ Shrunk(x.map)}
             Named == {r \in Record : r.name \in T}
  <1>1. /\ dirL \in Seq(AllNames) /\ local \in [D -> Seq(LocalEntries)]
        /\ panel.left \in Panels(Record) /\ LocalType(local)
    BY DEF CommanderHolds, LocalsHold, LocalType, PanelsHold, Sides
  <1>2. Active = panel.left
    BY DEF DeleteLeft, KeyIn, Active
  <1>3. first \in Disks(D) /\ first.map = local
    <2>1. local \in Locals(D)
      BY <1>1, LocalsAre
    <2>2. c \in BOOLEAN
      OBVIOUS
    <2> HIDE DEF c, D
    <2> QED BY <2>1, <2>2 DEF Disks
  <1>4. /\ records \in Seq(Record) /\ n \in Nat /\ n \in 0..n
        /\ \A r \in Elems(records) : r.name \in T
    <2>1. records \in Seq(Record) /\ T = {r.name : r \in ToSet(records)}
      BY <1>1, <1>2, ChosenIs DEF Targets
    <2> HIDE DEF records, T
    <2>2. ToSet(records) = Elems(records)
      BY <2>1 DEF ToSet, Elems
    <2> QED BY <2>1, <2>2
  <1>5. AfterDelete = RemoveUpTo(first, records)[n]
    BY DEF AfterDelete
  <1> HIDE DEF records, first, c, D
  <1>6. AfterDelete \in Disks(D)
    <2>1. \A x \in Disks(D), q \in Record : RemoveRecord(x, q) \in Disks(D)
      BY RemovingIs
    <2>2. RemoveUpTo(first, records) \in [0..n -> Disks(D)]
      BY <1>3, <1>4, <2>1, RemoveUpToIs
    <2> QED BY <1>4, <1>5, <2>2
  <1>7. Spared(T, AfterDelete.map)
    <2>2. records \in Seq(Named)
      <3>1. \A i \in 1..n : records[i] \in Record /\ records[i] \in Elems(records)
        BY <1>4 DEF Elems
      <3>2. \A i \in 1..n : records[i] \in Named
        BY <1>4, <3>1
      <3> HIDE DEF Named
      <3> QED BY <1>4, <3>2
    <2> HIDE DEF T
    <2>3. first \in S
      <3>1. Spared(T, local) /\ Shrunk(local)
        BY DEF Spared, Shrunk
      <3> QED BY <1>3, <3>1
    <2>4. \A x \in S, q \in Named : RemoveRecord(x, q) \in S
      <3> SUFFICES ASSUME NEW x \in S, NEW q \in Named PROVE RemoveRecord(x, q) \in S
        OBVIOUS
      <3>1. RemoveRecord(x, q) \in Disks(D) /\ Shrunk(RemoveRecord(x, q).map)
        BY RemovingIs
      <3>2. Spared(T, RemoveRecord(x, q).map)
        BY <1>1, RemoveSpares DEF D
      <3> QED BY <3>1, <3>2
    <2> HIDE DEF Named
    <2> HIDE DEF S
    <2>5. RemoveUpTo(first, records) \in [0..n -> S]
      BY <2>2, <2>3, <2>4, RemoveUpToIs
    <2>6. AfterDelete \in S
      BY <1>4, <1>5, <2>5
    <2> QED BY <2>6 DEF S
  <1> QED BY <1>6, <1>7 DEF D, T

LEMMA DeleteStep ==
  ASSUME CommanderHolds, DeleteLeft
  PROVE  CommanderHolds'
  <1>1. /\ dirL \in Seq(AllNames) /\ selected \in Sides
        /\ PanelsHold /\ LostHolds /\ LocalsHold /\ ReadHolds /\ PlacesHold
    BY DEF CommanderHolds, LocalsHold
  <1>2. /\ AnyKey /\ local' = AfterDelete.map /\ UNCHANGED <<selected, network>>
        /\ IF AfterDelete.crash THEN ended' = "crash" /\ UNCHANGED <<panels, dirL>>
           ELSE GoLeft(AfterDelete.map, order.left, dirL, "")
    BY DEF DeleteLeft, KeyIn, AfterDelete
  <1>3. AfterDelete.map \in [DOMAIN AfterDelete.map -> Seq(LocalEntries)]
    <2>1. AfterDelete.map \in Locals(DOMAIN local)
      BY DeletedIs DEF Disks
    <2> QED BY <2>1, LocalsAre
  <1>4. LocalType(local')
    <2>1. AfterDelete.map \in Locals(DOMAIN local)
      BY DeletedIs DEF Disks
    <2>2. DOMAIN AfterDelete.map \subseteq DOMAIN local
      BY <2>1, LocalsAre
    <2> QED BY <1>1, <1>2, <1>3, <2>2 DEF LocalsHold, LocalType
  <1>5. CASE AfterDelete.crash
    <2>1. ended' = "crash" /\ UNCHANGED <<panels, dirL>>
      BY <1>2, <1>5
    <2>2. PanelsHold' /\ LostHolds'
      BY <1>1, <2>1, PanelsSame
    <2>3. LocalsHold'
      BY <1>1, <1>4, <2>1 DEF LocalsHold
    <2>4. ReadHolds'
      BY <1>1, <1>2, RestSame
    <2>5. PlacesHold'
      BY <1>1, <1>2, <2>1 DEF PlacesHold, network, panels
    <2> QED BY <1>1, <1>2, <2>1, <2>2, <2>3, <2>4, <2>5 DEF CommanderHolds
  <1>6. CASE ~AfterDelete.crash
    <2>1. GoLeft(AfterDelete.map, order.left, dirL, "")
      BY <1>2, <1>6
    <2> QED BY <1>1, <1>2, <1>3, <1>4, <2>1, GoLeftStep
  <1> QED BY <1>5, <1>6

(* 'e', 'w' and 't'.                                                       *)
LEMMA OrderStep ==
  ASSUME CommanderHolds, KeyOrder
  PROVE  CommanderHolds'
  <1>1. AnyKey /\ UNCHANGED <<selected, local>>
    BY DEF KeyOrder
  <1>2. /\ dirL \in Seq(AllNames) /\ local \in [DOMAIN local -> Seq(LocalEntries)]
        /\ selected \in Sides /\ level \in 0..3 /\ LocalType(local')
    BY <1>1 DEF CommanderHolds, LocalsHold, LocalType, ReadHolds
  <1>3. CASE selected = "left"
    <2>1. GoLeft(local, order'.left, dirL, "") /\ UNCHANGED network
      BY <1>3 DEF KeyOrder
    <2> QED BY <1>1, <1>2, <2>1, GoLeftStep
  <1>4. CASE selected # "left"
    <2>1. Ask("refresh", level, place, "")
          /\ UNCHANGED <<panels, level, place, dirL, ended>>
      BY <1>4 DEF KeyOrder
    <2> QED BY <1>1, <1>2, <2>1, AskOnlyStep
  <1> QED BY <1>3, <1>4
-----------------------------------------------------------------------------
(* The start.                                                              *)
LEMMA CommanderStarts ==
  ASSUME CommanderInit
  PROVE  CommanderHolds
  <1>0. PICK answer \in Readings(Local, Start) :
          LET how == [StartOrder.left EXCEPT !.reverse = StartOrder.right.reverse]
              top == [first |-> 0, pos |-> 0, list |-> <<UpRecord>>]
          IN  /\ panel = [left |-> [top EXCEPT !.list = InitList(answer, how)],
                          right |-> top]
              /\ shown = [left  |-> [from |-> Start, records |-> Answered(answer),
                                    how |-> how, stale |-> FALSE],
                          right |-> [from |-> <<level, place>>, records |-> <<>>,
                                     how |-> StartOrder.right, stale |-> FALSE]]
              /\ astray = [s \in Sides |-> FALSE]
              /\ read = [why |-> "refresh", at |-> level, to |-> place, name |-> "",
                         count |-> Retry, found |-> FALSE]
    BY DEF CommanderInit
  <1> DEFINE how == [StartOrder.left EXCEPT !.reverse = StartOrder.right.reverse]
             l == InitList(answer, how)
             u == <<UpRecord>>
             p == [list |-> l, first |-> 0, pos |-> 0]
             q == [list |-> u, first |-> 0, pos |-> 0]
             c == FALSE
             x == [from |-> Start, records |-> Answered(answer), how |-> how, stale |-> c]
             y == [from |-> <<level, place>>, records |-> <<>>, how |-> StartOrder.right,
                   stale |-> c]
             g == [why |-> "refresh", at |-> level, to |-> place, name |-> "",
                   count |-> Retry, found |-> c]
  <1>1. /\ panel = [left |-> p, right |-> q] /\ shown = [left |-> x, right |-> y]
        /\ astray = [s \in Sides |-> c] /\ read = g
    BY <1>0
  <1>2. /\ selected = "right" /\ local = Local /\ dirL = Start
        /\ level = LEVEL_WORKGROUPS /\ place = Nowhere /\ tries = 0 /\ ended = "no"
    BY DEF CommanderInit
  <1>3. c \in BOOLEAN /\ ~c
    OBVIOUS
  <1>4. /\ Local \in [DOMAIN Local -> Seq(LocalEntries)] /\ Start \in Seq(AllNames)
        /\ Retry \in Int /\ MaxTries \in Nat
    BY CommanderAssumption DEF LocalEntries
  <1>5. answer \in Listings \cup {Refused}
    BY <1>4, ReadingsAre
  <1>6. /\ l \in Seq(Record) /\ Len(l) >= 1 /\ Answered(answer) \in Seq(Unmarked)
        /\ Plain(l) \in Arrangements(Unmarked, <<UpRecord>> \o Answered(answer))
        /\ SortedButLast(Plain(l), how)
    BY <1>5, InitListIs
  <1>7. /\ u \in Seq(Record) /\ Len(u) = 1
        /\ Plain(u) \in Arrangements(Unmarked, <<UpRecord>> \o <<>>)
        /\ \A o : SortedButLast(Plain(u), o)
    <2>1. u \in Seq(Unmarked) /\ u \in Seq(Record) /\ Len(u) = 1
      BY UpIsRecord DEF Unmarked
    <2>2. Plain(u) = u
      BY <2>1, PlainIs
    <2>3. u \o <<>> = u
      BY <2>1
    <2>4. u \in Arrangements(Unmarked, u)
      BY <2>1, ItselfIs
    <2>5. ASSUME NEW o PROVE SortedButLast(u, o)
      <3>1. 2..1 = {}
        OBVIOUS
      <3> HIDE DEF u
      <3> QED BY <2>1, <3>1 DEF SortedButLast
    <2> QED BY <2>1, <2>2, <2>3, <2>4, <2>5
  <1> HIDE DEF how, l, u, c
  <1>8. /\ p.list = l /\ p.first = 0 /\ p.pos = 0
        /\ q.list = u /\ q.first = 0 /\ q.pos = 0
    OBVIOUS
  <1>9. p \in Panels(Record) /\ q \in Panels(Record) /\ Count(p) >= 1 /\ Count(q) >= 1
    <2>1. p \in Panels(Record) /\ q \in Panels(Record)
      BY <1>6, <1>7 DEF Panels
    <2>2. Count(p) = Len(l) /\ Count(q) = Len(u)
      BY <1>8 DEF Count
    <2> HIDE DEF p, q
    <2> QED BY <1>6, <1>7, <2>1, <2>2
  <1>10. /\ x.records = Answered(answer) /\ x.from = Start /\ x.how = how
         /\ x = [from |-> x.from, records |-> x.records, how |-> x.how, stale |-> x.stale]
    OBVIOUS
  <1>11. /\ y.records = <<>> /\ y.from = <<level, place>>
         /\ y = [from |-> y.from, records |-> y.records, how |-> y.how, stale |-> y.stale]
    OBVIOUS
  <1>12. /\ g.why = "refresh" /\ g.at = level /\ g.count = Retry /\ g.found = c
         /\ g = [why |-> g.why, at |-> g.at, to |-> g.to, name |-> g.name,
                 count |-> g.count, found |-> g.found]
    OBVIOUS
  <1> HIDE DEF p, q, x, y, g
  <1>13. PanelHolds(p, c, x) /\ PanelHolds(q, c, y)
    <2>1. InWindow(p) /\ InWindow(q)
      BY <1>8, <1>9, PanelType DEF InWindow, InList, At
    <2>2. <<>> \in Seq(Unmarked)
      OBVIOUS
    <2> QED BY <1>3, <1>6, <1>7, <1>8, <1>9, <1>10, <1>11, <2>1, <2>2
          DEF PanelHolds, Listed
  <1>14. \A s \in Sides : PanelHolds(panel[s], astray[s], shown[s])
    BY <1>1, <1>13 DEF Sides
  <1>15. /\ panel \in [Sides -> Panels(Record)] /\ astray \in [Sides -> BOOLEAN]
         /\ DOMAIN shown = Sides /\ shown = [s \in Sides |-> shown[s]]
    <2>1. panel \in [Sides -> Panels(Record)]
      BY <1>1, <1>9 DEF Sides
    <2>2. astray \in [Sides -> BOOLEAN]
      BY <1>1, <1>3
    <2>3. DOMAIN shown = Sides /\ shown = [s \in Sides |-> shown[s]]
      BY <1>1 DEF Sides
    <2> QED BY <2>1, <2>2, <2>3
  <1>16. PanelsHold
    BY <1>14, <1>15 DEF PanelsHold
  <1>17. LostHolds
    BY <1>2 DEF LostHolds
  <1>18. LocalsHold
    BY <1>2, <1>4 DEF LocalsHold, LocalType
  <1>19. ReadType(read)
    BY <1>1, <1>2, <1>3, <1>4, <1>12 DEF ReadType, LEVEL_WORKGROUPS
  <1>20. ReadHolds
    <2>1. level \in 0..3 /\ tries \in 0..MaxTries
      BY <1>2, <1>4 DEF LEVEL_WORKGROUPS
    <2>2. Retry >= 0 => Counts(read, tries)
      BY <1>1, <1>2, <1>4, <1>12 DEF Counts
    <2> QED BY <1>19, <2>1, <2>2 DEF ReadHolds
  <1>21. PlacesHold
    <2>1. /\ shown["left"].from = dirL /\ shown["right"].from = <<level, place>>
          /\ shown["right"].records = <<>> /\ read.why # "down"
      BY <1>1, <1>2, <1>10, <1>11, <1>12
    <2> QED BY <2>1 DEF PlacesHold, DirsAmong
  <1> QED BY <1>2, <1>16, <1>17, <1>18, <1>20, <1>21 DEF CommanderHolds, Sides

LEMMA CommanderSteps ==
  ASSUME CommanderHolds, [CommanderNext]_vars
  PROVE  CommanderHolds'
  <1>1. CASE UNCHANGED vars
    <2>1. /\ PanelsHold /\ LostHolds /\ LocalsHold /\ ReadHolds /\ PlacesHold
          /\ UNCHANGED <<panels, selected, dirL, local, network, shown, ended>>
      BY <1>1 DEF CommanderHolds, vars, panels, network
    <2>2. PanelsHold' /\ LostHolds' /\ LocalsHold' /\ ReadHolds' /\ PlacesHold'
      BY <2>1, PanelsSame, RestSame
    <2> QED BY <2>1, <2>2 DEF CommanderHolds
  <1>2. CASE Attempt BY <1>2, AttemptStep
  <1>3. CASE Lost \/ KeyTab \/ Quit BY <1>3, OthersStep
  <1>4. CASE UpRight \/ EnterRight \/ RefreshRight \/ Goto \/ Find \/ BookmarkRight
    BY <1>4, RightKeysStep
  <1>5. CASE EnterLeft \/ RefreshLeft BY <1>5, LeftKeysStep
  <1>6. CASE BookmarkLeft BY <1>6, BookmarkLeftStep
  <1>7. CASE DeleteLeft BY <1>7, DeleteStep
  <1>8. CASE MakeDir BY <1>8, MakeDirStep
  <1>9. CASE KeyHome BY <1>9, HomeStep
  <1>10. CASE KeyDown \/ KeyUp \/ KeyEnd \/ KeyPageUp \/ KeyPageDown BY <1>10, KeysStep
  <1>11. CASE KeyMark \/ KeyMarkAll \/ KeyMarkNone \/ KeyMarkOthers BY <1>11, MarksStep
  <1>12. CASE KeyOrder BY <1>12, OrderStep
  <1>13. CASE Resize BY <1>13, ResizeStep
  <1> QED BY <1>1, <1>2, <1>3, <1>4, <1>5, <1>6, <1>7, <1>8, <1>9, <1>10, <1>11,
             <1>12, <1>13 DEF CommanderNext

LEMMA CommanderAlways == CommanderSpec => []CommanderHolds
  <1>1. CommanderInit => CommanderHolds
    BY CommanderStarts
  <1>2. CommanderHolds /\ [CommanderNext]_vars => CommanderHolds'
    BY CommanderSteps
  <1> QED BY <1>1, <1>2, PTL DEF CommanderSpec

(* The types of the variables, for any network and any directories.        *)
THEOREM CommanderTyped == CommanderSpec => []TypeOK
  <1>1. CommanderHolds => TypeOK
    <2> SUFFICES ASSUME CommanderHolds PROVE TypeOK
      OBVIOUS
    <2>1. \A s \in Sides : /\ panel[s].first \in Nat /\ panel[s].pos \in Nat
                           /\ panel[s].list \in Seq(Record)
      BY DEF CommanderHolds, PanelsHold, Panels
    <2>2. level \in LEVEL_WORKGROUPS..LEVEL_FILES
      BY DEF CommanderHolds, ReadHolds, LEVEL_WORKGROUPS, LEVEL_FILES
    <2>3. \A s \in Sides : \A i \in DOMAIN panel[s].list : panel[s].list[i] \in Record
      BY <2>1
    <2> QED BY <2>1, <2>2, <2>3 DEF TypeOK, CommanderHolds, PanelsHold, ReadHolds
  <1> QED BY <1>1, CommanderAlways, PTL

(* However the keys, the answers of the network and the changes of the     *)
(* window follow on each other, the cursor of a panel is on a record and   *)
(* in the window, unless it went astray: put by name on the row below the  *)
(* window, or left where it was by a name that is not in the list; and the *)
(* program kills itself for a record that is not there (RwriteMenuTxt,     *)
(* RgoToRecordInTTlist) only after a cursor went astray.  It is so in a    *)
(* window of at least two rows; in one of a single row a cursor that is    *)
(* put on a record far below shows the record above (RsetSelect).          *)
THEOREM CursorStays == Rows > 1 => (CommanderSpec => []CursorInside)
  <1> SUFFICES ASSUME Rows > 1 PROVE CommanderSpec => []CursorInside
    OBVIOUS
  <1>1. CommanderHolds => CursorInside
    BY DEF CommanderHolds, PanelsHold, PanelHolds, LostHolds, CursorInside
  <1> QED BY <1>1, CommanderAlways, PTL

(* For lists of any length and any order of their records: what a panel    *)
(* shows is ".." and what was read, each record as often, however it was   *)
(* sorted and marked (RsortList, RrotateTwoRecords).                       *)
THEOREM ListsAreComplete == CommanderSpec => []PanelsComplete
  <1>1. CommanderHolds => PanelsComplete
    <2> SUFFICES ASSUME CommanderHolds, NEW s \in Sides
                 PROVE  SameRecords(Plain(panel[s].list), <<UpRecord>> \o shown[s].records)
      BY DEF PanelsComplete
    <2>1. Listed(panel[s], shown[s]) /\ shown[s].records \in Seq(Unmarked)
      BY DEF CommanderHolds, PanelsHold, PanelHolds
    <2>2. <<UpRecord>> \o shown[s].records \in Seq(Unmarked)
      BY <2>1, UpIsRecord
    <2> QED BY <2>1, <2>2, ArrangedIsSame DEF Listed
  <1> QED BY <1>1, CommanderAlways, PTL

(* For any names and any order of them that is transitive and asymmetric,  *)
(* and for lists of any length: a panel is sorted as it was asked for, but *)
(* for its last record and for descending names that cannot be ranked      *)
(* (RsortList, RpreSort, RrecSort).                                        *)
THEOREM ListsAreSorted == CommanderSpec => []PanelsSorted
  <1>1. CommanderHolds => PanelsSorted
    <2> SUFFICES ASSUME CommanderHolds, NEW s \in Sides
                 PROVE  SortedButLast(panel[s].list, shown[s].how)
      BY DEF PanelsSorted
    <2>1. Listed(panel[s], shown[s]) /\ panel[s] \in Panels(Record)
      BY DEF CommanderHolds, PanelsHold, PanelHolds
    <2>2. panel[s].list \in Seq(Record)
      BY <2>1 DEF Panels
    <2> QED BY <2>1, <2>2, SortedPlain DEF Listed
  <1> QED BY <1>1, CommanderAlways, PTL

(* Whenever a key is awaited the title of a panel names the place that its *)
(* list was read from, unless a bookmark led to one that cannot be read,   *)
(* or a directory was entered from the list that the bookmark left: at any *)
(* level, since Enter on a directory does not set it.                      *)
THEOREM ListsAreOfTheirPlace == CommanderSpec => []ListIsOfPlace
  <1>1. CommanderHolds => ListIsOfPlace
    BY DEF CommanderHolds, PlacesHold, ListIsOfPlace
  <1> QED BY <1>1, CommanderAlways, PTL

(* Of any number of attempts that is configured (RretryReadGroups and the  *)
(* others), however refusals and empty lists follow on each other.         *)
THEOREM AttemptsAreCounted == CommanderSpec => []RetriesCounted
  <1>1. CommanderHolds => RetriesCounted
    <2> SUFFICES ASSUME CommanderHolds, read # NotReading, Retry >= 0,
                        read.found => read.at = LEVEL_HOSTS
                 PROVE  tries <= Retry
      BY DEF RetriesCounted
    <2>1. Counts(read, tries) /\ read.count \in Int /\ tries \in 0..MaxTries
      BY DEF CommanderHolds, ReadHolds, ReadType
    <2>2. Retry \in Int /\ MaxTries \in Nat
      BY CommanderAssumption
    <2> QED BY <2>1, <2>2 DEF Counts
  <1> QED BY <1>1, CommanderAlways, PTL

(* In a list of any length, whoever goes up finds the cursor on a record   *)
(* of the name he came from, if there is one (RsetSelect).                 *)
THEOREM ComesBackUp == CommanderSpec => ComesBack
  <1> DEFINE A == read.why = "up" /\ read' = NotReading /\ read.name \in Names(panel'.right)
                    => Current(panel'.right).name = read.name
  <1>1. CommanderHolds /\ CommanderHolds' /\ [CommanderNext]_vars => [A]_vars
    <2> SUFFICES ASSUME CommanderHolds, CommanderHolds', CommanderNext,
                        read.why = "up", read' = NotReading,
                        read.name \in Names(panel'.right)
                 PROVE  Current(panel'.right).name = read.name
      OBVIOUS
    <2>1. panel'.right = panel'["right"]
      BY DEF CommanderHolds, PanelsHold, Sides
    <2>2. read # NotReading
      BY DEF NotReading
    <2>3. Attempt
      BY <2>2 DEF CommanderNext, Lost, UpRight, EnterRight, RefreshRight, Goto, Find,
           BookmarkRight, EnterLeft, RefreshLeft, BookmarkLeft, DeleteLeft, MakeDir,
           KeyHome, KeyDown, KeyUp, KeyEnd, KeyPageUp, KeyPageDown, KeyMark, KeyMarkAll,
           KeyMarkNone, KeyMarkOthers, KeyTab, KeyOrder, Resize, Quit, Key, KeyIn,
           OnRecord, AnyKey, network
    <2> QED BY <2>1, <2>3, AttemptStep DEF Comes
  <1>2. CommanderSpec => [][A]_vars
    BY <1>1, CommanderAlways, PTL DEF CommanderSpec
  <1> QED BY <1>2 DEF ComesBack

(* Of directories of any size and depth and any links between them: a      *)
(* delete takes away nothing but the records that are marked or under the  *)
(* cursor, and what is in and below the directories that their paths lead  *)
(* to (RremoveDir), which are elsewhere for a link and above for "..";     *)
(* no other key takes away anything.                                       *)
THEOREM DeletesNothingElse == CommanderSpec => NothingElseDeleted
  <1> DEFINE A == Spared(Targets(panel.left), local')
  <1>1. CommanderHolds /\ CommanderHolds' /\ [CommanderNext]_vars => [A]_vars
    <2> SUFFICES ASSUME CommanderHolds, CommanderNext
                 PROVE  Spared(Targets(panel.left), local')
      OBVIOUS
    <2>1. CASE local' = local
      BY <2>1 DEF Spared
    <2>2. CASE DeleteLeft
      <3>1. local' = AfterDelete.map
        BY <2>2 DEF DeleteLeft, AfterDelete
      <3> QED BY <2>2, <3>1, DeletedIs
    <2>3. CASE MakeDir
      <3>1. local \in [DOMAIN local -> Seq(LocalEntries)]
        BY DEF CommanderHolds, LocalsHold, LocalType
      <3>2. PICK d \in NewDirs : Last(d) \in AllNames /\ local' = CreateDir(local, Last(d))
        BY <2>3, MadeIs
      <3>3. \A e \in DOMAIN local :
              e \in DOMAIN local' /\ \A i \in DOMAIN local[e] : \E j \in DOMAIN local'[e] :
                                       local'[e][j] = local[e][i]
        <4> DEFINE m == CreateDir(local, Last(d))
        <4>1. \A e \in DOMAIN local :
                e \in DOMAIN m /\ \A i \in DOMAIN local[e] : \E j \in DOMAIN m[e] :
                                    m[e][j] = local[e][i]
          BY <3>1, <3>2, CreateDirIs
        <4>2. local' = m
          BY <3>2
        <4> HIDE DEF m
        <4> QED BY <4>1, <4>2
      <3> QED BY <3>3 DEF Spared
    <2>4. local' = local \/ DeleteLeft \/ MakeDir
      BY DEF CommanderNext, Lost, Attempt, GetMasterList, GetHostsFromGroup,
           GetSharesFromHost, GetFileFromDirR, Counted, UpRight, EnterRight,
           RefreshRight, Goto, Find, BookmarkRight, AskOnly, Move, EnterLeft, RefreshLeft,
           BookmarkLeft, KeyHome, KeyDown, KeyUp, KeyEnd, KeyPageUp, KeyPageDown, KeyMark,
           KeyMarkAll, KeyMarkNone, KeyMarkOthers, KeyTab, KeyOrder, Resize, Quit, Key
    <2> QED BY <2>1, <2>2, <2>3, <2>4
  <1>2. CommanderSpec => [][A]_vars
    BY <1>1, CommanderAlways, PTL DEF CommanderSpec
  <1>3. A <=> LET at == Real(local, dirL)
                  Taken(d) == \E t \in Targets(panel.left) : Under(Follow(local, at, t), d)
              IN  \A d \in DOMAIN local :
                    IF d \in DOMAIN local'
                    THEN \A i \in DOMAIN local[d] :
                           \/ local[d][i] \in {local'[d][j] : j \in DOMAIN local'[d]}
                           \/ d = at /\ local[d][i].name \in Targets(panel.left)
                           \/ Taken(d)
                    ELSE Taken(d)
    BY DEF Spared, TakenBy
  <1> QED BY <1>2, <1>3, PTL DEF NothingElseDeleted
=============================================================================
