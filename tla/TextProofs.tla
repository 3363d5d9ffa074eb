----------------------------- MODULE TextProofs -----------------------------
(***************************************************************************)
(* What the splitter and the masking compute, for any text.                *)
(***************************************************************************)
EXTENDS ClauseSplitter, PiiMasking, Induction, SequenceTheorems

-----------------------------------------------------------------------------
(* Places in an order.                                                     *)

\* The place of a in S when R orders S.
PlaceIn(S, R, a) == Cardinality({b \in S : b = a \/ <<b, a>> \in R})

Orders(R, S) ==
  /\ \A a, b \in S : <<a, b>> \in R => a # b /\ <<b, a>> \notin R
  /\ \A a, b \in S : a = b \/ <<a, b>> \in R \/ <<b, a>> \in R
  /\ \A a, b, c \in S : <<a, b>> \in R /\ <<b, c>> \in R => <<a, c>> \in R

\* The members of S have the places up to its size, in the order R, one at each.
Placed(S, R) ==
  /\ Cardinality(S) \in Nat
  /\ \A a \in S : PlaceIn(S, R, a) \in 1 .. Cardinality(S)
  /\ \A a, b \in S : <<a, b>> \in R => PlaceIn(S, R, a) < PlaceIn(S, R, b)
  /\ \A a, b \in S : PlaceIn(S, R, a) = PlaceIn(S, R, b) => a = b
  /\ \A k \in 1 .. Cardinality(S) : \E a \in S : PlaceIn(S, R, a) = k

\* The members of a finite set are placed.
LEMMA PlacesInOrder ==
  ASSUME NEW S, NEW R, IsFiniteSet(S), Orders(R, S)
  PROVE  Placed(S, R)
<1> DEFINE Upto(a) == {b \in S : b = a \/ <<b, a>> \in R}
<1>1. Cardinality(S) \in Nat
  BY FS_CardinalityType
<1>2. ASSUME NEW a \in S
      PROVE  /\ IsFiniteSet(Upto(a)) /\ Cardinality(Upto(a)) \in Nat
             /\ Cardinality(Upto(a)) <= Cardinality(S)
             /\ Cardinality(Upto(a)) # 0
  <2>1. Upto(a) \in SUBSET S /\ a \in Upto(a)
    OBVIOUS
  <2> HIDE DEF Upto
  <2>2. IsFiniteSet(Upto(a)) /\ Cardinality(Upto(a)) <= Cardinality(S)
    BY <2>1, FS_Subset
  <2> QED
    BY <2>1, <2>2, FS_CardinalityType, FS_EmptySet
<1>3. ASSUME NEW a \in S, NEW b \in S, <<a, b>> \in R
      PROVE  Cardinality(Upto(a)) < Cardinality(Upto(b))
  <2>1. Upto(a) \in SUBSET Upto(b)
    BY <1>3 DEF Orders
  <2>2. b \in Upto(b) /\ b \notin Upto(a)
    BY <1>3 DEF Orders
  <2> HIDE DEF Upto
  <2>3. Cardinality(Upto(a)) <= Cardinality(Upto(b)) /\ Cardinality(Upto(a)) # Cardinality(Upto(b))
    BY <1>2, <2>1, <2>2, FS_Subset
  <2> QED
    BY <1>2, <2>3
<1>4. ASSUME NEW a \in S, NEW b \in S, Cardinality(Upto(a)) = Cardinality(Upto(b))
      PROVE  a = b
  <2> HIDE DEF Upto
  <2>1. a = b \/ <<a, b>> \in R \/ <<b, a>> \in R
    BY DEF Orders
  <2> QED
    BY <1>2, <1>3, <1>4, <2>1
<1> DEFINE T == 1 .. Cardinality(S)
           f == [a \in S |-> Cardinality(Upto(a))]
<1>5. ASSUME NEW k \in T PROVE \E a \in S : Cardinality(Upto(a)) = k
  <2>1. IsFiniteSet(T) /\ Cardinality(T) = Cardinality(S)
    BY <1>1, UpTo
  <2>2. f \in [S -> T]
    <3> HIDE DEF Upto
    <3> QED BY <1>1, <1>2
  <2>3. f \in Injection(S, T)
    <3> HIDE DEF Upto, T
    <3> QED BY <1>4, <2>2 DEF Injection, IsInjective
  <2>4. f \in Surjection(S, T)
    <3> HIDE DEF f, T
    <3> QED BY <2>1, <2>3, FS_Injection
  <2>5. \E a \in S : f[a] = k
    <3> HIDE DEF f, T
    <3> QED BY <2>4 DEF Surjection
  <2> QED
    BY <2>5
<1>6. \A a \in S : PlaceIn(S, R, a) = Cardinality(Upto(a))
  BY DEF PlaceIn
<1> HIDE DEF Upto
<1>7. \A a \in S : PlaceIn(S, R, a) \in 1 .. Cardinality(S)
  BY <1>1, <1>2, <1>6
<1>8. \A a, b \in S : <<a, b>> \in R => PlaceIn(S, R, a) < PlaceIn(S, R, b)
  BY <1>3, <1>6
<1>9. \A a, b \in S : PlaceIn(S, R, a) = PlaceIn(S, R, b) => a = b
  BY <1>4, <1>6
<1>10. \A k \in 1 .. Cardinality(S) : \E a \in S : PlaceIn(S, R, a) = k
  BY <1>5, <1>6
<1> QED
  BY <1>1, <1>7, <1>8, <1>9, <1>10 DEF Placed

\* The numbers in a finite set, and what is picked at them.
LEMMA NumbersInOrder ==
  ASSUME NEW S, S \subseteq Int, IsFiniteSet(S)
  PROVE  /\ Cardinality(S) \in Nat
         /\ \A n \in S : Rank(S, n) \in 1 .. Cardinality(S) /\ Nth(S, Rank(S, n)) = n
         /\ \A m, n \in S : m < n => Rank(S, m) < Rank(S, n)
         /\ \A k \in 1 .. Cardinality(S) : Nth(S, k) \in S /\ Rank(S, Nth(S, k)) = k
<1>0. PICK R : \A m, n : <<m, n>> \in R <=> m \in S /\ n \in S /\ m < n
  <2> WITNESS {p \in S \X S : p[1] < p[2]}
  <2> QED OBVIOUS
<1>1. Orders(R, S)
  BY <1>0 DEF Orders
<1>2. \A n \in S : Rank(S, n) = PlaceIn(S, R, n)
  <2> TAKE n \in S
  <2>1. \A m \in S : m <= n <=> m = n \/ <<m, n>> \in R
    BY <1>0
  <2>2. {m \in S : m <= n} = {m \in S : m = n \/ <<m, n>> \in R}
    BY <2>1
  <2> QED
    BY <2>2 DEF Rank, PlaceIn
<1>3. \A m, n \in S : m < n => <<m, n>> \in R
  BY <1>0
<1>4. /\ Cardinality(S) \in Nat
      /\ \A a \in S : Rank(S, a) \in 1 .. Cardinality(S)
      /\ \A a, b \in S : a < b => Rank(S, a) < Rank(S, b)
      /\ \A a, b \in S : Rank(S, a) = Rank(S, b) => a = b
      /\ \A k \in 1 .. Cardinality(S) : \E a \in S : Rank(S, a) = k
  <2>1. /\ Cardinality(S) \in Nat
        /\ \A a \in S : PlaceIn(S, R, a) \in 1 .. Cardinality(S)
        /\ \A a, b \in S : <<a, b>> \in R => PlaceIn(S, R, a) < PlaceIn(S, R, b)
        /\ \A a, b \in S : PlaceIn(S, R, a) = PlaceIn(S, R, b) => a = b
        /\ \A k \in 1 .. Cardinality(S) : \E a \in S : PlaceIn(S, R, a) = k
    <3>1. Placed(S, R)
      BY <1>1, PlacesInOrder
    <3> QED
      BY <3>1 DEF Placed
  <2>2. \A a \in S : Rank(S, a) \in 1 .. Cardinality(S)
    BY <1>2, <2>1
  <2>3. ASSUME NEW a \in S, NEW b \in S, a < b PROVE Rank(S, a) < Rank(S, b)
    <3>1. PlaceIn(S, R, a) < PlaceIn(S, R, b)
      BY <1>3, <2>1, <2>3
    <3>2. Rank(S, a) = PlaceIn(S, R, a) /\ Rank(S, b) = PlaceIn(S, R, b)
      BY <1>2
    <3> QED
      BY <3>1, <3>2
  <2>4. \A a, b \in S : Rank(S, a) = Rank(S, b) => a = b
    BY <1>2, <2>1
  <2>5. \A k \in 1 .. Cardinality(S) : \E a \in S : Rank(S, a) = k
    BY <1>2, <2>1
  <2> QED
    BY <2>1, <2>2, <2>3, <2>4, <2>5
<1>5. \A k \in 1 .. Cardinality(S) : Nth(S, k) \in S /\ Rank(S, Nth(S, k)) = k
  BY <1>4 DEF Nth
<1>6. \A n \in S : Nth(S, Rank(S, n)) = n
  <2> TAKE n \in S
  <2>1. PICK k \in 1 .. Cardinality(S) : k = Rank(S, n)
    BY <1>4
  <2>2. Nth(S, k) \in S /\ Rank(S, Nth(S, k)) = Rank(S, n)
    BY <1>5, <2>1
  <2>3. Nth(S, k) = n
    BY <1>4, <2>2
  <2> QED
    BY <2>1, <2>3
<1> QED
  BY <1>4, <1>5, <1>6

LEMMA LengthOf ==
  ASSUME NEW n \in Nat, NEW f, f = [k \in 1 .. n |-> f[k]]
  PROVE  DOMAIN f = 1 .. n /\ Len(f) = n
<1>1. PICK T : T = {f[k] : k \in 1 .. n}
  OBVIOUS
<1>2. \A k \in 1 .. n : f[k] \in T
  BY <1>1
<1>3. f \in [1 .. n -> T]
  BY <1>2
<1>4. f \in Seq(T)
  BY <1>3
<1>5. DOMAIN f = 1 .. n
  BY <1>3
<1> QED
  BY <1>4, <1>5

LEMMA PickShape ==
  ASSUME NEW seq, NEW S, S \subseteq Int, IsFiniteSet(S)
  PROVE  /\ DOMAIN Pick(seq, S) = 1 .. Cardinality(S)
         /\ Len(Pick(seq, S)) = Cardinality(S)
         /\ \A k \in 1 .. Cardinality(S) : Pick(seq, S)[k] = seq[Nth(S, k)]
         /\ \A n \in S : Pick(seq, S)[Rank(S, n)] = seq[n]
<1> DEFINE N == Cardinality(S)
<1>1. N \in Nat
  BY NumbersInOrder
<1>2. Pick(seq, S) = [k \in 1 .. N |-> seq[Nth(S, k)]]
  BY DEF Pick
<1> HIDE DEF N
<1>3. DOMAIN Pick(seq, S) = 1 .. N /\ \A k \in 1 .. N : Pick(seq, S)[k] = seq[Nth(S, k)]
  BY <1>2
<1>4. Len(Pick(seq, S)) = N
  <2> DEFINE T == {seq[Nth(S, k)] : k \in 1 .. N}
  <2>1. Pick(seq, S) \in [1 .. N -> T]
    BY <1>2, Zenon
  <2> HIDE DEF T
  <2>2. Pick(seq, S) \in Seq(T)
    BY <1>1, <2>1
  <2> QED
    BY <1>1, <1>3, <2>2
<1>5. \A n \in S : Rank(S, n) \in 1 .. N /\ Nth(S, Rank(S, n)) = n
  BY NumbersInOrder DEF N
<1> QED
  BY <1>3, <1>4, <1>5 DEF N

-----------------------------------------------------------------------------
(* Lines joined to a text.                                                 *)

\* f[k] is the text of the first k lines.
Joins(texts, f, n) ==
  f = [k \in 0 .. n |-> IF k = 0 THEN <<>> ELSE IF k = 1 THEN texts[1]
    ELSE f[k - 1] \o <<LineEnd>> \o texts[k]]

LEMMA LineEndIsCell == LineEnd \in Cell /\ <<LineEnd>> \in Seq(Cell)
<1>1. LineEnd \in Cell
  BY DEF LineEnd, Cell, Kinds
<1> QED
  BY <1>1

LEMMA JoinsExist ==
  ASSUME NEW texts \in Seq(Seq(Cell)), NEW n \in 0 .. Len(texts)
  PROVE  \E f : Joins(texts, f, n) /\ \A k \in 0 .. n : f[k] \in Seq(Cell)
<1> DEFINE Good(m) == \E f : Joins(texts, f, m) /\ \A k \in 0 .. m : f[k] \in Seq(Cell)
           K == {m \in Nat : m <= Len(texts) => Good(m)}
<1>1. 0 \in K
  <2> DEFINE h == [k \in 0 .. 0 |-> <<>>]
  <2>1. Joins(texts, h, 0)
    BY DEF Joins
  <2>2. \A k \in 0 .. 0 : h[k] \in Seq(Cell)
    OBVIOUS
  <2> HIDE DEF h
  <2>3. Good(0)
    BY <2>1, <2>2
  <2> QED
    BY <2>3
<1>2. ASSUME NEW m \in K \cap Nat PROVE m + 1 \in K
  <2> SUFFICES ASSUME m + 1 <= Len(texts) PROVE Good(m + 1)
    OBVIOUS
  <2>1. m <= Len(texts)
    OBVIOUS
  <2>2. PICK f : Joins(texts, f, m) /\ \A k \in 0 .. m : f[k] \in Seq(Cell)
    BY <2>1
  <2> DEFINE last == IF m = 0 THEN texts[1] ELSE f[m] \o <<LineEnd>> \o texts[m + 1]
             g == [k \in 0 .. m + 1 |-> IF k = m + 1 THEN last ELSE f[k]]
  <2>3. last \in Seq(Cell)
    <3>1. texts[m + 1] \in Seq(Cell) /\ f[m] \in Seq(Cell)
      BY <2>2
    <3>2. f[m] \o <<LineEnd>> \in Seq(Cell)
      BY <3>1, LineEndIsCell
    <3>3. f[m] \o <<LineEnd>> \o texts[m + 1] \in Seq(Cell)
      BY <3>1, <3>2
    <3> QED
      BY <3>1, <3>3
  <2> HIDE DEF last
  <2>4. \A k \in 0 .. m + 1 : g[k] \in Seq(Cell)
    BY <2>2, <2>3
  <2>5. \A k \in 0 .. m : g[k] = f[k]
    OBVIOUS
  <2>6. \A k \in 0 .. m : f[k] = IF k = 0 THEN <<>> ELSE IF k = 1 THEN texts[1]
    ELSE f[k - 1] \o <<LineEnd>> \o texts[k]
    BY <2>2 DEF Joins
  <2>7. ASSUME NEW k \in 0 .. m + 1
        PROVE  g[k] = IF k = 0 THEN <<>> ELSE IF k = 1 THEN texts[1]
    ELSE g[k - 1] \o <<LineEnd>> \o texts[k]
    <3>1. CASE k \in 0 .. m
      <4>1. g[k] = f[k] /\ (k # 0 => g[k - 1] = f[k - 1])
        BY <3>1, <2>5
      <4> HIDE DEF g
      <4> QED
        BY <3>1, <4>1, <2>6
    <3>2. CASE k = m + 1
      <4>1. g[k] = last /\ g[k - 1] = f[m]
        BY <3>2, <2>5
      <4> HIDE DEF g
      <4> QED
        BY <3>2, <4>1 DEF last
    <3> QED
      BY <3>1, <3>2
  <2>8. Joins(texts, g, m + 1)
    <3>1. g = [k \in 0 .. m + 1 |-> g[k]]
      OBVIOUS
    <3> HIDE DEF g
    <3> QED
      BY <3>1, <2>7 DEF Joins
  <2> HIDE DEF g
  <2> QED
    BY <2>4, <2>8
<1>3. Nat \subseteq K
  <2> HIDE DEF K
  <2> QED
    BY <1>1, <1>2, SetInduction
<1>4. n \in K /\ n <= Len(texts)
  BY <1>3
<1> QED
  BY <1>4

\* What f is at k when it joins texts.
JoinedAt(texts, f, k) ==
  /\ k = 0 => f[k] = <<>>
  /\ k = 1 => f[k] = texts[1]
  /\ k > 1 => f[k] = f[k - 1] \o <<LineEnd>> \o texts[k]

LEMMA JoinsAre ==
  ASSUME NEW texts \in Seq(Seq(Cell)), NEW f, NEW n \in Nat, NEW k \in Nat,
         n <= Len(texts), k <= n, Joins(texts, f, n)
  PROVE  JoinedAt(texts, f, k)
<1> DEFINE more == f[k - 1] \o <<LineEnd>> \o texts[k]
<1>1. f[k] = IF k = 0 THEN <<>> ELSE IF k = 1 THEN texts[1] ELSE more
  <2>1. k \in 0 .. n
    OBVIOUS
  <2> QED
    BY <2>1 DEF Joins
<1> HIDE DEF more
<1>2. /\ k = 0 => f[k] = <<>>
      /\ k = 1 => f[k] = texts[1]
      /\ k > 1 => f[k] = more
  BY <1>1
<1> QED
  BY <1>2 DEF more, JoinedAt

\* The first n of two lists of texts are the same, and what joins them up to n.
SameTexts(texts, others, n) == \A k \in 1 .. n : texts[k] = others[k]

SameJoins(f, g, n) == \A k \in 0 .. n : f[k] = g[k]

\* The text of the first lines does not depend on the others.
LEMMA JoinsAgree ==
  ASSUME NEW texts \in Seq(Seq(Cell)), NEW others \in Seq(Seq(Cell)),
         NEW f, NEW g, NEW n \in Nat, NEW m \in Nat,
         n <= Len(texts), m <= Len(others), n <= m, SameTexts(texts, others, n),
         Joins(texts, f, n), Joins(others, g, m)
  PROVE  SameJoins(f, g, n)
<1> DEFINE K == {k \in Nat : k <= n => f[k] = g[k]}
<1>1. 0 \in K
  <2>1. 0 \in Nat /\ 0 <= n /\ 0 <= m
    OBVIOUS
  <2>2. f[0] = <<>> /\ g[0] = <<>>
    <3>1. JoinedAt(texts, f, 0)
      BY <2>1, JoinsAre
    <3>2. JoinedAt(others, g, 0)
      BY <2>1, JoinsAre
    <3> QED
      BY <3>1, <3>2 DEF JoinedAt
  <2> QED
    BY <2>2
<1>2. ASSUME NEW k \in K \cap Nat PROVE k + 1 \in K
  <2> SUFFICES ASSUME k + 1 <= n PROVE f[k + 1] = g[k + 1]
    OBVIOUS
  <2>1. f[k] = g[k] /\ texts[k + 1] = others[k + 1]
    BY DEF SameTexts
  <2>2. k + 1 <= n /\ k + 1 <= m /\ k + 1 - 1 = k
    OBVIOUS
  <2> DEFINE i == k + 1
  <2>3. JoinedAt(texts, f, i) /\ JoinedAt(others, g, i)
    <3>1. i \in Nat /\ i <= n /\ i <= m
      BY <2>2
    <3> HIDE DEF i
    <3>2. JoinedAt(texts, f, i)
      BY <3>1, JoinsAre
    <3>3. JoinedAt(others, g, i)
      BY <3>1, JoinsAre
    <3> QED
      BY <3>2, <3>3
  <2>4. /\ i = 1 => f[i] = texts[i] /\ g[i] = others[i]
        /\ i > 1 => /\ f[i] = f[i - 1] \o <<LineEnd>> \o texts[i]
                    /\ g[i] = g[i - 1] \o <<LineEnd>> \o others[i]
    <3> HIDE DEF i
    <3> QED
      BY <2>3 DEF JoinedAt
  <2>5. i - 1 = k /\ (i = 1 \/ i > 1) /\ i \in 1 .. n
    OBVIOUS
  <2>6. texts[i] = others[i] /\ f[i - 1] = g[i - 1]
    BY <2>1, <2>5
  <2> HIDE DEF i
  <2>7. f[i] = g[i]
    BY <2>4, <2>5, <2>6
  <2> QED
    BY <2>7 DEF i
<1>3. Nat \subseteq K
  <2> HIDE DEF K
  <2> QED
    BY <1>1, <1>2, SetInduction
<1> QED
  BY <1>3 DEF SameJoins

LEMMA JoinedBy ==
  ASSUME NEW texts \in Seq(Seq(Cell))
  PROVE  \E f : /\ Joins(texts, f, Len(texts)) /\ JoinLines(texts) = f[Len(texts)]
                /\ \A k \in 0 .. Len(texts) : f[k] \in Seq(Cell)
<1>1. PICK n : n = Len(texts) /\ n \in Nat /\ n \in 0 .. n
  OBVIOUS
<1>2. PICK f : Joins(texts, f, n) /\ \A k \in 0 .. n : f[k] \in Seq(Cell)
  BY <1>1, JoinsExist
<1>3. PICK h : h = CHOOSE g : Joins(texts, g, n)
  OBVIOUS
<1>4. Joins(texts, h, n)
  BY <1>2, <1>3
<1>5. JoinLines(texts) = h[n]
  BY <1>1, <1>3 DEF JoinLines, Joins
<1>6. \A k \in 0 .. n : h[k] = f[k]
  <2>1. SameTexts(texts, texts, n) /\ n <= Len(texts) /\ n <= n /\ n \in Nat
    BY <1>1 DEF SameTexts
  <2>2. SameJoins(h, f, n)
    BY <1>2, <1>4, <2>1, JoinsAgree
  <2> QED
    BY <2>2 DEF SameJoins
<1>7. \A k \in 0 .. n : h[k] \in Seq(Cell)
  BY <1>2, <1>6
<1> QED
  BY <1>1, <1>4, <1>5, <1>7

LEMMA JoinTyped ==
  ASSUME NEW texts \in Seq(Seq(Cell))
  PROVE  JoinLines(texts) \in Seq(Cell)
<1>1. Len(texts) \in 0 .. Len(texts)
  OBVIOUS
<1> QED
  BY <1>1, JoinedBy

LEMMA TextTyped ==
  ASSUME NEW line \in Line
  PROVE  Text(line) \in Seq(Cell)
<1>1. CASE line.head = "none"
  BY <1>1 DEF Text, Line
<1>2. CASE line.head # "none"
  <2>1. <<line.head, 0>> \in Cell
    BY <1>2 DEF Line, Heads, Cell, Kinds
  <2>2. <<<<line.head, 0>>>> \in Seq(Cell)
    BY <2>1
  <2>3. line.cells \in Seq(Cell)
    BY DEF Line
  <2> QED
    BY <1>2, <2>2, <2>3 DEF Text
<1> QED
  BY <1>1, <1>2

\* w is p, then q.
Joined(w, p, q) ==
  /\ w \in Seq(Cell)
  /\ Len(w) = Len(p) + Len(q)
  /\ \A x \in 1 .. Len(p) + Len(q) : w[x] = IF x <= Len(p) THEN p[x] ELSE q[x - Len(p)]

LEMMA ConcatJoins ==
  ASSUME NEW p \in Seq(Cell), NEW q \in Seq(Cell)
  PROVE  Joined(p \o q, p, q)
BY ConcatProperties DEF Joined

\* How many carriage returns end a line.
Ending(line) == IF line.crlf THEN 1 ELSE 0

LEMMA EndingIs ==
  ASSUME NEW line
  PROVE  /\ line.crlf => Ending(line) = 1
         /\ ~line.crlf => Ending(line) = 0
         /\ Ending(line) \in Nat
<1>1. line.crlf => Ending(line) = 1
  BY Zenon DEF Ending
<1>2. ~line.crlf => Ending(line) = 0
  BY Zenon DEF Ending
<1>3. Ending(line) = 1 \/ Ending(line) = 0
  BY Zenon DEF Ending
<1> QED
  BY <1>1, <1>2, <1>3

\* What stands around the text of a line.
LineParts(line) ==
  /\ RawLine(line) \in Seq(Cell) /\ AsWritten(line) \in Seq(Cell)
  /\ Len(RawLine(line)) = line.indent + Len(Text(line))
  /\ Len(AsWritten(line)) = Len(RawLine(line)) + Ending(line)
  /\ \A x \in 1 .. Len(Text(line)) : AsWritten(line)[line.indent + x] = Text(line)[x]

LEMMA LineHasParts ==
  ASSUME NEW line \in Line
  PROVE  LineParts(line)
<1>1. PICK n \in Nat, t \in Seq(Cell) : n = line.indent /\ t = Text(line)
  BY TextTyped DEF Line
<1>2. PICK b \in Seq(Cell) : b = Blanks(n) /\ Len(b) = n
  <2>1. <<"blank", 0>> \in Cell
    BY DEF Cell, Kinds
  <2>2. Blanks(n) \in [1 .. n -> Cell]
    BY <2>1 DEF Blanks
  <2> QED
    BY <2>2
<1>3. PICK r \in Seq(Cell) : /\ r = IF line.crlf THEN <<Return>> ELSE <<>>
                             /\ Len(r) = Ending(line)
  <2>0. (line.crlf => Ending(line) = 1) /\ (~line.crlf => Ending(line) = 0)
    BY EndingIs
  <2>1. Return \in Cell
    BY DEF Return, Cell, Kinds
  <2>2. <<Return>> \in Seq(Cell) /\ Len(<<Return>>) = 1
    BY <2>1
  <2>3. <<>> \in Seq(Cell) /\ Len(<<>>) = 0
    OBVIOUS
  <2>4. CASE line.crlf
    <3>1. (IF line.crlf THEN <<Return>> ELSE <<>>) = <<Return>>
      BY <2>4, Zenon
    <3> QED
      BY <2>0, <2>2, <2>4, <3>1, Zenon
  <2>5. CASE ~line.crlf
    <3>1. (IF line.crlf THEN <<Return>> ELSE <<>>) = <<>>
      BY <2>5, Zenon
    <3> QED
      BY <2>0, <2>3, <2>5, <3>1, Zenon
  <2> QED
    BY <2>4, <2>5, Zenon
<1>4. PICK raw : raw = b \o t
  OBVIOUS
<1>5. Joined(raw, b, t)
  BY <1>4, ConcatJoins
<1>6. PICK w : w = raw \o r
  OBVIOUS
<1>7. raw \in Seq(Cell) /\ Joined(w, raw, r)
  BY <1>5, <1>6, ConcatJoins DEF Joined
<1>8. RawLine(line) = raw /\ AsWritten(line) = w
  BY <1>1, <1>2, <1>3, <1>4, <1>6 DEF RawLine, AsWritten
<1>9. Len(raw) = n + Len(t) /\ Len(w) = Len(raw) + Len(r) /\ Len(t) \in Nat /\ Len(r) \in Nat
  BY <1>2, <1>5, <1>7 DEF Joined
<1>10. ASSUME NEW x \in 1 .. Len(t) PROVE w[n + x] = t[x]
  <2>1. n + x \in 1 .. n + Len(t) /\ ~(n + x <= n) /\ (n + x) - n = x
    BY <1>9
  <2>2. raw[n + x] = t[x]
    BY <1>2, <1>5, <2>1 DEF Joined
  <2>3. n + x \in 1 .. Len(raw) + Len(r) /\ n + x <= Len(raw)
    BY <1>9, <2>1
  <2>4. w[n + x] = raw[n + x]
    BY <1>7, <2>3 DEF Joined
  <2> QED
    BY <2>2, <2>4
<1> QED
  BY <1>1, <1>3, <1>7, <1>8, <1>9, <1>10 DEF LineParts, Joined

\* The lines of a page, as splitlines gives them and as they stand in its text.
RawLines(page) == [k \in 1 .. Len(page) |-> RawLine(page[k])]

WrittenLines(page) == [k \in 1 .. Len(page) |-> AsWritten(page[k])]

LEMMA LinesTyped ==
  ASSUME NEW page \in Seq(Line)
  PROVE  /\ RawLines(page) \in Seq(Seq(Cell)) /\ Len(RawLines(page)) = Len(page)
         /\ WrittenLines(page) \in Seq(Seq(Cell)) /\ Len(WrittenLines(page)) = Len(page)
         /\ \A k \in 1 .. Len(page) : RawLines(page)[k] = RawLine(page[k])
         /\ \A k \in 1 .. Len(page) : WrittenLines(page)[k] = AsWritten(page[k])
<1>1. \A k \in 1 .. Len(page) : RawLine(page[k]) \in Seq(Cell) /\ AsWritten(page[k]) \in Seq(Cell)
  <2> TAKE k \in 1 .. Len(page)
  <2>1. LineParts(page[k])
    BY LineHasParts
  <2> QED
    BY <2>1 DEF LineParts
<1>2. RawLines(page) \in [1 .. Len(page) -> Seq(Cell)]
  BY <1>1 DEF RawLines
<1>3. WrittenLines(page) \in [1 .. Len(page) -> Seq(Cell)]
  BY <1>1 DEF WrittenLines
<1>4. RawLines(page) \in Seq(Seq(Cell)) /\ Len(RawLines(page)) = Len(page)
  BY <1>2
<1>5. WrittenLines(page) \in Seq(Seq(Cell)) /\ Len(WrittenLines(page)) = Len(page)
  BY <1>3
<1>6. /\ \A k \in 1 .. Len(page) : RawLines(page)[k] = RawLine(page[k])
      /\ \A k \in 1 .. Len(page) : WrittenLines(page)[k] = AsWritten(page[k])
  BY DEF RawLines, WrittenLines
<1> QED
  BY <1>4, <1>5, <1>6

LEMMA PageTextTyped ==
  ASSUME NEW page \in Seq(Line)
  PROVE  PageText(page) \in Seq(Cell) /\ PageText(page) = JoinLines(WrittenLines(page))
  BY LinesTyped, JoinTyped DEF PageText, WrittenLines

\* The first n of some texts.
FirstTexts(texts, n) == [k \in 1 .. n |-> texts[k]]

\* What texts are joined to, text by text.
Grows(texts, f) ==
  /\ JoinLines(texts) = f[Len(texts)]
  /\ \A i \in 0 .. Len(texts) : f[i] \in Seq(Cell)
  /\ \A i \in 1 .. Len(texts) : JoinLines(FirstTexts(texts, i)) = f[i]
  /\ \A i \in 1 .. Len(texts) :
       f[i] = IF i = 1 THEN texts[i] ELSE f[i - 1] \o <<LineEnd>> \o texts[i]

LEMMA TextsGrow ==
  ASSUME NEW texts \in Seq(Seq(Cell))
  PROVE  \E f : Grows(texts, f)
<1>1. PICK n \in Nat : n = Len(texts)
  OBVIOUS
<1>4. PICK f : /\ Joins(texts, f, n) /\ JoinLines(texts) = f[n]
               /\ \A k \in 0 .. n : f[k] \in Seq(Cell)
  BY <1>1, JoinedBy
<1>5. ASSUME NEW i \in Nat, 1 <= i, i <= n PROVE JoinLines(FirstTexts(texts, i)) = f[i]
  <2>1. PICK u \in Seq(Seq(Cell)) :
          /\ u = FirstTexts(texts, i)
          /\ Len(u) = i /\ \A k \in 1 .. i : u[k] = texts[k]
    <3>1. \A k \in 1 .. i : texts[k] \in Seq(Cell)
      BY <1>1, <1>5
    <3>2. FirstTexts(texts, i) \in [1 .. i -> Seq(Cell)]
      BY <3>1 DEF FirstTexts
    <3>3. FirstTexts(texts, i) \in Seq(Seq(Cell)) /\ Len(FirstTexts(texts, i)) = i
      BY <3>2
    <3>4. \A k \in 1 .. i : FirstTexts(texts, i)[k] = texts[k]
      BY DEF FirstTexts
    <3> QED
      BY <3>3, <3>4
  <2>2. PICK g : Joins(u, g, i) /\ JoinLines(u) = g[i]
    BY <2>1, JoinedBy
  <2>3. i \in Nat /\ i <= Len(u) /\ n <= Len(texts) /\ i <= n /\ i \in 0 .. i
    BY <1>1, <1>5, <2>1
  <2>4. SameTexts(u, texts, i)
    BY <2>1 DEF SameTexts
  <2>5. SameJoins(g, f, i)
    BY <1>4, <2>1, <2>2, <2>3, <2>4, JoinsAgree
  <2> QED
    BY <2>1, <2>2, <2>3, <2>5 DEF SameJoins
<1>6. ASSUME NEW i \in Nat, 1 <= i, i <= n
      PROVE  f[i] = IF i = 1 THEN texts[i] ELSE f[i - 1] \o <<LineEnd>> \o texts[i]
  <2> DEFINE more == f[i - 1] \o <<LineEnd>> \o texts[i]
  <2>1. (i = 1 => f[i] = texts[1]) /\ (i > 1 => f[i] = more)
    <3>1. JoinedAt(texts, f, i)
      BY <1>1, <1>4, <1>6, JoinsAre
    <3> QED
      BY <3>1 DEF JoinedAt
  <2>2. i = 1 \/ (i > 1 /\ i # 1)
    BY <1>6
  <2> HIDE DEF more
  <2>3. f[i] = IF i = 1 THEN texts[i] ELSE more
    BY <2>1, <2>2
  <2> QED
    BY <2>3 DEF more
<1>8. \A i \in 1 .. n : i \in Nat /\ 1 <= i /\ i <= n
  OBVIOUS
<1>9. \A i \in 1 .. n : JoinLines(FirstTexts(texts, i)) = f[i]
  BY <1>5, <1>8
<1>10. \A i \in 1 .. n : f[i] = IF i = 1 THEN texts[i] ELSE f[i - 1] \o <<LineEnd>> \o texts[i]
  BY <1>6, <1>8
<1> QED
  BY <1>1, <1>4, <1>9, <1>10 DEF Grows

-----------------------------------------------------------------------------
(* Where lines stand in the text of their page.                            *)

LEMMA TwoLines ==
  ASSUME NEW s \in Seq(Cell), NEW t \in Seq(Cell), NEW w, w = s \o <<LineEnd>> \o t
  PROVE  /\ w \in Seq(Cell)
         /\ Len(w) = Len(s) + 1 + Len(t)
         /\ \A x \in 1 .. Len(s) : w[x] = s[x]
         /\ \A x \in 1 .. Len(t) : w[Len(s) + 1 + x] = t[x]
<1>1. PICK e \in Seq(Cell) : e = <<LineEnd>>
  BY LineEndIsCell
<1>2. Len(e) = 1
  BY <1>1
<1>3. PICK b : b = s \o e
  OBVIOUS
<1>4. b \in Seq(Cell) /\ Len(b) = Len(s) + Len(e) /\ Len(s) \in Nat /\ Len(t) \in Nat
  BY <1>3, ConcatJoins DEF Joined
<1>5. \A x \in 1 .. Len(s) : b[x] = s[x]
  <2>1. \A x \in 1 .. Len(s) + Len(e) : b[x] = IF x <= Len(s) THEN s[x] ELSE e[x - Len(s)]
    BY <1>3, ConcatJoins DEF Joined
  <2> TAKE x \in 1 .. Len(s)
  <2>2. x \in 1 .. Len(s) + Len(e) /\ x <= Len(s)
    BY <1>2, <1>4
  <2> QED
    BY <2>1, <2>2
<1>6. w = b \o t
  BY <1>1, <1>3
<1>7. Joined(w, b, t)
  BY <1>4, <1>6, ConcatJoins
<1>8. \A x \in 1 .. Len(b) + Len(t) : w[x] = IF x <= Len(b) THEN b[x] ELSE t[x - Len(b)]
  BY <1>7 DEF Joined
<1>9. \A x \in 1 .. Len(s) : w[x] = s[x]
  BY <1>2, <1>4, <1>5, <1>8
<1>10. \A x \in 1 .. Len(t) : w[Len(b) + x] = t[x]
  <2> TAKE x \in 1 .. Len(t)
  <2>1. Len(b) + x \in 1 .. Len(b) + Len(t) /\ ~(Len(b) + x <= Len(b)) /\ (Len(b) + x) - Len(b) = x
    BY <1>2, <1>4
  <2> QED
    BY <1>8, <2>1
<1> QED
  BY <1>2, <1>4, <1>7, <1>9, <1>10 DEF Joined

\* What f is at text k: the text up to k is the text before it, a line end and k.
GrownAt(texts, f, k) ==
  /\ texts[k] \in Seq(Cell) /\ f[k] \in Seq(Cell)
  /\ k = 1 => f[k] = texts[k]
  /\ k > 1 => /\ f[k - 1] \in Seq(Cell)
              /\ JoinLines(FirstTexts(texts, k - 1)) = f[k - 1]
              /\ f[k] = f[k - 1] \o <<LineEnd>> \o texts[k]

LEMMA GrowsBy ==
  ASSUME NEW texts \in Seq(Seq(Cell)), NEW f, Grows(texts, f), NEW k \in Nat, 1 <= k, k <= Len(texts)
  PROVE  GrownAt(texts, f, k)
<1>1. texts[k] \in Seq(Cell) /\ k \in 1 .. Len(texts) /\ k \in 0 .. Len(texts)
  OBVIOUS
<1>2. f[k] \in Seq(Cell)
  BY <1>1 DEF Grows
<1>3. k = 1 => f[k] = texts[k]
  BY <1>1 DEF Grows
<1>4. ASSUME k > 1
      PROVE  /\ f[k - 1] \in Seq(Cell)
             /\ JoinLines(FirstTexts(texts, k - 1)) = f[k - 1]
             /\ f[k] = f[k - 1] \o <<LineEnd>> \o texts[k]
  <2>1. k - 1 \in 1 .. Len(texts) /\ k - 1 \in 0 .. Len(texts) /\ k # 1
    BY <1>4
  <2>2. f[k - 1] \in Seq(Cell)
    BY <2>1 DEF Grows
  <2>3. JoinLines(FirstTexts(texts, k - 1)) = f[k - 1]
    BY <2>1 DEF Grows
  <2> DEFINE more == f[k - 1] \o <<LineEnd>> \o texts[k]
  <2>4. f[k] = IF k = 1 THEN texts[k] ELSE more
    BY <1>1 DEF Grows
  <2> HIDE DEF more
  <2>5. f[k] = more
    BY <2>1, <2>4
  <2> QED
    BY <2>2, <2>3, <2>5 DEF more
<1> QED
  BY <1>1, <1>2, <1>3, <1>4 DEF GrownAt

\* Text t goes on where s ends.
GoesOn(s, t) == Len(s) <= Len(t) /\ \A x \in 1 .. Len(s) : t[x] = s[x]

LEMMA GrowsOn ==
  ASSUME NEW texts \in Seq(Seq(Cell)), NEW f, Grows(texts, f), NEW i \in Nat, NEW j \in Nat,
         1 <= i, i <= j, j <= Len(texts)
  PROVE  GoesOn(f[i], f[j])
<1> DEFINE Extends(k) == /\ Len(f[i]) <= Len(f[k])
                         /\ \A x \in 1 .. Len(f[i]) : f[k][x] = f[i][x]
           K == {n \in Nat : i + n <= Len(texts) => Extends(i + n)}
<1>1. f[i] \in Seq(Cell) /\ Len(f[i]) \in Nat
  <2>1. i <= Len(texts)
    OBVIOUS
  <2>2. f[i] \in Seq(Cell)
    BY <2>1, GrowsBy DEF GrownAt
  <2> QED
    BY <2>2
<1>2. 0 \in K
  BY <1>1
<1>3. ASSUME NEW n \in K \cap Nat PROVE n + 1 \in K
  <2> SUFFICES ASSUME i + (n + 1) <= Len(texts) PROVE Extends(i + (n + 1))
    OBVIOUS
  <2>1. PICK k \in Nat : k = i + (n + 1)
    OBVIOUS
  <2>2. k <= Len(texts) /\ 1 <= k /\ k > 1 /\ k - 1 = i + n
    BY <2>1
  <2>3. Extends(k - 1)
    BY <2>2
  <2>4. /\ f[k - 1] \in Seq(Cell) /\ texts[k] \in Seq(Cell)
        /\ f[k] = f[k - 1] \o <<LineEnd>> \o texts[k]
    <3>1. GrownAt(texts, f, k)
      BY <2>2, GrowsBy
    <3> QED
      BY <2>2, <3>1 DEF GrownAt
  <2>5. PICK s \in Seq(Cell) : s = f[k - 1]
    BY <2>4
  <2>6. PICK t \in Seq(Cell) : t = texts[k]
    BY <2>4
  <2>7. PICK w : w = f[k]
    OBVIOUS
  <2>8. w = s \o <<LineEnd>> \o t
    BY <2>4, <2>5, <2>6, <2>7
  <2>9. Len(w) = Len(s) + 1 + Len(t) /\ \A x \in 1 .. Len(s) : w[x] = s[x]
    BY <2>8, TwoLines
  <2>10. PICK a \in Nat, b \in Nat, l \in Nat : a = Len(s) /\ b = Len(t) /\ l = Len(f[i])
    BY <1>1
  <2>11. l <= a /\ \A x \in 1 .. l : s[x] = f[i][x]
    BY <2>3, <2>5, <2>10, Zenon
  <2>14. l <= a + 1 + b /\ 1 .. l \subseteq 1 .. a
    BY <2>11
  <2>12. Len(f[i]) <= Len(w) /\ \A x \in 1 .. Len(f[i]) : w[x] = f[i][x]
    BY <2>9, <2>10, <2>11, <2>14, Zenon
  <2>13. Extends(k)
    BY <2>7, <2>12
  <2> QED
    BY <2>1, <2>13
<1>4. Nat \subseteq K
  <2> HIDE DEF K
  <2> QED
    BY <1>2, <1>3, SetInduction
<1>5. PICK n \in Nat : j = i + n
  <2>1. j - i \in Nat /\ j = i + (j - i)
    OBVIOUS
  <2> QED
    BY <2>1
<1>6. n \in K /\ i + n <= Len(texts)
  BY <1>4, <1>5
<1>7. Extends(i + n)
  BY <1>6
<1> QED
  BY <1>5, <1>7 DEF GoesOn

\* Where the code takes line i to be, by what the raw lines grow to.
OffsetIs(page, f, i) ==
  /\ Offset(page, i) = IF i = 1 THEN 0 ELSE Len(f[i - 1]) + 1
  /\ Offset(page, i) \in Nat
  /\ Len(Text(page[i])) \in Nat
  /\ EndOffset(page, i) = Offset(page, i) + Len(Text(page[i]))
  /\ EndOffset(page, i) <= Len(f[i])

LEMMA OffsetsAre ==
  ASSUME NEW page \in Seq(Line), NEW f, Grows(RawLines(page), f), NEW i \in Nat, 1 <= i, i <= Len(page)
  PROVE  OffsetIs(page, f, i)
<1>1. PICK texts \in Seq(Seq(Cell)) : /\ texts = RawLines(page) /\ Len(texts) = Len(page)
                                      /\ \A k \in 1 .. Len(page) : texts[k] = RawLine(page[k])
  BY LinesTyped
<1>2. page[i] \in Line /\ i \in 1 .. Len(page)
  OBVIOUS
<1>3. PICK raw \in Seq(Cell), d \in Nat, t \in Seq(Cell) :
        raw = texts[i] /\ t = Text(page[i]) /\ Len(raw) = d + Len(t)
  <2>1. LineParts(page[i])
    BY <1>2, LineHasParts
  <2>2. page[i].indent \in Nat
    BY <1>2 DEF Line
  <2> QED
    BY <1>1, <1>2, <2>1, <2>2, TextTyped DEF LineParts
<1>4. GrownAt(texts, f, i)
  BY <1>1, GrowsBy
<1>5. Len(t) \in Nat /\ Len(raw) \in Nat /\ EndOffset(page, i) = Offset(page, i) + Len(t)
  BY <1>3 DEF EndOffset
<1>6. CASE i = 1
  <2>1. f[i] = raw /\ Offset(page, i) = 0
    BY <1>3, <1>4, <1>6 DEF GrownAt, Offset
  <2>2. Len(t) <= Len(f[i])
    BY <1>3, <1>5, <2>1
  <2> QED
    BY <1>3, <1>5, <1>6, <2>1, <2>2 DEF OffsetIs
<1>7. CASE i > 1
  <2>1. f[i - 1] \in Seq(Cell) /\ f[i] = f[i - 1] \o <<LineEnd>> \o raw
    BY <1>3, <1>4, <1>7 DEF GrownAt
  <2>2. PICK s, w : s \in Seq(Cell) /\ s = f[i - 1] /\ w = f[i] /\ w = s \o <<LineEnd>> \o raw
    BY <2>1
  <2>3. Len(w) = Len(s) + 1 + Len(raw) /\ Len(s) \in Nat
    BY <2>2, TwoLines
  <2>4. Offset(page, i) = Len(s) + 1
    <3>1. [k \in 1 .. i - 1 |-> RawLine(page[k])] = FirstTexts(texts, i - 1)
      <4>1. \A k \in 1 .. i - 1 : RawLine(page[k]) = texts[k]
        BY <1>1
      <4> QED
        BY <4>1 DEF FirstTexts
    <3>2. JoinLines(FirstTexts(texts, i - 1)) = s
      BY <1>4, <1>7, <2>2 DEF GrownAt
    <3> QED
      BY <1>7, <3>1, <3>2 DEF Offset
  <2>5. Offset(page, i) + Len(t) <= Len(w)
    BY <1>3, <1>5, <2>3, <2>4
  <2> QED
    BY <1>3, <1>5, <1>7, <2>2, <2>3, <2>4, <2>5 DEF OffsetIs
<1> QED
  BY <1>6, <1>7

\* Lines are taken to be one after the other.
LEMMA OffsetsInOrder ==
  ASSUME NEW page \in Seq(Line), NEW i \in Nat, NEW j \in Nat, 1 <= i, i <= j, j <= Len(page)
  PROVE  /\ Offset(page, i) \in Nat /\ EndOffset(page, j) \in Nat
         /\ Offset(page, i) <= EndOffset(page, j)
         /\ i < j => EndOffset(page, i) <= Offset(page, j)
<1>1. PICK texts \in Seq(Seq(Cell)) : texts = RawLines(page) /\ Len(texts) = Len(page)
  BY LinesTyped
<1>2. PICK f : Grows(texts, f)
  BY TextsGrow
<1>3. OffsetIs(page, f, i) /\ OffsetIs(page, f, j)
  <2>1. i <= Len(page) /\ 1 <= j
    OBVIOUS
  <2> QED
    BY <1>1, <1>2, <2>1, OffsetsAre
<1>4. PICK oi \in Nat, ti \in Nat, ei \in Nat :
        /\ oi = Offset(page, i) /\ ti = Len(Text(page[i]))
        /\ ei = EndOffset(page, i) /\ ei = oi + ti
  <2>1. PICK o \in Nat, t \in Nat : o = Offset(page, i) /\ t = Len(Text(page[i]))
    BY <1>3, Zenon DEF OffsetIs
  <2>2. EndOffset(page, i) = o + t
    BY <1>3, <2>1, Zenon DEF OffsetIs
  <2>3. o + t \in Nat
    OBVIOUS
  <2> QED
    BY <2>1, <2>2, <2>3, Zenon
<1>5. PICK oj \in Nat, tj \in Nat, ej \in Nat :
        /\ oj = Offset(page, j) /\ tj = Len(Text(page[j]))
        /\ ej = EndOffset(page, j) /\ ej = oj + tj
  <2>1. PICK o \in Nat, t \in Nat : o = Offset(page, j) /\ t = Len(Text(page[j]))
    BY <1>3, Zenon DEF OffsetIs
  <2>2. EndOffset(page, j) = o + t
    BY <1>3, <2>1, Zenon DEF OffsetIs
  <2>3. o + t \in Nat
    OBVIOUS
  <2> QED
    BY <2>1, <2>2, <2>3, Zenon
<1>6. ASSUME i < j PROVE ei <= oj
  <2>1. PICK k \in Nat : k = j - 1 /\ i <= k /\ k <= Len(page) /\ 1 <= k /\ j # 1
    BY <1>6
  <2>2. GoesOn(f[i], f[k])
    BY <1>1, <1>2, <2>1, GrowsOn
  <2>3. GrownAt(texts, f, i) /\ GrownAt(texts, f, k)
    <3>1. i <= Len(texts) /\ k <= Len(texts)
      BY <1>1, <2>1
    <3> QED
      BY <1>2, <2>1, <3>1, GrowsBy
  <2>4. PICK li \in Nat, lk \in Nat : li = Len(f[i]) /\ lk = Len(f[k]) /\ li <= lk
    <3>1. f[i] \in Seq(Cell) /\ f[k] \in Seq(Cell)
      BY <2>3 DEF GrownAt
    <3>2. Len(f[i]) <= Len(f[k])
      BY <2>2 DEF GoesOn
    <3>3. Len(f[i]) \in Nat /\ Len(f[k]) \in Nat
      BY <3>1
    <3> QED
      BY <3>2, <3>3, Zenon
  <2>5. ei <= li
    BY <1>3, <1>4, <2>4, Zenon DEF OffsetIs
  <2>6. oj = lk + 1
    <3>1. j - 1 = k /\ j # 1
      BY <2>1
    <3>2. Offset(page, j) = IF j = 1 THEN 0 ELSE Len(f[j - 1]) + 1
      BY <1>3 DEF OffsetIs
    <3> QED
      BY <1>5, <2>4, <3>1, <3>2, Zenon
  <2> QED
    BY <1>4, <2>4, <2>5, <2>6
<1>7. oi <= ej
  <2>1. CASE i = j
    BY <1>4, <1>5, <2>1
  <2>2. CASE i < j
    BY <1>4, <1>5, <1>6, <2>2
  <2> QED
    BY <2>1, <2>2
<1>8. oi \in Nat /\ ej \in Nat
  BY <1>4, <1>5
<1> QED
  BY <1>4, <1>5, <1>6, <1>7, <1>8

\* The carriage returns in the first k lines of a page.
Returns(page, k) == Cardinality({m \in 1 .. k : page[m].crlf})

LEMMA ReturnsGrow ==
  ASSUME NEW page \in Seq(Line), NEW k \in Nat
  PROVE  /\ Returns(page, k) \in Nat
         /\ Returns(page, 0) = 0
         /\ Returns(page, k + 1) = Returns(page, k) + Ending(page[k + 1])
<1>1. PICK S : S = {m \in 1 .. k : page[m].crlf}
  OBVIOUS
<1>2. IsFiniteSet(S) /\ Cardinality(S) \in Nat
  <2>1. S \subseteq 1 .. k /\ IsFiniteSet(1 .. k)
    BY <1>1, UpTo
  <2> QED
    BY <2>1, FS_Subset, FS_CardinalityType
<1>3. Returns(page, 0) = 0
  <2>1. {m \in 1 .. 0 : page[m].crlf} = {}
    OBVIOUS
  <2> QED
    BY <2>1, FS_EmptySet DEF Returns
<1>4. CASE page[k + 1].crlf
  <2>1. {m \in 1 .. k + 1 : page[m].crlf} = S \cup {k + 1}
    BY <1>1, <1>4
  <2>2. k + 1 \notin S
    BY <1>1
  <2>3. Cardinality(S \cup {k + 1}) = Cardinality(S) + 1
    BY <1>2, <2>2, FS_AddElement
  <2>4. Ending(page[k + 1]) = 1
    BY <1>4, EndingIs, Zenon
  <2>5. Returns(page, k) = Cardinality(S) /\ Returns(page, k + 1) = Cardinality(S \cup {k + 1})
    BY <1>1, <2>1, Zenon DEF Returns
  <2> QED
    BY <1>2, <1>3, <2>3, <2>4, <2>5
<1>5. CASE ~page[k + 1].crlf
  <2>1. {m \in 1 .. k + 1 : page[m].crlf} = S
    BY <1>1, <1>5
  <2>2. Ending(page[k + 1]) = 0
    BY <1>5, EndingIs, Zenon
  <2>3. Returns(page, k) = Cardinality(S) /\ Returns(page, k + 1) = Cardinality(S)
    BY <1>1, <2>1, Zenon DEF Returns
  <2> QED
    BY <1>2, <1>3, <2>2, <2>3
<1> QED
  BY <1>4, <1>5

\* The text up to a line is longer than the raw lines by the carriage returns.
LEMMA ReturnsBetween ==
  ASSUME NEW page \in Seq(Line), NEW f, NEW g, Grows(RawLines(page), f), Grows(WrittenLines(page), g),
         NEW k \in Nat, 1 <= k, k <= Len(page)
  PROVE  Len(g[k]) = Len(f[k]) + Returns(page, k)
<1>1. PICK raw \in Seq(Seq(Cell)) : /\ raw = RawLines(page) /\ Len(raw) = Len(page)
                                    /\ \A i \in 1 .. Len(page) : raw[i] = RawLine(page[i])
  BY LinesTyped
<1>2. PICK full \in Seq(Seq(Cell)) : /\ full = WrittenLines(page) /\ Len(full) = Len(page)
                                     /\ \A i \in 1 .. Len(page) : full[i] = AsWritten(page[i])
  BY LinesTyped
<1> DEFINE Longer(i) == Len(g[i]) = Len(f[i]) + Returns(page, i)
           K == {n \in Nat : n + 1 <= Len(page) => Longer(n + 1)}
<1>3. ASSUME NEW i \in Nat, 1 <= i, i <= Len(page)
      PROVE  /\ GrownAt(raw, f, i) /\ GrownAt(full, g, i)
             /\ Len(full[i]) = Len(raw[i]) + Ending(page[i])
  <2>1. GrownAt(raw, f, i)
    BY <1>1, <1>3, GrowsBy
  <2>2. GrownAt(full, g, i)
    BY <1>2, <1>3, GrowsBy
  <2>3. LineParts(page[i]) /\ i \in 1 .. Len(page)
    BY <1>3, LineHasParts
  <2>4. Len(full[i]) = Len(raw[i]) + Ending(page[i])
    BY <1>1, <1>2, <2>3 DEF LineParts
  <2> QED
    BY <2>1, <2>2, <2>4
<1>4. 0 \in K
  <2> SUFFICES ASSUME 1 <= Len(page) PROVE Longer(1)
    OBVIOUS
  <2>1. f[1] = raw[1] /\ g[1] = full[1] /\ Len(full[1]) = Len(raw[1]) + Ending(page[1])
    <3>1. GrownAt(raw, f, 1) /\ GrownAt(full, g, 1)
      BY <1>3
    <3>2. Len(full[1]) = Len(raw[1]) + Ending(page[1])
      BY <1>3
    <3> QED
      BY <3>1, <3>2 DEF GrownAt
  <2>2. Returns(page, 1) = Ending(page[1])
    <3>1. PICK z \in Nat : z = 0
      OBVIOUS
    <3>2. /\ Returns(page, 0) = 0
          /\ Returns(page, z + 1) = Returns(page, z) + Ending(page[z + 1])
      BY ReturnsGrow
    <3>3. z + 1 = 1 /\ 0 + 1 = 1
      BY <3>1
    <3>4. PICK q \in Nat : q = Ending(page[1])
      BY EndingIs
    <3>5. Returns(page, 1) = Returns(page, 0) + Ending(page[1])
      BY <3>1, <3>2, <3>3, Zenon
    <3>6. Returns(page, 1) = 0 + q
      BY <3>2, <3>4, <3>5, Zenon
    <3> QED
      BY <3>4, <3>6
  <2> QED
    BY <2>1, <2>2
<1>5. ASSUME NEW n \in K \cap Nat PROVE n + 1 \in K
  <2> SUFFICES ASSUME n + 1 + 1 <= Len(page) PROVE Longer(n + 1 + 1)
    OBVIOUS
  <2>1. PICK i \in Nat : i = n + 1
    OBVIOUS
  <2>2. i <= Len(page) /\ 1 <= i /\ i + 1 <= Len(page)
    BY <2>1
  <2>3. Len(g[i]) = Len(f[i]) + Returns(page, i)
    BY <2>1, <2>2
  <2>4. PICK j \in Nat : j = i + 1 /\ j > 1 /\ 1 <= j /\ j <= Len(page) /\ j - 1 = i
    BY <2>2
  <2>5. GrownAt(raw, f, j) /\ GrownAt(full, g, j) /\ Len(full[j]) = Len(raw[j]) + Ending(page[j])
    BY <1>3, <2>4
  <2>6. PICK s, t, w : /\ s \in Seq(Cell) /\ t \in Seq(Cell)
                       /\ s = f[i] /\ t = raw[j] /\ w = f[j] /\ w = s \o <<LineEnd>> \o t
    BY <2>4, <2>5 DEF GrownAt
  <2>7. PICK s2, t2, w2 :
          /\ s2 \in Seq(Cell) /\ t2 \in Seq(Cell)
          /\ s2 = g[i] /\ t2 = full[j] /\ w2 = g[j] /\ w2 = s2 \o <<LineEnd>> \o t2
    BY <2>4, <2>5 DEF GrownAt
  <2>8. PICK a \in Nat, b \in Nat : a = Len(s) /\ b = Len(t) /\ Len(w) = a + 1 + b
    <3>1. Len(w) = Len(s) + 1 + Len(t)
      BY <2>6, TwoLines
    <3>2. Len(s) \in Nat /\ Len(t) \in Nat
      BY <2>6
    <3> QED
      BY <3>1, <3>2, Zenon
  <2>9. PICK a2 \in Nat, b2 \in Nat : a2 = Len(s2) /\ b2 = Len(t2) /\ Len(w2) = a2 + 1 + b2
    <3>1. Len(w2) = Len(s2) + 1 + Len(t2)
      BY <2>7, TwoLines
    <3>2. Len(s2) \in Nat /\ Len(t2) \in Nat
      BY <2>7
    <3> QED
      BY <3>1, <3>2, Zenon
  <2>10. PICK r \in Nat, q \in Nat : /\ r = Returns(page, i) /\ q = Ending(page[j])
                                     /\ Returns(page, j) = r + q
    <3>1. Ending(page[j]) \in Nat
      BY EndingIs
    <3>2. Returns(page, i) \in Nat /\ Returns(page, i + 1) = Returns(page, i) + Ending(page[i + 1])
      BY ReturnsGrow
    <3> QED
      BY <2>4, <3>1, <3>2, Zenon
  <2>11. a2 = a + r /\ b2 = b + q
    BY <2>3, <2>5, <2>6, <2>7, <2>8, <2>9, <2>10, Zenon
  <2>14. a2 + 1 + b2 = (a + 1 + b) + (r + q)
    BY <2>11
  <2>12. Len(w2) = Len(w) + (r + q)
    BY <2>8, <2>9, <2>14, Zenon
  <2>13. Longer(j)
    <3>1. w = f[j] /\ w2 = g[j]
      BY <2>6, <2>7
    <3>2. Len(w2) = Len(w) + Returns(page, j)
      BY <2>10, <2>12
    <3> QED
      BY <3>1, <3>2
  <2> QED
    BY <2>1, <2>4, <2>13
<1>6. Nat \subseteq K
  <2> HIDE DEF K
  <2> QED
    BY <1>4, <1>5, SetInduction
<1>7. PICK n \in Nat : n + 1 = k
  <2>1. k - 1 \in Nat /\ (k - 1) + 1 = k
    OBVIOUS
  <2> QED
    BY <2>1
<1>8. n \in K
  BY <1>6
<1> QED
  BY <1>7, <1>8

\* The part of a text from the cell after o on.
LEMMA PartIs ==
  ASSUME NEW w \in Seq(Cell), NEW o \in Nat, NEW t \in Seq(Cell), o + Len(t) <= Len(w),
         \A x \in 1 .. Len(t) : w[o + x] = t[x]
  PROVE  t = SubSeq(w, o + 1, o + Len(t))
<1>1. Len(t) \in Nat /\ Len(w) \in Nat
  OBVIOUS
<1>2. PICK part : part = SubSeq(w, o + 1, o + Len(t))
  OBVIOUS
<1>3. \A x \in o + 1 .. o + Len(t) : w[x] \in Cell
  BY <1>1
<1>4. PICK m \in Int, n \in Int : m = o + 1 /\ n = o + Len(t)
  BY <1>1
<1>5. /\ part \in Seq(Cell)
      /\ Len(part) = IF m <= n THEN n - m + 1 ELSE 0
      /\ \A x \in 1 .. n - m + 1 : part[x] = w[m + x - 1]
  BY <1>2, <1>3, <1>4, SubSeqProperties
<1>6. Len(part) = Len(t)
  BY <1>1, <1>4, <1>5
<1>7. ASSUME NEW x \in 1 .. Len(t) PROVE part[x] = t[x]
  <2>1. x \in 1 .. n - m + 1 /\ m + x - 1 = o + x
    BY <1>1, <1>4
  <2> QED
    BY <1>5, <2>1
<1>8. \A x \in 1 .. Len(part) : part[x] = t[x]
  BY <1>6, <1>7
<1>9. part = t
  BY <1>5, <1>6, <1>8, SeqEqual
<1> QED
  BY <1>2, <1>9

\* A line stands behind its offset by its drift.
LEMMA LineAtPlace ==
  ASSUME NEW page \in Seq(Line), NEW i \in Nat, 1 <= i, i <= Len(page)
  PROVE  /\ Text(page[i]) \in Seq(Cell)
         /\ Text(page[i]) = SubSeq(PageText(page), Offset(page, i) + Drift(page, i) + 1,
                                   Offset(page, i) + Drift(page, i) + Len(Text(page[i])))
<1>1. PICK raw \in Seq(Seq(Cell)) : raw = RawLines(page) /\ Len(raw) = Len(page)
  BY LinesTyped
<1>2. PICK full \in Seq(Seq(Cell)) : /\ full = WrittenLines(page) /\ Len(full) = Len(page)
                                     /\ \A k \in 1 .. Len(page) : full[k] = AsWritten(page[k])
  BY LinesTyped
<1>3. PICK f : Grows(raw, f)
  BY TextsGrow
<1>4. PICK g : Grows(full, g)
  BY TextsGrow
<1>5. page[i] \in Line /\ i \in 1 .. Len(page)
  OBVIOUS
<1>6. PICK t \in Seq(Cell), d \in Nat, a \in Seq(Cell) :
        /\ t = Text(page[i]) /\ d = page[i].indent /\ a = full[i]
        /\ d + Len(t) <= Len(a) /\ \A x \in 1 .. Len(t) : a[d + x] = t[x]
  <2>1. LineParts(page[i])
    BY <1>5, LineHasParts
  <2>2. PICK t \in Seq(Cell), d \in Nat : t = Text(page[i]) /\ d = page[i].indent
    BY <1>5, TextTyped DEF Line
  <2>3. PICK a \in Seq(Cell) : a = full[i] /\ a = AsWritten(page[i])
    BY <1>2, <1>5
  <2>4. \A x \in 1 .. Len(t) : a[d + x] = t[x]
    BY <2>1, <2>2, <2>3 DEF LineParts
  <2>5. d + Len(t) <= Len(a)
    <3>1. Len(a) = d + Len(t) + Ending(page[i])
      BY <2>1, <2>2, <2>3 DEF LineParts
    <3>2. PICK q \in Nat : q = Ending(page[i])
      BY EndingIs
    <3>3. Len(a) = d + Len(t) + q
      BY <3>1, <3>2, Zenon
    <3>4. Len(a) \in Nat /\ Len(t) \in Nat
      OBVIOUS
    <3> QED
      BY <3>3, <3>4
  <2> QED
    BY <2>2, <2>3, <2>4, <2>5
<1>7. PICK c \in Nat : c = Returns(page, i - 1) /\ Drift(page, i) = d + c
  <2>1. i - 1 \in Nat
    OBVIOUS
  <2>2. Returns(page, i - 1) \in Nat
    BY <2>1, ReturnsGrow
  <2> QED
    BY <1>6, <2>2 DEF Drift, Returns
<1>8. OffsetIs(page, f, i)
  BY <1>1, <1>3, OffsetsAre
<1>9. PICK o \in Nat : o = Offset(page, i)
  BY <1>8 DEF OffsetIs
<1>10. PICK w \in Seq(Cell) : w = g[Len(page)] /\ PageText(page) = w
  <2>1. Len(page) \in Nat /\ 1 <= Len(page)
    OBVIOUS
  <2>2. GrownAt(full, g, Len(page))
    BY <1>2, <1>4, <2>1, GrowsBy
  <2>3. PageText(page) = g[Len(page)]
    BY <1>2, <1>4, PageTextTyped DEF Grows
  <2> QED
    BY <2>2, <2>3 DEF GrownAt
<1>11. PICK v \in Seq(Cell) : /\ v = g[i] /\ Len(v) <= Len(w)
                              /\ \A x \in 1 .. Len(v) : w[x] = v[x]
  <2>1. GoesOn(g[i], g[Len(page)])
    <3>1. Len(page) \in Nat /\ Len(page) <= Len(full)
      BY <1>2
    <3> QED
      BY <1>4, <3>1, GrowsOn
  <2>2. GrownAt(full, g, i)
    BY <1>2, <1>4, GrowsBy
  <2> QED
    BY <1>10, <2>1, <2>2 DEF GoesOn, GrownAt
<1>12. GrownAt(full, g, i)
  BY <1>2, <1>4, GrowsBy
<1>13. Len(v) = o + c + Len(a) /\ \A x \in 1 .. Len(a) : v[o + c + x] = a[x]
  <2>1. CASE i = 1
    <3>1. v = a
      BY <1>6, <1>11, <1>12, <2>1 DEF GrownAt
    <3>2. o = 0
      BY <1>8, <1>9, <2>1 DEF OffsetIs
    <3>3. c = 0
      <4>1. i - 1 = 0 /\ 0 \in Nat
        BY <2>1
      <4>2. Returns(page, 0) = 0
        BY <4>1, ReturnsGrow
      <4> QED
        BY <1>7, <4>1, <4>2
    <3>4. Len(a) \in Nat
      OBVIOUS
    <3> QED
      BY <3>1, <3>2, <3>3, <3>4
  <2>2. CASE i > 1
    <3>1. PICK k \in Nat : k = i - 1 /\ 1 <= k /\ k <= Len(page) /\ i # 1
      BY <2>2
    <3>2. PICK s \in Seq(Cell) : s = g[k] /\ v = s \o <<LineEnd>> \o a
      BY <1>6, <1>11, <1>12, <2>2, <3>1 DEF GrownAt
    <3>3. Len(v) = Len(s) + 1 + Len(a) /\ \A x \in 1 .. Len(a) : v[Len(s) + 1 + x] = a[x]
      BY <3>2, TwoLines
    <3>4. Len(s) = Len(f[k]) + c
      BY <1>1, <1>2, <1>3, <1>4, <1>7, <3>1, <3>2, ReturnsBetween
    <3>5. o = Len(f[k]) + 1
      BY <1>8, <1>9, <3>1 DEF OffsetIs
    <3>6. f[k] \in Seq(Cell)
      <4>1. GrownAt(raw, f, k)
        BY <1>1, <1>3, <3>1, GrowsBy
      <4> QED
        BY <4>1 DEF GrownAt
    <3>7. Len(f[k]) \in Nat /\ Len(s) \in Nat /\ Len(a) \in Nat
      BY <3>6
    <3>8. Len(s) + 1 = o + c
      BY <3>4, <3>5, <3>7
    <3> QED
      BY <3>3, <3>8
  <2> QED
    BY <2>1, <2>2
<1>14. PICK p \in Nat : p = o + Drift(page, i) /\ p = o + c + d
  <2>1. o + (d + c) = o + c + d /\ o + c + d \in Nat
    OBVIOUS
  <2> QED
    BY <1>7, <2>1, Zenon
<1>15. p + Len(t) <= Len(w) /\ \A x \in 1 .. Len(t) : w[p + x] = t[x]
  <2>1. Len(t) \in Nat /\ Len(a) \in Nat /\ Len(v) \in Nat /\ Len(w) \in Nat
    OBVIOUS
  <2>2. p + Len(t) <= Len(v)
    <3>1. p = o + c + d /\ d + Len(t) <= Len(a) /\ Len(v) = o + c + Len(a)
      BY <1>6, <1>13, <1>14, Zenon
    <3> QED
      BY <2>1, <3>1
  <2>3. ASSUME NEW x \in 1 .. Len(t) PROVE w[p + x] = t[x]
    <3>1. d + x \in 1 .. Len(a) /\ p + x = o + c + (d + x) /\ p + x \in 1 .. Len(v)
      <4>1. p = o + c + d /\ d + Len(t) <= Len(a)
        BY <1>6, <1>14, Zenon
      <4> QED
        BY <2>1, <2>2, <4>1
    <3>2. v[p + x] = a[d + x]
      BY <1>13, <3>1
    <3> QED
      BY <1>6, <1>11, <3>1, <3>2
  <2> QED
    BY <1>11, <2>1, <2>2, <2>3
<1>16. t = SubSeq(w, p + 1, p + Len(t))
  BY <1>15, PartIs
<1> QED
  BY <1>6, <1>9, <1>10, <1>14, <1>16

-----------------------------------------------------------------------------
(* The split of a file.                                                    *)

LEMMA FiniteDomain ==
  ASSUME NEW T, NEW seq \in Seq(T), NEW S, S \subseteq DOMAIN seq
  PROVE  /\ S \subseteq Int /\ IsFiniteSet(S) /\ Cardinality(S) \in Nat
         /\ IsFiniteSet(DOMAIN seq) /\ Cardinality(DOMAIN seq) = Len(seq)
<1>1. DOMAIN seq = 1 .. Len(seq) /\ Len(seq) \in Nat
  OBVIOUS
<1>2. IsFiniteSet(DOMAIN seq) /\ Cardinality(DOMAIN seq) = Len(seq)
  BY <1>1, UpTo
<1>3. IsFiniteSet(S)
  BY <1>2, FS_Subset
<1>4. S \subseteq Int
  BY <1>1
<1> QED
  BY <1>2, <1>3, <1>4, FS_CardinalityType

Paragraph == Seq(Line) \ {<<>>}

LEMMA BodyTyped ==
  ASSUME NEW line \in Line, Marked(line), NEW lines \in Seq(Line)
  PROVE  Body(Inline(line), lines) \in Seq(Cell)
<1> DEFINE texts == [i \in 1 .. Len(lines) |->
                      IF i = 1 /\ Inline(line) = <<>> THEN Text(lines[i]) ELSE RawLine(lines[i])]
<1>1. texts \in Seq(Seq(Cell))
  <2>1. \A i \in 1 .. Len(lines) : Text(lines[i]) \in Seq(Cell) /\ RawLine(lines[i]) \in Seq(Cell)
    <3> TAKE i \in 1 .. Len(lines)
    <3>1. LineParts(lines[i])
      BY LineHasParts
    <3> QED
      BY <3>1, TextTyped DEF LineParts
  <2>2. texts \in [1 .. Len(lines) -> Seq(Cell)]
    BY <2>1
  <2> HIDE DEF texts
  <2> QED
    BY <2>2
<1>2. Inline(line) \in Seq(Cell)
  <2>1. line.cells \in Seq(Cell) /\ line.head \in Heads
    BY DEF Line
  <2>2. <<"number", 0>> \in Cell
    BY DEF Cell, Kinds
  <2>3. <<<<"number", 0>>>> \in Seq(Cell)
    BY <2>2
  <2>4. <<>> \in Seq(Cell)
    OBVIOUS
  <2> QED
    BY <2>1, <2>3, <2>4 DEF Inline, Heads, Marked
<1>3. PICK front : front = IF Inline(line) = <<>> THEN <<>> ELSE <<Inline(line)>>
  OBVIOUS
<1>4. front \in Seq(Seq(Cell))
  BY <1>2, <1>3
<1>5. Body(Inline(line), lines) = JoinLines(front \o texts)
  BY <1>3 DEF Body
<1> HIDE DEF texts
<1>6. front \o texts \in Seq(Seq(Cell))
  BY <1>1, <1>4, ConcatProperties
<1> QED
  BY <1>5, <1>6, JoinTyped

\* The paragraphs with a marker are the clauses, and no paragraph is lost.
LEMMA TextSplitIsSound ==
  ASSUME NEW paragraphs \in Seq(Paragraph)
  PROVE  /\ Len(SplitText(paragraphs).clauses) \in Nat
         /\ DOMAIN SplitText(paragraphs).clauses = 1 .. Len(SplitText(paragraphs).clauses)
         /\ \A k \in DOMAIN SplitText(paragraphs).clauses :
              SplitText(paragraphs).clauses[k].text \in Seq(Cell)
         /\ SoundTextSplit(paragraphs, SplitText(paragraphs))
<1>1. PICK marked : marked = {i \in DOMAIN paragraphs : Marked(Head(paragraphs[i]))}
  OBVIOUS
<1>2. PICK clauses : clauses = Pick(paragraphs, marked)
  OBVIOUS
<1>3. PICK n : n = Cardinality(marked)
  OBVIOUS
<1>4. PICK list : list = [k \in 1 .. n |->
        [ordinal |-> k, text |-> Body(Inline(Head(clauses[k])), Tail(clauses[k]))]]
  OBVIOUS
<1>5. /\ SplitText(paragraphs).clauses = list
      /\ SplitText(paragraphs).unclassified = Cardinality(DOMAIN paragraphs \ marked)
  BY <1>1, <1>2, <1>3, <1>4 DEF SplitText
<1>6. /\ marked \subseteq DOMAIN paragraphs /\ marked \subseteq Int /\ IsFiniteSet(marked) /\ n \in Nat
      /\ IsFiniteSet(DOMAIN paragraphs) /\ Cardinality(DOMAIN paragraphs) = Len(paragraphs)
  BY <1>1, <1>3, FiniteDomain
<1>7. /\ \A k \in 1 .. n : clauses[k] = paragraphs[Nth(marked, k)]
      /\ \A k \in 1 .. n : Nth(marked, k) \in marked
  BY <1>2, <1>3, <1>6, PickShape, NumbersInOrder
<1>8. ASSUME NEW k \in 1 .. n
      PROVE  Body(Inline(Head(clauses[k])), Tail(clauses[k])) \in Seq(Cell)
  <2>1. clauses[k] \in Paragraph /\ Marked(Head(clauses[k]))
    <3>1. PICK i \in marked : clauses[k] = paragraphs[i]
      BY <1>7
    <3>2. i \in DOMAIN paragraphs /\ Marked(Head(paragraphs[i]))
      BY <1>1
    <3>3. paragraphs[i] \in Paragraph
      BY <3>2
    <3> QED
      BY <3>1, <3>2, <3>3
  <2>2. Head(clauses[k]) \in Line /\ Tail(clauses[k]) \in Seq(Line)
    BY <2>1, HeadTailProperties DEF Paragraph
  <2> QED
    BY <2>1, <2>2, BodyTyped
<1>9. \A k \in 1 .. n : list[k].ordinal = k /\ list[k].text \in Seq(Cell)
  BY <1>4, <1>8
<1>10. DOMAIN list = 1 .. n /\ Len(list) = n
  <2>1. list = [k \in 1 .. n |-> list[k]]
    BY <1>4, Zenon
  <2> QED
    BY <1>6, <2>1, LengthOf
<1>11. n + Cardinality(DOMAIN paragraphs \ marked) = Len(paragraphs)
  <2>1. DOMAIN paragraphs \cap marked = marked
    BY <1>6
  <2>2. Cardinality(DOMAIN paragraphs \ marked)
          = Cardinality(DOMAIN paragraphs) - Cardinality(DOMAIN paragraphs \cap marked)
    BY <1>6, FS_Difference
  <2>3. PICK l \in Nat : l = Cardinality(DOMAIN paragraphs) /\ l = Len(paragraphs)
    BY <1>6, FS_CardinalityType
  <2>4. PICK c : c = Cardinality(DOMAIN paragraphs \ marked)
    OBVIOUS
  <2>5. c = l - n
    BY <1>3, <2>1, <2>2, <2>3, <2>4
  <2>6. n + c = l
    BY <1>6, <2>3, <2>5
  <2> QED
    BY <2>3, <2>4, <2>6
<1> QED
  BY <1>5, <1>6, <1>9, <1>10, <1>11 DEF SoundTextSplit

-----------------------------------------------------------------------------
(* The split of pages.                                                     *)

LEMMA PlaceShape ==
  ASSUME NEW pages \in Seq(Seq(Line)), NEW a \in LinePlaces(pages)
  PROVE  /\ a = <<a[1], a[2]>>
         /\ a[1] \in DOMAIN pages /\ a[1] \in Nat /\ pages[a[1]] \in Seq(Line)
         /\ a[2] \in Nat /\ 1 <= a[2] /\ a[2] <= Len(pages[a[1]])
         /\ LineAt(pages, a) = pages[a[1]][a[2]]
<1>0. PICK p \in DOMAIN pages : \E i \in DOMAIN pages[p] : a = <<p, i>>
  BY DEF LinePlaces
<1>1. PICK i \in DOMAIN pages[p] : a = <<p, i>>
  BY <1>0
<1>2. p \in Nat /\ pages[p] \in Seq(Line)
  OBVIOUS
<1>3. i \in 1 .. Len(pages[p]) /\ Len(pages[p]) \in Nat
  BY <1>2
<1>4. a[1] = p /\ a[2] = i
  BY <1>1
<1> QED
  BY <1>1, <1>2, <1>3, <1>4 DEF LineAt

LEMMA PlacesFinite ==
  ASSUME NEW pages \in Seq(Seq(Line))
  PROVE  IsFiniteSet(LinePlaces(pages))
<1>0. PICK rows : rows = [p \in DOMAIN pages |-> {<<p, i>> : i \in DOMAIN pages[p]}]
  OBVIOUS
<1>1. /\ rows = [p \in DOMAIN pages |-> rows[p]]
      /\ \A p \in DOMAIN pages : rows[p] = {<<p, i>> : i \in DOMAIN pages[p]}
  BY <1>0, Zenon
<1>2. PICK R : R = {rows[p] : p \in DOMAIN pages}
  OBVIOUS
<1>3. ASSUME NEW T \in R PROVE IsFiniteSet(T)
  <2>1. PICK p \in DOMAIN pages : T = {<<p, i>> : i \in DOMAIN pages[p]}
    BY <1>1, <1>2
  <2>2. PICK n \in Nat : n = Len(pages[p]) /\ DOMAIN pages[p] = 1 .. n
    <3>1. pages[p] \in Seq(Line)
      OBVIOUS
    <3>2. Len(pages[p]) \in Nat /\ DOMAIN pages[p] = 1 .. Len(pages[p])
      BY <3>1, LenProperties, Zenon
    <3> QED
      BY <3>2, Zenon
  <2>3. PICK f : f = [a \in T |-> a[2]]
    OBVIOUS
  <2>4. \A a \in T : a = <<p, a[2]>> /\ a[2] \in 1 .. n
    BY <2>1, <2>2
  <2>5. f \in [T -> 1 .. n]
    BY <2>3, <2>4
  <2>6. \A a, b \in T : f[a] = f[b] => a = b
    BY <2>3, <2>4
  <2> QED
    BY <2>5, <2>6, InjectionBound
<1>4. IsFiniteSet(DOMAIN pages)
  BY FiniteDomain
<1>5. rows \in Surjection(DOMAIN pages, R)
  <2>1. rows \in [DOMAIN pages -> R]
    BY <1>1, <1>2, Zenon
  <2>2. \A T \in R : \E p \in DOMAIN pages : rows[p] = T
    BY <1>2
  <2> QED
    BY <2>1, <2>2 DEF Surjection
<1>6. IsFiniteSet(R)
  BY <1>4, <1>5, FS_Surjection
<1>7. IsFiniteSet(UNION R)
  BY <1>3, <1>6, FS_UNION
<1>8. LinePlaces(pages) \subseteq UNION R
  BY <1>1, <1>2 DEF LinePlaces
<1> QED
  BY <1>7, <1>8, FS_Subset

LEMMA AboveOrders ==
  ASSUME NEW pages \in Seq(Seq(Line))
  PROVE  /\ \A a, b \in LinePlaces(pages) : Above(a, b) => a # b /\ ~Above(b, a)
         /\ \A a, b \in LinePlaces(pages) : a = b \/ Above(a, b) \/ Above(b, a)
         /\ \A a, b, c \in LinePlaces(pages) : Above(a, b) /\ Above(b, c) => Above(a, c)
<1>1. \A a \in LinePlaces(pages) : a = <<a[1], a[2]>> /\ a[1] \in Nat /\ a[2] \in Nat
  BY PlaceShape
<1>2. \A a, b \in LinePlaces(pages) : a[1] = b[1] /\ a[2] = b[2] => a = b
  BY <1>1
<1>3. ASSUME NEW a \in LinePlaces(pages), NEW b \in LinePlaces(pages), Above(a, b)
      PROVE  a # b /\ ~Above(b, a)
  BY <1>1, <1>3 DEF Above
<1>4. ASSUME NEW a \in LinePlaces(pages), NEW b \in LinePlaces(pages)
      PROVE  a = b \/ Above(a, b) \/ Above(b, a)
  BY <1>1, <1>2 DEF Above
<1>5. ASSUME NEW a \in LinePlaces(pages), NEW b \in LinePlaces(pages), NEW c \in LinePlaces(pages),
             Above(a, b), Above(b, c)
      PROVE  Above(a, c)
  BY <1>1, <1>5 DEF Above
<1> QED
  BY <1>3, <1>4, <1>5

LEMMA OrdinalsInOrder ==
  ASSUME NEW pages \in Seq(Seq(Line)), NEW S, S \subseteq LinePlaces(pages)
  PROVE  /\ IsFiniteSet(S) /\ Cardinality(S) \in Nat
         /\ \A a \in S : Ordinal(S, a) \in 1 .. Cardinality(S)
         /\ \A a, b \in S : Above(a, b) => Ordinal(S, a) < Ordinal(S, b)
         /\ \A a, b \in S : Ordinal(S, a) = Ordinal(S, b) => a = b
         /\ \A k \in 1 .. Cardinality(S) : \E a \in S : Ordinal(S, a) = k
<1>1. IsFiniteSet(S)
  BY PlacesFinite, FS_Subset
<1>2. PICK R : \A a, b : <<a, b>> \in R <=> a \in S /\ b \in S /\ Above(a, b)
  <2>1. PICK P : P = {x \in S \X S : Above(x[1], x[2])}
    OBVIOUS
  <2>2. \A a, b : <<a, b>> \in P <=> a \in S /\ b \in S /\ Above(a, b)
    BY <2>1
  <2> QED
    BY <2>2
<1>3. Orders(R, S)
  <2>1. \A a, b \in S : <<a, b>> \in R => a # b /\ <<b, a>> \notin R
    BY <1>2, AboveOrders
  <2>2. \A a, b \in S : a = b \/ <<a, b>> \in R \/ <<b, a>> \in R
    BY <1>2, AboveOrders
  <2>3. ASSUME NEW a \in S, NEW b \in S, NEW c \in S, <<a, b>> \in R, <<b, c>> \in R
        PROVE  <<a, c>> \in R
    <3>1. Above(a, b) /\ Above(b, c)
      BY <1>2, <2>3
    <3>2. Above(a, c)
      BY <3>1, AboveOrders
    <3> QED
      BY <1>2, <3>2
  <2> QED
    BY <2>1, <2>2, <2>3 DEF Orders
<1>4. \A a \in S : Ordinal(S, a) = PlaceIn(S, R, a)
  <2> TAKE a \in S
  <2>1. {b \in S : b = a \/ Above(b, a)} = {b \in S : b = a \/ <<b, a>> \in R}
    BY <1>2
  <2> QED
    BY <2>1 DEF Ordinal, PlaceIn
<1>5. /\ Cardinality(S) \in Nat
      /\ \A a \in S : PlaceIn(S, R, a) \in 1 .. Cardinality(S)
      /\ \A a, b \in S : <<a, b>> \in R => PlaceIn(S, R, a) < PlaceIn(S, R, b)
      /\ \A a, b \in S : PlaceIn(S, R, a) = PlaceIn(S, R, b) => a = b
      /\ \A k \in 1 .. Cardinality(S) : \E a \in S : PlaceIn(S, R, a) = k
  <2>1. Placed(S, R)
    BY <1>1, <1>3, PlacesInOrder
  <2> QED
    BY <2>1 DEF Placed
<1>6. \A a \in S : Ordinal(S, a) \in 1 .. Cardinality(S)
  BY <1>4, <1>5
<1>7. ASSUME NEW a \in S, NEW b \in S, Above(a, b)
      PROVE  Ordinal(S, a) < Ordinal(S, b)
  <2>1. PlaceIn(S, R, a) < PlaceIn(S, R, b)
    BY <1>2, <1>5, <1>7
  <2>2. Ordinal(S, a) = PlaceIn(S, R, a) /\ Ordinal(S, b) = PlaceIn(S, R, b)
    BY <1>4
  <2> QED
    BY <2>1, <2>2
<1>8. \A a, b \in S : Ordinal(S, a) = Ordinal(S, b) => a = b
  BY <1>4, <1>5
<1>9. \A k \in 1 .. Cardinality(S) : \E a \in S : Ordinal(S, a) = k
  BY <1>4, <1>5
<1> QED
  BY <1>1, <1>5, <1>6, <1>7, <1>8, <1>9

\* The lines of a clause have a last one, above the next marker.
LEMMA LastLine ==
  ASSUME NEW pages \in Seq(Seq(Line)), NEW a \in MarkedPlaces(pages)
  PROVE  /\ a \in LinePlaces(pages)
         /\ LastOf(pages, a) \in LinePlaces(pages)
         /\ LastOf(pages, a) = a \/ Above(a, LastOf(pages, a))
         /\ \A m \in MarkedPlaces(pages) : Above(a, m) => Above(LastOf(pages, a), m)
<1>1. a \in LinePlaces(pages) /\ MarkedPlaces(pages) \subseteq LinePlaces(pages)
  BY DEF MarkedPlaces
<1>2. PICK S : S = Extent(pages, a)
  OBVIOUS
<1>3. S \subseteq LinePlaces(pages)
  BY <1>2 DEF Extent
<1>4. a \in S
  <2>1. ASSUME NEW m \in MarkedPlaces(pages), Above(a, m), m = a \/ Above(m, a) PROVE FALSE
    BY <1>1, <2>1, AboveOrders
  <2> QED
    BY <1>1, <1>2, <2>1 DEF Extent
<1>5. PICK n \in Nat : n = Cardinality(S) /\ n # 0
  BY <1>3, <1>4, OrdinalsInOrder, FS_EmptySet
<1>6. PICK b \in S : Ordinal(S, b) = n
  <2>1. n \in 1 .. Cardinality(S)
    BY <1>5
  <2> QED
    BY <1>3, <2>1, OrdinalsInOrder
<1>7. ASSUME NEW c \in S PROVE c = b \/ Above(c, b)
  <2>1. SUFFICES ASSUME Above(b, c) PROVE FALSE
    BY <1>3, AboveOrders
  <2>2. Ordinal(S, c) \in 1 .. n /\ Ordinal(S, b) < Ordinal(S, c)
    BY <1>3, <1>5, <2>1, OrdinalsInOrder
  <2> QED
    BY <1>6, <2>2
<1>8. LastOf(pages, a) \in S
  BY <1>2, <1>7 DEF LastOf
<1>9. PICK last \in S : last = LastOf(pages, a)
  BY <1>8
<1>10. last = a \/ Above(a, last)
  BY <1>2 DEF Extent
<1>11. ASSUME NEW m \in MarkedPlaces(pages), Above(a, m) PROVE Above(last, m)
  <2>1. ~(m = last \/ Above(m, last))
    BY <1>2, <1>11 DEF Extent
  <2>2. m = last \/ Above(m, last) \/ Above(last, m)
    BY <1>1, <1>3, AboveOrders
  <2> QED
    BY <2>1, <2>2
<1> QED
  BY <1>1, <1>3, <1>9, <1>10, <1>11

LEMMA PlaceOffsets ==
  ASSUME NEW pages \in Seq(Seq(Line)), NEW a \in LinePlaces(pages), NEW b \in LinePlaces(pages)
  PROVE  /\ a = b \/ Above(a, b) =>
              Before(a[1], Offset(pages[a[1]], a[2]), b[1], EndOffset(pages[b[1]], b[2]))
         /\ Above(a, b) =>
              Before(a[1], EndOffset(pages[a[1]], a[2]), b[1], Offset(pages[b[1]], b[2]))
<1>1. /\ a[1] \in Nat /\ b[1] \in Nat /\ a[2] \in Nat /\ b[2] \in Nat
      /\ pages[b[1]] \in Seq(Line)
      /\ 1 <= a[2] /\ b[2] <= Len(pages[b[1]])
  BY PlaceShape
<1>2. ASSUME a[1] = b[1], a[2] <= b[2]
      PROVE  /\ Offset(pages[a[1]], a[2]) <= EndOffset(pages[b[1]], b[2])
             /\ a[2] < b[2] => EndOffset(pages[a[1]], a[2]) <= Offset(pages[b[1]], b[2])
  BY <1>1, <1>2, OffsetsInOrder
<1>3. a = b \/ Above(a, b) => a[1] < b[1] \/ (a[1] = b[1] /\ a[2] <= b[2])
  BY <1>1 DEF Above
<1>4. Above(a, b) => a[1] < b[1] \/ (a[1] = b[1] /\ a[2] <= b[2] /\ a[2] < b[2])
  BY <1>1 DEF Above
<1> QED
  BY <1>2, <1>3, <1>4 DEF Before

\* What SoundPageSplit says of the text of a clause, of a clause, and of one and the
\* next.
Stands(page, c) ==
  \/ c.start = 0 /\ c.text = PageText(page)
  \/ \E k \in DOMAIN page :
       /\ c.start = Offset(page, k)
       /\ LET place == c.start + Drift(page, k) IN
          c.text = SubSeq(PageText(page), place + 1, place + Len(c.text))

SoundClause(pages, c) ==
  /\ c.text \in Seq(Cell)
  /\ Before(c.pageStart, c.start, c.pageEnd, c.end)
  /\ Stands(pages[c.pageStart], c)

Follows(c, d) == c.ordinal < d.ordinal /\ Before(c.pageEnd, c.end, d.pageStart, d.start)

LEMMA WholePageIsSound ==
  ASSUME NEW pages \in Seq(Seq(Line)), NEW p \in DOMAIN pages, NEW n
  PROVE  SoundClause(pages, WholePage(pages, p, n))
<1>1. PICK w \in Seq(Cell) : w = PageText(pages[p])
  <2>1. pages[p] \in Seq(Line)
    OBVIOUS
  <2> QED
    BY <2>1, PageTextTyped
<1>2. Len(w) \in Nat /\ p \in Nat
  OBVIOUS
<1>4. Before(p, 0, p, Len(w))
  BY <1>2 DEF Before
<1>5. PICK c : c = WholePage(pages, p, n)
  OBVIOUS
<1>6. c.text = w /\ c.pageStart = p /\ c.start = 0 /\ c.pageEnd = p /\ c.end = Len(w)
  BY <1>1, <1>5 DEF WholePage
<1>7. Stands(pages[p], c)
  BY <1>1, <1>6 DEF Stands
<1> QED
  BY <1>1, <1>4, <1>5, <1>6, <1>7 DEF SoundClause

LEMMA MarkedIsSound ==
  ASSUME NEW pages \in Seq(Seq(Line)), NEW a \in MarkedPlaces(pages)
  PROVE  SoundClause(pages, ClauseAt(pages, a))
<1>1. PICK last : last = LastOf(pages, a)
  OBVIOUS
<1>2. a \in LinePlaces(pages) /\ last \in LinePlaces(pages) /\ (last = a \/ Above(a, last))
  BY <1>1, LastLine
<1>3. PICK page \in Seq(Line), i \in Nat :
        page = pages[a[1]] /\ i = a[2] /\ 1 <= i /\ i <= Len(page) /\ LineAt(pages, a) = page[i]
  BY <1>2, PlaceShape
<1>4. page[i] \in Line
  BY <1>3
<1>5. Text(page[i]) \in Seq(Cell)
  BY <1>4, TextTyped
<1>6. Text(page[i]) = SubSeq(PageText(page), Offset(page, i) + Drift(page, i) + 1,
                             Offset(page, i) + Drift(page, i) + Len(Text(page[i])))
  BY <1>3, LineAtPlace
<1>7. Before(a[1], Offset(page, i), last[1], EndOffset(pages[last[1]], last[2]))
  BY <1>2, <1>3, PlaceOffsets
<1>8. PICK c : c = ClauseAt(pages, a)
  OBVIOUS
<1>9. /\ c.text = Text(page[i]) /\ c.pageStart = a[1] /\ c.start = Offset(page, i)
      /\ c.pageEnd = last[1] /\ c.end = EndOffset(pages[last[1]], last[2])
  BY <1>1, <1>3, <1>8 DEF ClauseAt
<1>10. Stands(page, c)
  <2>1. i \in DOMAIN page
    BY <1>3
  <2> QED
    BY <1>6, <1>9, <2>1 DEF Stands
<1> QED
  BY <1>3, <1>5, <1>7, <1>8, <1>9, <1>10 DEF SoundClause

LEMMA MarkedFollow ==
  ASSUME NEW pages \in Seq(Seq(Line)), NEW a \in MarkedPlaces(pages), NEW b \in MarkedPlaces(pages),
         Above(a, b)
  PROVE  Follows(ClauseAt(pages, a), ClauseAt(pages, b))
<1>1. PICK last : last = LastOf(pages, a)
  OBVIOUS
<1>2. last \in LinePlaces(pages) /\ b \in LinePlaces(pages) /\ Above(last, b)
  BY <1>1, LastLine
<1>3. Before(last[1], EndOffset(pages[last[1]], last[2]), b[1], Offset(pages[b[1]], b[2]))
  BY <1>2, PlaceOffsets
<1>4. Ordinal(MarkedPlaces(pages), a) < Ordinal(MarkedPlaces(pages), b)
  <2>1. PICK S : S = MarkedPlaces(pages) /\ S \subseteq LinePlaces(pages)
    BY DEF MarkedPlaces
  <2>2. \A x, y \in S : Above(x, y) => Ordinal(S, x) < Ordinal(S, y)
    BY <2>1, OrdinalsInOrder
  <2> QED
    BY <2>1, <2>2
<1>5. PICK c, d : c = ClauseAt(pages, a) /\ d = ClauseAt(pages, b)
  OBVIOUS
<1>6. /\ c.ordinal = Ordinal(MarkedPlaces(pages), a) /\ d.ordinal = Ordinal(MarkedPlaces(pages), b)
      /\ c.pageEnd = last[1] /\ c.end = EndOffset(pages[last[1]], last[2])
      /\ d.pageStart = b[1] /\ d.start = Offset(pages[b[1]], b[2])
  BY <1>1, <1>5 DEF ClauseAt
<1> QED
  BY <1>3, <1>4, <1>5, <1>6 DEF Follows

SoundList(pages, list, n) ==
  /\ n \in Nat \ {0}
  /\ list = [k \in 1 .. n |-> list[k]]
  /\ \A k \in 1 .. n : SoundClause(pages, list[k])
  /\ \A k \in 1 .. n : k < n => Follows(list[k], list[k + 1])

\* Every clause stands where its line says, below the clause before it.
LEMMA PageSplitIsSound ==
  ASSUME NEW pages \in Seq(Seq(Line)), pages # <<>>
  PROVE  /\ Len(SplitPages(pages).clauses) \in Nat \ {0}
         /\ DOMAIN SplitPages(pages).clauses = 1 .. Len(SplitPages(pages).clauses)
         /\ \A k \in DOMAIN SplitPages(pages).clauses : SplitPages(pages).clauses[k].text \in Seq(Cell)
         /\ SoundPageSplit(pages, SplitPages(pages).clauses)
<1>1. PICK list : list = SplitPages(pages).clauses
  OBVIOUS
<1>2. PICK marks : marks = MarkedPlaces(pages)
  OBVIOUS
<1>3. PICK kept : kept = {a \in marks : HasBody(pages, a)}
  OBVIOUS
<1>4. PICK at : at = [k \in 1 .. Cardinality(kept) |-> CHOOSE a \in kept : Ordinal(kept, a) = k]
  OBVIOUS
<1>5. list = IF marks = {} THEN [p \in 1 .. Len(pages) |-> WholePage(pages, p, p)]
             ELSE IF kept = {} THEN <<WholePage(pages, 1, 1)>>
             ELSE [k \in 1 .. Cardinality(kept) |->
                     ClauseAt(pages, CHOOSE a \in kept : Ordinal(kept, a) = k)]
  BY <1>1, <1>2, <1>3 DEF SplitPages
<1>6. ASSUME marks = {} PROVE \E n \in Nat : SoundList(pages, list, n)
  <2>1. PICK n \in Nat : n = Len(pages) /\ n # 0 /\ DOMAIN pages = 1 .. n
    OBVIOUS
  <2>2. list = [p \in 1 .. n |-> WholePage(pages, p, p)]
    BY <1>5, <1>6, <2>1
  <2>3. list = [k \in 1 .. n |-> list[k]]
    BY <2>2, Zenon
  <2>4. \A k \in 1 .. n : list[k] = WholePage(pages, k, k)
    BY <2>2
  <2>5. \A k \in 1 .. n : SoundClause(pages, list[k])
    BY <2>1, <2>4, WholePageIsSound
  <2>6. ASSUME NEW k \in 1 .. n, k < n PROVE Follows(list[k], list[k + 1])
    <3>1. k + 1 \in 1 .. n /\ k \in Nat
      BY <2>6
    <3>2. PICK c, d : c = WholePage(pages, k, k) /\ d = WholePage(pages, k + 1, k + 1)
      OBVIOUS
    <3>3. c.ordinal = k /\ c.pageEnd = k /\ d.ordinal = k + 1 /\ d.pageStart = k + 1
      BY <3>2 DEF WholePage
    <3>4. Follows(c, d)
      BY <3>1, <3>3 DEF Follows, Before
    <3>5. list[k] = c /\ list[k + 1] = d
      BY <2>4, <3>1, <3>2
    <3> QED
      BY <3>4, <3>5, Zenon
  <2>7. n \in Nat \ {0}
    BY <2>1
  <2>8. SoundList(pages, list, n)
    BY <2>3, <2>5, <2>6, <2>7, Zenon DEF SoundList
  <2> QED
    BY <2>1, <2>8, Zenon
<1>7. ASSUME marks # {} /\ kept = {} PROVE \E n \in Nat : SoundList(pages, list, n)
  <2>1. list = <<WholePage(pages, 1, 1)>>
    BY <1>5, <1>7
  <2>2. list = [k \in 1 .. 1 |-> list[k]] /\ list[1] = WholePage(pages, 1, 1)
    BY <2>1
  <2>3. 1 \in DOMAIN pages
    OBVIOUS
  <2>4. SoundClause(pages, list[1])
    BY <2>2, <2>3, WholePageIsSound
  <2>5. 1 \in Nat \ {0} /\ (\A k \in 1 .. 1 : k = 1 /\ ~(k < 1))
    OBVIOUS
  <2>6. SoundList(pages, list, 1)
    BY <2>2, <2>4, <2>5, Zenon DEF SoundList
  <2> QED
    BY <2>5, <2>6, Zenon
<1>8. ASSUME marks # {} /\ kept # {} PROVE \E n \in Nat : SoundList(pages, list, n)
  <2>1. kept \subseteq LinePlaces(pages) /\ kept \subseteq MarkedPlaces(pages)
    BY <1>2, <1>3 DEF MarkedPlaces
  <2>2. PICK n \in Nat : n = Cardinality(kept) /\ n # 0
    BY <1>8, <2>1, OrdinalsInOrder, FS_EmptySet
  <2>3. list = [k \in 1 .. n |-> ClauseAt(pages, CHOOSE a \in kept : Ordinal(kept, a) = k)]
    BY <1>5, <1>8, <2>2
  <2>4. list = [k \in 1 .. n |-> list[k]]
    <3>1. list = [k \in 1 .. n |-> ClauseAt(pages, at[k])]
      BY <1>4, <2>2, <2>3
    <3> QED
      BY <3>1, Zenon
  <2>5. \A k \in 1 .. n : at[k] \in kept /\ Ordinal(kept, at[k]) = k
    <3>1. \A k \in 1 .. n : \E a \in kept : Ordinal(kept, a) = k
      BY <2>1, <2>2, OrdinalsInOrder
    <3>2. \A k \in 1 .. n : at[k] = CHOOSE a \in kept : Ordinal(kept, a) = k
      BY <1>4, <2>2
    <3> QED
      BY <3>1, <3>2
  <2>6. \A k \in 1 .. n : list[k] = ClauseAt(pages, at[k])
    BY <1>4, <2>2, <2>3
  <2>7. \A k \in 1 .. n : SoundClause(pages, list[k])
    BY <2>1, <2>5, <2>6, MarkedIsSound
  <2>8. ASSUME NEW k \in 1 .. n, k < n PROVE Follows(list[k], list[k + 1])
    <3>1. k + 1 \in 1 .. n
      BY <2>8
    <3>2. PICK a \in kept, b \in kept : a = at[k] /\ b = at[k + 1] /\ Ordinal(kept, a) = k
                                        /\ Ordinal(kept, b) = k + 1
      BY <2>5, <3>1
    <3>3. ~Above(b, a) /\ a # b
      <4>1. \A x, y \in kept : Above(x, y) => Ordinal(kept, x) < Ordinal(kept, y)
        BY <2>1, OrdinalsInOrder
      <4>2. ~(k + 1 < k) /\ k # k + 1
        OBVIOUS
      <4>3. a # b
        BY <3>2, <4>2
      <4>4. ASSUME Above(b, a) PROVE FALSE
        <5>1. Ordinal(kept, b) < Ordinal(kept, a)
          BY <4>1, <4>4
        <5> QED
          BY <3>2, <4>2, <5>1
      <4> QED
        BY <4>3, <4>4
    <3>4. Above(a, b)
      BY <2>1, <3>3, AboveOrders
    <3> QED
      BY <2>1, <2>6, <3>1, <3>2, <3>4, MarkedFollow
  <2>9. n \in Nat \ {0}
    BY <2>2
  <2>10. SoundList(pages, list, n)
    BY <2>4, <2>7, <2>8, <2>9, Zenon DEF SoundList
  <2> QED
    BY <2>2, <2>10, Zenon
<1>9. \E n \in Nat : SoundList(pages, list, n)
  <2>1. 1 \in Nat
    OBVIOUS
  <2> QED
    BY <1>6, <1>7, <1>8, <2>1, Zenon
<1>10. PICK n \in Nat : SoundList(pages, list, n)
  BY <1>9
<1>11. /\ DOMAIN list = 1 .. n /\ Len(list) = n /\ n # 0
       /\ \A k \in 1 .. n : SoundClause(pages, list[k])
       /\ \A k \in 1 .. n : k < n => Follows(list[k], list[k + 1])
  <2>1. list = [k \in 1 .. n |-> list[k]]
    BY <1>10, Zenon DEF SoundList
  <2> QED
    BY <1>10, <2>1, LengthOf DEF SoundList
<1>12. list # <<>>
  BY <1>11
<1>13. \A k \in DOMAIN list : list[k].text \in Seq(Cell)
  BY <1>11 DEF SoundClause
<1>14. SoundPageSplit(pages, list)
  BY <1>11, <1>12 DEF SoundPageSplit, SoundClause, Stands, Follows
<1> QED
  BY <1>1, <1>11, <1>13, <1>14

-----------------------------------------------------------------------------
(* What is detected: a candidate is selected, or one before it overlaps it. *)

LEMMA PrefixDiffers ==
  /\ \A t \in Types : Prefix[t] \in Kinds \ {"path"}
  /\ \A t, u \in Types : Prefix[t] = Prefix[u] => t = u
  BY DEF Prefix, Types, Kinds

LEMMA PriorityDiffers ==
  /\ \A t \in Types : Priority[t] \in Nat
  /\ \A t, u \in Types : Priority[t] = Priority[u] => t = u
  BY DEF Priority, Types

LEMMA TypesFinite == IsFiniteSet(Types)
<1>1. PICK some : some = {"address", "business", "phone", "national"}
  OBVIOUS
<1>2. IsFiniteSet(some)
  <2>1. some = (((({} \cup {"address"}) \cup {"business"}) \cup {"phone"}) \cup {"national"})
    BY <1>1
  <2> QED
    BY <2>1, FS_EmptySet, FS_AddElement
<1>3. Types = ((((some \cup {"email"}) \cup {"account"}) \cup {"card"}) \cup {"postal"})
  BY <1>1 DEF Types
<1> QED
  BY <1>2, <1>3, FS_AddElement

\* The members of C, none of P, that no other one of S blocks.
IsKernel(S, C, B, P) ==
  S \subseteq C /\ \A c \in C : c \in S <=> c \notin P /\ ~\E s \in S : <<s, c>> \in B

\* A relation that goes up in a numbering has a kernel.
LEMMA KernelExists ==
  ASSUME NEW C, NEW n \in Nat, NEW place, NEW B, NEW P,
         \A c \in C : place[c] \in 1 .. n,
         \A a, b \in C : <<a, b>> \in B => place[a] < place[b]
  PROVE  \E S : IsKernel(S, C, B, P)
<1> DEFINE Part(S, m) ==
             /\ \A c \in S : place[c] <= m
             /\ \A c \in C : place[c] <= m => (c \in S <=> c \notin P /\ ~\E s \in S : <<s, c>> \in B)
           Good(m) == \E S \in SUBSET C : Part(S, m)
           K == {m \in Nat : Good(m)}
<1>1. 0 \in K
  <2>1. \A c \in C : ~(place[c] <= 0)
    OBVIOUS
  <2>2. {} \in SUBSET C /\ \A c \in {} : place[c] <= 0
    OBVIOUS
  <2>3. Good(0)
    BY <2>1, <2>2
  <2> QED
    BY <2>3
<1>2. \A m \in K : m + 1 \in K
  <2> TAKE m \in K
  <2>1. PICK S \in SUBSET C : Part(S, m)
    OBVIOUS
  <2>2. PICK new : new = {c \in C : place[c] = m + 1 /\ c \notin P /\ ~\E s \in S : <<s, c>> \in B}
    OBVIOUS
  <2>3. PICK U \in SUBSET C : U = S \cup new
    BY <2>2
  <2>4. \A c \in U : place[c] <= m + 1
    BY <2>1, <2>2, <2>3
  <2>5. ASSUME NEW c \in C, place[c] <= m + 1
        PROVE  c \in U <=> c \notin P /\ ~\E s \in U : <<s, c>> \in B
    <3>1. (\E s \in U : <<s, c>> \in B) <=> (\E s \in S : <<s, c>> \in B)
      <4>1. ASSUME NEW s \in new, <<s, c>> \in B PROVE FALSE
        <5>1. s \in C /\ place[s] = m + 1 /\ place[s] < place[c]
          BY <2>2, <4>1
        <5> QED
          BY <2>5, <5>1
      <4> QED
        BY <2>3, <4>1
    <3>2. CASE place[c] <= m
      <4>1. c \notin new
        BY <2>2, <3>2
      <4> QED
        BY <2>1, <2>3, <3>1, <3>2, <4>1
    <3>3. CASE place[c] = m + 1
      <4>1. c \notin S
        BY <2>1, <3>3
      <4> QED
        BY <2>2, <2>3, <3>1, <3>3, <4>1
    <3>4. place[c] <= m \/ place[c] = m + 1
      BY <2>5
    <3> QED
      BY <3>2, <3>3, <3>4
  <2>6. Part(U, m + 1)
    BY <2>4, <2>5
  <2> HIDE DEF Part
  <2>7. Good(m + 1)
    BY <2>6
  <2> QED
    BY <2>7
<1>3. Nat \subseteq K
  <2> HIDE DEF K
  <2> QED
    BY <1>1, <1>2, SetInduction
<1>4. Good(n)
  BY <1>3
<1>5. \A c \in C : place[c] <= n
  OBVIOUS
<1>6. PICK S \in SUBSET C : Part(S, n)
  BY <1>4
<1>7. IsKernel(S, C, B, P)
  BY <1>5, <1>6 DEF IsKernel
<1> QED
  BY <1>7

Spans(text) == [first : 1 .. Len(text), last : 1 .. Len(text), type : Types]

LEMMA CellAt ==
  ASSUME NEW text \in Seq(Cell), NEW i \in DOMAIN text
  PROVE  text[i] = <<text[i][1], text[i][2]>> /\ text[i][1] \in Kinds /\ text[i][2] \in Nat
<1>1. PICK c \in Cell : c = text[i]
  OBVIOUS
<1>2. c = <<c[1], c[2]>> /\ c[1] \in Kinds /\ c[2] \in Nat
  BY DEF Cell
<1> QED
  BY <1>1, <1>2

LEMMA LargestOf ==
  ASSUME NEW S, S \subseteq Nat, S # {}, IsFiniteSet(S)
  PROVE  Max(S) \in S /\ \A x \in S : x <= Max(S)
<1>1. PICK n \in Nat : n = Cardinality(S) /\ n # 0
  BY FS_CardinalityType, FS_EmptySet
<1>2. S \subseteq Int
  OBVIOUS
<1>3. n \in 1 .. Cardinality(S)
  BY <1>1
<1>4. PICK m \in S : Rank(S, m) = n
  BY <1>2, <1>3, NumbersInOrder
<1>5. ASSUME NEW x \in S PROVE m >= x
  <2>1. SUFFICES ASSUME m < x PROVE FALSE
    OBVIOUS
  <2>2. Rank(S, x) \in 1 .. n /\ Rank(S, m) < Rank(S, x)
    BY <1>1, <1>2, <2>1, NumbersInOrder
  <2> QED
    BY <1>4, <2>2
<1>6. \E x \in S : \A y \in S : x >= y
  BY <1>5
<1>7. Max(S) \in S /\ \A y \in S : Max(S) >= y
  BY <1>6 DEF Max
<1> QED
  BY <1>7

\* What a label labels lies behind it.
LEMMA LabelledBounds ==
  ASSUME NEW text \in Seq(Cell), NEW i \in DOMAIN text, Labelled(text, i) # {},
         NEW first, first = Min(Labelled(text, i)), NEW last, last = Max(Labelled(text, i))
  PROVE  first \in 1 .. Len(text) /\ last \in 1 .. Len(text) /\ first <= last
<1>1. PICK n \in Nat : n = Len(text) /\ DOMAIN text = 1 .. n
  OBVIOUS
<1>2. PICK S : S = Labelled(text, i)
  OBVIOUS
<1>3. S \subseteq i + 1 .. n
  BY <1>1, <1>2 DEF Labelled
<1>4. S \subseteq 1 .. n /\ S \subseteq Nat
  BY <1>1, <1>3
<1>5. IsFiniteSet(S)
  <2>1. IsFiniteSet(1 .. n)
    BY <1>1, UpTo
  <2> QED
    BY <1>4, <2>1, FS_Subset
<1>6. last \in S /\ \A x \in S : x <= last
  BY <1>2, <1>4, <1>5, LargestOf
<1>7. first \in S
  BY <1>2, <1>4, SmallestOf
<1> QED
  BY <1>1, <1>4, <1>6, <1>7

LEMMA ShapeLength ==
  ASSUME NEW pattern \in Patterns, NEW shape \in Shapes(pattern)
  PROVE  shape.length \in Nat \ {0}
<1>1. CASE pattern \notin {"phone", "account"}
  BY <1>1 DEF Patterns, Shapes, Types
<1>2. CASE pattern = "phone"
  <2>1. PICK b \in 3 .. 4 : shape.length = b + 9
    BY <1>2 DEF Shapes
  <2> QED
    BY <2>1
<1>3. CASE pattern = "account"
  <2>1. PICK a \in 3 .. 6, b \in 3 .. 4 : shape.length = a + b + 6
    BY <1>3 DEF Shapes
  <2> QED
    BY <2>1
<1> QED
  BY <1>1, <1>2, <1>3

\* A span of the text is not empty.
IsSpan(text, c) == c \in Spans(text) /\ c.first <= c.last

LEMMA MatchShape ==
  ASSUME NEW text \in Seq(Cell), NEW pattern \in Patterns, NEW c \in Matches(text, pattern)
  PROVE  IsSpan(text, c)
<1>1. PICK n \in Nat : n = Len(text) /\ DOMAIN text = 1 .. n
  OBVIOUS
<1>2. PICK s \in Shapes(pattern), i \in DOMAIN text :
        /\ Written(text, i, s)
        /\ c = [first |-> i, last |-> i + s.length - 1, type |-> Type(pattern)]
  BY DEF Matches
<1>3. PICK l \in Nat \ {0} : l = s.length
  BY <1>2, ShapeLength
<1>4. i + l - 1 <= n
  BY <1>1, <1>2, <1>3 DEF Written
<1>5. Type(pattern) \in Types
  BY DEF Type, Patterns, Types
<1>6. i \in 1 .. n /\ i + l - 1 \in 1 .. n /\ i <= i + l - 1
  BY <1>1, <1>3, <1>4
<1> QED
  BY <1>1, <1>2, <1>3, <1>5, <1>6 DEF IsSpan, Spans

\* Candidates lie within the text.
LEMMA CandidateShape ==
  ASSUME NEW text \in Seq(Cell), NEW c \in AllCandidates(text)
  PROVE  IsSpan(text, c)
<1>1. PICK n \in Nat : n = Len(text) /\ DOMAIN text = 1 .. n
  OBVIOUS
<1>2. CASE c \in NumberCandidates(text)
  <2>1. PICK p \in Patterns : c \in Found(Matches(text, p), Len(text))
    BY <1>2 DEF NumberCandidates
  <2>2. c \in Matches(text, p)
    BY <2>1 DEF Found
  <2> QED
    BY <2>2, MatchShape
<1>3. CASE c \in EmailCandidates(text)
  <2>1. PICK i \in DOMAIN text :
          c = [first |-> Min({k \in 1 .. i : \A j \in k .. i - 1 : text[j][1] \in {"digit", "dash"}}),
               last |-> i, type |-> "email"]
    BY <1>3 DEF EmailCandidates
  <2>2. PICK S : S = {k \in 1 .. i : \A j \in k .. i - 1 : text[j][1] \in {"digit", "dash"}}
    OBVIOUS
  <2>3. i \in S
    BY <1>1, <2>2
  <2>4. S \subseteq 1 .. i
    BY <2>2
  <2>5. S \subseteq Nat
    BY <1>1, <2>4
  <2>6. Min(S) \in 1 .. i
    BY <2>3, <2>4, <2>5, SmallestOf
  <2>7. PICK m \in 1 .. i : c = [first |-> m, last |-> i, type |-> "email"]
    BY <2>1, <2>2, <2>6
  <2> QED
    BY <1>1, <2>7 DEF IsSpan, Spans, Types
<1>4. CASE c \in AddressCandidates(text)
  <2>1. PICK i \in Labels(text, "address:") :
          c = [first |-> Min(Labelled(text, i)), last |-> Max(Labelled(text, i)), type |-> "address"]
    BY <1>4 DEF AddressCandidates
  <2>2. i \in DOMAIN text /\ Labelled(text, i) # {}
    BY <2>1 DEF Labels
  <2>3. PICK a \in 1 .. n, b \in 1 .. n :
          a <= b /\ c = [first |-> a, last |-> b, type |-> "address"]
    BY <1>1, <2>1, <2>2, LabelledBounds
  <2> QED
    BY <1>1, <2>3 DEF IsSpan, Spans, Types
<1>5. CASE c \in AccountCandidates(text)
  <2>1. PICK i \in Labels(text, "account:") :
          \E m \in Matches(SubSeq(text, Min(Labelled(text, i)), Max(Labelled(text, i))), "account") :
            c = [m EXCEPT !.first = @ + Min(Labelled(text, i)) - 1, !.last = @ + Min(Labelled(text, i)) - 1]
    BY <1>5 DEF AccountCandidates
  <2>2. i \in DOMAIN text /\ Labelled(text, i) # {}
    BY <2>1 DEF Labels
  <2>3. PICK a \in 1 .. n, b \in 1 .. n :
          a <= b /\ a = Min(Labelled(text, i)) /\ b = Max(Labelled(text, i))
    BY <1>1, <2>2, LabelledBounds
  <2>4. PICK m \in Matches(SubSeq(text, a, b), "account") :
          c = [m EXCEPT !.first = @ + a - 1, !.last = @ + a - 1]
    BY <2>1, <2>3
  <2>5. SubSeq(text, a, b) \in Seq(Cell) /\ Len(SubSeq(text, a, b)) = b - a + 1
    BY <1>1, <2>3
  <2>6. "account" \in Patterns
    BY DEF Patterns, Types
  <2>7. IsSpan(SubSeq(text, a, b), m)
    BY <2>4, <2>5, <2>6, MatchShape
  <2>8. m.first \in 1 .. b - a + 1 /\ m.last \in 1 .. b - a + 1 /\ m.type \in Types /\ m.first <= m.last
        /\ m = [first |-> m.first, last |-> m.last, type |-> m.type]
    BY <2>5, <2>7 DEF IsSpan, Spans
  <2>9. c = [first |-> m.first + a - 1, last |-> m.last + a - 1, type |-> m.type]
    BY <2>4, <2>8
  <2>10. m.first + a - 1 \in 1 .. n /\ m.last + a - 1 \in 1 .. n /\ m.first + a - 1 <= m.last + a - 1
    BY <1>1, <2>3, <2>8
  <2> QED
    BY <1>1, <2>8, <2>9, <2>10 DEF IsSpan, Spans
<1> QED
  BY <1>2, <1>3, <1>4, <1>5 DEF AllCandidates

LEMMA CandidatesFinite ==
  ASSUME NEW text \in Seq(Cell)
  PROVE  IsFiniteSet(AllCandidates(text))
<1>1. PICK n \in Nat : n = Len(text)
  OBVIOUS
<1>2. PICK T : T = (1 .. n) \X ((1 .. n) \X Types)
  OBVIOUS
<1>3. IsFiniteSet(T)
  BY <1>2, UpTo, TypesFinite, FS_Product
<1>4. PICK S : S = AllCandidates(text) /\ S \subseteq Spans(text)
  BY CandidateShape DEF IsSpan
<1>5. PICK f : f = [c \in S |-> <<c.first, <<c.last, c.type>>>>]
  OBVIOUS
<1>6. f \in [S -> T]
  BY <1>1, <1>2, <1>4, <1>5 DEF Spans
<1>7. ASSUME NEW a \in S, NEW b \in S, f[a] = f[b] PROVE a = b
  <2>1. a.first = b.first /\ a.last = b.last /\ a.type = b.type
    BY <1>5, <1>7
  <2>2. a \in Spans(text) /\ b \in Spans(text)
    BY <1>4
  <2> QED
    BY <2>1, <2>2 DEF Spans
<1>8. f \in Injection(S, T)
  BY <1>6, <1>7 DEF Injection, IsInjective
<1> QED
  BY <1>3, <1>4, <1>8, FS_Injection

LEMMA PrecedesOrders ==
  ASSUME NEW text \in Seq(Cell)
  PROVE  /\ \A a, b \in AllCandidates(text) : Precedes(a, b) => a # b /\ ~Precedes(b, a)
         /\ \A a, b \in AllCandidates(text) : a = b \/ Precedes(a, b) \/ Precedes(b, a)
         /\ \A a, b, c \in AllCandidates(text) : Precedes(a, b) /\ Precedes(b, c) => Precedes(a, c)
<1>1. ASSUME NEW c \in AllCandidates(text)
      PROVE  c.first \in Nat /\ c.last \in Nat /\ c.type \in Types /\ Priority[c.type] \in Nat
             /\ c \in Spans(text)
  <2>1. c \in Spans(text)
    BY CandidateShape DEF IsSpan
  <2>2. c.first \in Nat /\ c.last \in Nat /\ c.type \in Types
    BY <2>1 DEF Spans
  <2> QED
    BY <2>1, <2>2, PriorityDiffers
<1>2. ASSUME NEW a \in AllCandidates(text), NEW b \in AllCandidates(text), Precedes(a, b)
      PROVE  a # b /\ ~Precedes(b, a)
  BY <1>1, <1>2 DEF Precedes
<1>3. ASSUME NEW a \in AllCandidates(text), NEW b \in AllCandidates(text),
             ~Precedes(a, b), ~Precedes(b, a)
      PROVE  a = b
  <2>1. a.first = b.first /\ a.last = b.last /\ Priority[a.type] = Priority[b.type]
    BY <1>1, <1>3 DEF Precedes
  <2>2. a.type = b.type
    BY <1>1, <2>1, PriorityDiffers
  <2>3. a \in Spans(text) /\ b \in Spans(text)
    BY <1>1
  <2> QED
    BY <2>1, <2>2, <2>3 DEF Spans
<1>4. ASSUME NEW a \in AllCandidates(text), NEW b \in AllCandidates(text),
             NEW c \in AllCandidates(text), Precedes(a, b), Precedes(b, c)
      PROVE  Precedes(a, c)
  <2> DEFINE a1 == a.first  a2 == a.last  a3 == Priority[a.type]
             b1 == b.first  b2 == b.last  b3 == Priority[b.type]
             c1 == c.first  c2 == c.last  c3 == Priority[c.type]
  <2>1. /\ a1 \in Nat /\ a2 \in Nat /\ a3 \in Nat
        /\ b1 \in Nat /\ b2 \in Nat /\ b3 \in Nat
        /\ c1 \in Nat /\ c2 \in Nat /\ c3 \in Nat
    BY <1>1
  <2>2. a1 < b1 \/ (a1 = b1 /\ a2 > b2) \/ (a1 = b1 /\ a2 = b2 /\ a3 > b3)
    BY <1>4, Zenon DEF Precedes
  <2>3. b1 < c1 \/ (b1 = c1 /\ b2 > c2) \/ (b1 = c1 /\ b2 = c2 /\ b3 > c3)
    BY <1>4, Zenon DEF Precedes
  <2>4. a1 < c1 \/ (a1 = c1 /\ a2 > c2) \/ (a1 = c1 /\ a2 = c2 /\ a3 > c3)
    <3> HIDE DEF a1, a2, a3, b1, b2, b3, c1, c2, c3
    <3> QED
      BY <2>1, <2>2, <2>3
  <2> QED
    BY <2>4, Zenon DEF Precedes
<1> QED
  BY <1>2, <1>3, <1>4

\* The selection the code makes candidate by candidate exists: Resolve is it.
LEMMA Resolved ==
  ASSUME NEW text \in Seq(Cell)
  PROVE  /\ Resolve(text) \subseteq AllCandidates(text)
         /\ \A c \in AllCandidates(text) :
              c \in Resolve(text) <=>
                /\ ~Protected(text, c)
                /\ ~\E s \in Resolve(text) : Precedes(s, c) /\ Overlap(s, c)
<1>1. PICK C : C = AllCandidates(text)
  OBVIOUS
<1>2. PICK R : \A a, b : <<a, b>> \in R <=> a \in C /\ b \in C /\ Precedes(a, b)
  <2>1. PICK P : P = {x \in C \X C : Precedes(x[1], x[2])}
    OBVIOUS
  <2>2. \A a, b : <<a, b>> \in P <=> a \in C /\ b \in C /\ Precedes(a, b)
    BY <2>1
  <2> QED
    BY <2>2
<1>3. PICK B : \A a, b : <<a, b>> \in B <=> a \in C /\ b \in C /\ Precedes(a, b) /\ Overlap(a, b)
  <2>1. PICK P : P = {x \in C \X C : Precedes(x[1], x[2]) /\ Overlap(x[1], x[2])}
    OBVIOUS
  <2>2. \A a, b : <<a, b>> \in P <=> a \in C /\ b \in C /\ Precedes(a, b) /\ Overlap(a, b)
    BY <2>1
  <2> QED
    BY <2>2
<1>4. PICK P : P = {c \in C : Protected(text, c)}
  OBVIOUS
<1>5. Orders(R, C)
  <2>1. \A a, b \in C : <<a, b>> \in R => a # b /\ <<b, a>> \notin R
    BY <1>1, <1>2, PrecedesOrders
  <2>2. \A a, b \in C : a = b \/ <<a, b>> \in R \/ <<b, a>> \in R
    BY <1>1, <1>2, PrecedesOrders
  <2>3. ASSUME NEW a \in C, NEW b \in C, NEW c \in C, <<a, b>> \in R, <<b, c>> \in R
        PROVE  <<a, c>> \in R
    <3>1. Precedes(a, b) /\ Precedes(b, c)
      BY <1>2, <2>3
    <3>2. Precedes(a, c)
      BY <1>1, <3>1, PrecedesOrders
    <3> QED
      BY <1>2, <3>2
  <2> QED
    BY <2>1, <2>2, <2>3 DEF Orders
<1>6. IsFiniteSet(C)
  BY <1>1, CandidatesFinite
<1>7. PICK n \in Nat : n = Cardinality(C)
  BY <1>6, FS_CardinalityType
<1>8. PICK place : place = [c \in C |-> PlaceIn(C, R, c)]
  OBVIOUS
<1>9. place \in [C -> 1 .. n] /\ \A a, b \in C : <<a, b>> \in B => place[a] < place[b]
  <2>1. /\ \A a \in C : PlaceIn(C, R, a) \in 1 .. n
        /\ \A a, b \in C : <<a, b>> \in R => PlaceIn(C, R, a) < PlaceIn(C, R, b)
    <3>1. Placed(C, R)
      BY <1>5, <1>6, PlacesInOrder
    <3> QED
      BY <1>7, <3>1 DEF Placed
  <2>2. \A a, b \in C : <<a, b>> \in B => <<a, b>> \in R
    BY <1>2, <1>3
  <2> QED
    BY <1>8, <2>1, <2>2
<1>10. \E S : IsKernel(S, C, B, P)
  <2>1. \A c \in C : place[c] \in 1 .. n
    BY <1>9
  <2>2. \A a, b \in C : <<a, b>> \in B => place[a] < place[b]
    BY <1>9
  <2> QED
    BY <2>1, <2>2, KernelExists
<1>11. \E S \in SUBSET C : \A c \in C :
         c \in S <=> ~Protected(text, c) /\ ~\E s \in S : Precedes(s, c) /\ Overlap(s, c)
  <2>1. PICK S \in SUBSET C : \A c \in C : c \in S <=> c \notin P /\ ~\E s \in S : <<s, c>> \in B
    BY <1>10 DEF IsKernel
  <2>2. \A c \in C : (\E s \in S : <<s, c>> \in B) <=> (\E s \in S : Precedes(s, c) /\ Overlap(s, c))
    BY <1>3
  <2>3. \A c \in C : c \in S <=> ~Protected(text, c) /\ ~\E s \in S : Precedes(s, c) /\ Overlap(s, c)
    BY <1>4, <2>1, <2>2
  <2> QED
    BY <2>3
<1>12. PICK S : S = Resolve(text)
  OBVIOUS
<1>13. S = CHOOSE Z \in SUBSET C : \A c \in C :
         c \in Z <=> ~Protected(text, c) /\ ~\E s \in Z : Precedes(s, c) /\ Overlap(s, c)
  BY <1>1, <1>12 DEF Resolve
<1>14. S \in SUBSET C /\ \A c \in C :
         c \in S <=> ~Protected(text, c) /\ ~\E s \in S : Precedes(s, c) /\ Overlap(s, c)
  BY <1>11, <1>13, Zenon
<1> QED
  BY <1>1, <1>12, <1>14

\* Selected spans have no cell in common, and none of a token.
LEMMA ResolvedApart ==
  ASSUME NEW text \in Seq(Cell)
  PROVE  /\ \A e \in Resolve(text) :
              /\ e \in Spans(text) /\ e.first <= e.last
              /\ \A k \in e.first .. e.last : ~IsToken(text[k])
         /\ \A d, e \in Resolve(text) : Overlap(d, e) => d = e
<1>1. PICK R : R = Resolve(text)
  OBVIOUS
<1>2. /\ R \subseteq AllCandidates(text)
      /\ \A c \in R : ~Protected(text, c) /\ ~\E s \in R : Precedes(s, c) /\ Overlap(s, c)
  BY <1>1, Resolved
<1>3. ASSUME NEW e \in R
      PROVE  /\ e \in Spans(text) /\ e.first <= e.last /\ e.first \in Nat /\ e.last \in Nat
             /\ e.last <= Len(text) /\ 1 <= e.first
  <2>1. e \in Spans(text) /\ e.first <= e.last
    BY <1>2, CandidateShape DEF IsSpan
  <2>2. e.first \in 1 .. Len(text) /\ e.last \in 1 .. Len(text) /\ Len(text) \in Nat
    BY <2>1 DEF Spans
  <2> QED
    BY <2>1, <2>2
<1>4. ASSUME NEW e \in R, NEW k \in e.first .. e.last, IsToken(text[k]) PROVE FALSE
  <2>1. k \in Nat /\ k \in DOMAIN text
    BY <1>3
  <2>2. PICK token : token = [first |-> k, last |-> k]
    OBVIOUS
  <2>3. token \in Preexisting(text)
    BY <1>4, <2>1, <2>2 DEF Preexisting
  <2>4. Overlap(e, token)
    BY <1>3, <2>1, <2>2 DEF Overlap
  <2> QED
    BY <1>2, <2>3, <2>4 DEF Protected
<1>5. ASSUME NEW d \in R, NEW e \in R, Overlap(d, e) PROVE d = e
  <2>1. Overlap(e, d)
    BY <1>5 DEF Overlap
  <2>2. ~Precedes(d, e) /\ ~Precedes(e, d)
    BY <1>2, <1>5, <2>1
  <2> QED
    BY <1>2, <2>2, PrecedesOrders
<1> QED
  BY <1>1, <1>3, <1>4, <1>5

LEMMA ResolvedByPlace ==
  ASSUME NEW text \in Seq(Cell), NEW d \in Resolve(text), NEW e \in Resolve(text),
         d.first <= e.first, e.first <= d.last
  PROVE  d = e
<1>1. /\ e \in Spans(text) /\ e.first <= e.last /\ d \in Spans(text)
  BY ResolvedApart
<1>2. Overlap(d, e)
  <2>1. d.first \in Nat /\ e.first \in Nat /\ e.last \in Nat
    BY <1>1 DEF Spans
  <2> QED
    BY <1>1, <2>1 DEF Overlap
<1> QED
  BY <1>2, ResolvedApart

LEMMA HighestBound ==
  ASSUME NEW text \in Seq(Cell), NEW t \in Types
  PROVE  /\ Highest(text, t) \in Nat
         /\ \A i \in DOMAIN text : text[i][1] = Prefix[t] => text[i][2] <= Highest(text, t)
<1>1. PICK I : I = {j \in DOMAIN text : text[j][1] = Prefix[t]}
  OBVIOUS
<1>2. PICK V : V = {text[i][2] : i \in I}
  OBVIOUS
<1>3. V \subseteq Nat
  BY <1>1, <1>2, CellAt
<1>4. IsFiniteSet(V)
  <2>1. IsFiniteSet(I)
    <3>1. IsFiniteSet(DOMAIN text)
      BY FiniteDomain
    <3> QED
      BY <1>1, <3>1, FS_Subset
  <2>2. PICK f : f = [i \in I |-> text[i][2]]
    OBVIOUS
  <2>3. f \in Surjection(I, V)
    BY <1>2, <2>2 DEF Surjection
  <2> QED
    BY <2>1, <2>3, FS_Surjection
<1>5. PICK S : S = {0} \cup V
  OBVIOUS
<1>6. S \subseteq Nat /\ S # {} /\ IsFiniteSet(S)
  <2>1. IsFiniteSet(V \cup {0})
    BY <1>4, FS_AddElement
  <2>2. S = V \cup {0}
    BY <1>5
  <2> QED
    BY <1>3, <2>1, <2>2
<1>7. Max(S) \in S /\ \A x \in S : x <= Max(S)
  BY <1>6, LargestOf
<1>8. Highest(text, t) = Max(S)
  BY <1>1, <1>2, <1>5 DEF Highest
<1> QED
  BY <1>1, <1>2, <1>5, <1>6, <1>7, <1>8

\* The first place of a value, and the places of the values of a type.
LEMMA FirstPlaces ==
  ASSUME NEW text \in Seq(Cell), NEW R, R = Resolve(text), NEW e \in R
  PROVE  /\ FirstOf(text, R, e) \in ValuesOf(text, R, e.type)
         /\ ValuesOf(text, R, e.type) \subseteq Int /\ IsFiniteSet(ValuesOf(text, R, e.type))
         /\ \E x \in R : /\ x.type = e.type /\ Value(text, x) = Value(text, e)
                         /\ x.first = FirstOf(text, R, e)
<1>0. PICK n \in Nat : n = Len(text)
  OBVIOUS
<1>1. ASSUME NEW d \in R
      PROVE  /\ FirstOf(text, R, d) \in 1 .. n
             /\ \E x \in R : /\ x.type = d.type /\ Value(text, x) = Value(text, d)
                             /\ x.first = FirstOf(text, R, d)
  <2>1. PICK X : X = {x \in R : x.type = d.type /\ Value(text, x) = Value(text, d)}
    OBVIOUS
  <2>2. PICK S : S = {x.first : x \in X}
    OBVIOUS
  <2>3. d.first \in S
    BY <2>1, <2>2
  <2>4. S \subseteq 1 .. n
    <3>1. \A x \in R : x.first \in 1 .. n
      BY <1>0, ResolvedApart DEF Spans
    <3> QED
      BY <2>1, <2>2, <3>1
  <2>5. S \subseteq Nat
    BY <2>4
  <2>6. Min(S) \in S
    BY <2>3, <2>5, SmallestOf
  <2>7. FirstOf(text, R, d) = Min(S)
    BY <2>1, <2>2 DEF FirstOf
  <2> QED
    BY <2>1, <2>2, <2>4, <2>6, <2>7
<1>2. PICK V : V = ValuesOf(text, R, e.type)
  OBVIOUS
<1>3. V \subseteq 1 .. n
  BY <1>1, <1>2 DEF ValuesOf
<1>4. IsFiniteSet(1 .. n)
  BY UpTo
<1>5. IsFiniteSet(V)
  BY <1>3, <1>4, FS_Subset
<1>6. FirstOf(text, R, e) \in V
  BY <1>2 DEF ValuesOf
<1>7. V \subseteq Int
  BY <1>3
<1> QED
  BY <1>1, <1>2, <1>5, <1>6, <1>7

\* New numbers are above those of the text, and one for each value.
LEMMA NumbersApart ==
  ASSUME NEW text \in Seq(Cell), NEW R, R = Resolve(text), NEW d \in R, NEW e \in R
  PROVE  /\ d.type \in Types
         /\ Number(text, R, d) \in Nat /\ Number(text, R, d) > Highest(text, d.type)
         /\ d.type = e.type =>
              (Number(text, R, d) = Number(text, R, e) <=> Value(text, d) = Value(text, e))
<1>1. d.type \in Types
  BY ResolvedApart DEF Spans
<1>2. PICK h \in Nat : h = Highest(text, d.type)
  BY <1>1, HighestBound
<1>3. PICK V : V = ValuesOf(text, R, d.type)
  OBVIOUS
<1>4. PICK a : a = FirstOf(text, R, d)
  OBVIOUS
<1>5. PICK b : b = FirstOf(text, R, e)
  OBVIOUS
<1>6. V \subseteq Int /\ IsFiniteSet(V) /\ a \in V
  BY <1>3, <1>4, FirstPlaces
<1>7. \A m \in V : Rank(V, m) \in Nat /\ Rank(V, m) >= 1
  <2>1. Cardinality(V) \in Nat /\ \A m \in V : Rank(V, m) \in 1 .. Cardinality(V)
    BY <1>6, NumbersInOrder
  <2> QED
    BY <2>1
<1>8. Number(text, R, d) = h + Rank(V, a)
  BY <1>2, <1>3, <1>4 DEF Number
<1>9. ASSUME d.type = e.type
      PROVE  Number(text, R, d) = Number(text, R, e) <=> Value(text, d) = Value(text, e)
  <2>1. b \in V
    BY <1>3, <1>5, <1>9, FirstPlaces
  <2>2. Number(text, R, e) = h + Rank(V, b)
    BY <1>2, <1>3, <1>5, <1>9 DEF Number
  <2>3. Number(text, R, d) = Number(text, R, e) <=> a = b
    <3>1. a = b <=> Rank(V, a) = Rank(V, b)
      <4>1. a < b => Rank(V, a) < Rank(V, b)
        BY <1>6, <2>1, NumbersInOrder
      <4>2. b < a => Rank(V, b) < Rank(V, a)
        BY <1>6, <2>1, NumbersInOrder
      <4>3. Rank(V, a) \in Nat /\ Rank(V, b) \in Nat /\ a \in Int /\ b \in Int
        BY <1>6, <1>7, <2>1
      <4> QED
        BY <4>1, <4>2, <4>3
    <3>2. Rank(V, a) \in Nat /\ Rank(V, b) \in Nat
      BY <1>6, <1>7, <2>1
    <3> QED
      BY <1>8, <2>2, <3>1, <3>2
  <2>4. ASSUME Value(text, d) = Value(text, e) PROVE a = b
    <3>1. {x \in R : x.type = d.type /\ Value(text, x) = Value(text, d)}
            = {x \in R : x.type = e.type /\ Value(text, x) = Value(text, e)}
      BY <1>9, <2>4
    <3> QED
      BY <1>4, <1>5, <3>1, Zenon DEF FirstOf
  <2>5. ASSUME a = b PROVE Value(text, d) = Value(text, e)
    <3>1. PICK x \in R : Value(text, x) = Value(text, d) /\ x.first = a
      BY <1>4, FirstPlaces
    <3>2. PICK y \in R : Value(text, y) = Value(text, e) /\ y.first = b
      BY <1>5, FirstPlaces
    <3>3. x \in Spans(text) /\ x.first <= x.last
      BY ResolvedApart
    <3>4. x.first \in Nat /\ x.last \in Nat
      BY <3>3 DEF Spans
    <3>5. x = y
      BY <2>5, <3>1, <3>2, <3>3, <3>4, ResolvedByPlace
    <3> QED
      BY <3>1, <3>2, <3>5
  <2> QED
    BY <2>3, <2>4, <2>5
<1>10. Number(text, R, d) \in Nat /\ Number(text, R, d) > h
  <2>1. Rank(V, a) \in Nat /\ Rank(V, a) >= 1
    BY <1>6, <1>7
  <2> QED
    BY <1>8, <2>1
<1> QED
  BY <1>1, <1>2, <1>9, <1>10

-----------------------------------------------------------------------------
(* The masked text.                                                        *)

TokenOf(text, e) == <<Prefix[e.type], Number(text, Resolve(text), e)>>

LEMMA EntitiesAre ==
  ASSUME NEW text \in Seq(Cell)
  PROVE  /\ \A d \in DetectEntities(text) : \E e \in Resolve(text) :
              /\ d.first = e.first /\ d.last = e.last /\ d.type = e.type
              /\ d.token = TokenOf(text, e)
         /\ \A e \in Resolve(text) : \E d \in DetectEntities(text) :
              /\ d.first = e.first /\ d.last = e.last /\ d.type = e.type
              /\ d.token = TokenOf(text, e)
<1>1. PICK R : R = Resolve(text)
  OBVIOUS
<1>2. DetectEntities(text) = {Entity(text, R, e) : e \in R}
  BY <1>1 DEF DetectEntities
<1>3. ASSUME NEW e \in R, NEW d, d = Entity(text, R, e)
      PROVE  /\ d.first = e.first /\ d.last = e.last /\ d.type = e.type
             /\ d.token = TokenOf(text, e)
  BY <1>1, <1>3 DEF Entity, TokenOf
<1> QED
  BY <1>1, <1>2, <1>3

Covered(R, i) == \E e \in R : e.first <= i /\ i <= e.last

\* Cells that are not dropped.
Kept(text, R) == {i \in DOMAIN text : ~\E e \in R : e.first < i /\ i <= e.last}

\* What becomes of cell i.
MaskedAs(text, i, cell) ==
  \/ \E e \in Resolve(text) : e.first = i /\ cell = TokenOf(text, e)
  \/ ~Covered(Resolve(text), i) /\ cell = text[i]

LEMMA MaskedCells ==
  ASSUME NEW text \in Seq(Cell), NEW masked, masked = MaskText(text, DetectEntities(text)),
         NEW kept, kept = Kept(text, Resolve(text))
  PROVE  /\ masked \in Seq(Cell)
         /\ kept \subseteq 1 .. Len(text) /\ IsFiniteSet(kept)
         /\ Cardinality(kept) = Len(masked)
         /\ \A k \in 1 .. Len(masked) :
              /\ Nth(kept, k) \in kept /\ Rank(kept, Nth(kept, k)) = k
              /\ MaskedAs(text, Nth(kept, k), masked[k])
         /\ \A i \in kept :
              /\ Rank(kept, i) \in 1 .. Len(masked) /\ Nth(kept, Rank(kept, i)) = i
              /\ MaskedAs(text, i, masked[Rank(kept, i)])
<1>1. PICK R : R = Resolve(text)
  OBVIOUS
<1>2. PICK entities : entities = DetectEntities(text)
  OBVIOUS
<1>3. PICK new : new = [i \in DOMAIN text |->
                         IF \E e \in entities : e.first = i
                         THEN (CHOOSE e \in entities : e.first = i).token ELSE text[i]]
  OBVIOUS
<1>4. kept = {i \in DOMAIN text : ~\E e \in entities : e.first < i /\ i <= e.last}
  <2>1. ASSUME NEW i \in DOMAIN text
        PROVE  (\E e \in R : e.first < i /\ i <= e.last)
                 <=> (\E e \in entities : e.first < i /\ i <= e.last)
    <3>1. ASSUME NEW e \in R, e.first < i /\ i <= e.last
          PROVE  \E d \in entities : d.first < i /\ i <= d.last
      <4>1. PICK d \in entities : d.first = e.first /\ d.last = e.last
        BY <1>1, <1>2, EntitiesAre
      <4> QED
        BY <3>1, <4>1
    <3>2. ASSUME NEW d \in entities, d.first < i /\ i <= d.last
          PROVE  \E e \in R : e.first < i /\ i <= e.last
      <4>1. PICK e \in R : d.first = e.first /\ d.last = e.last
        BY <1>1, <1>2, EntitiesAre
      <4> QED
        BY <3>2, <4>1
    <3> QED
      BY <3>1, <3>2
  <2>2. kept = {i \in DOMAIN text : ~\E e \in R : e.first < i /\ i <= e.last}
    BY <1>1 DEF Kept
  <2> QED
    BY <2>1, <2>2
<1>5. masked = Pick(new, kept)
  BY <1>2, <1>3, <1>4, Zenon DEF MaskText
<1>6. kept \subseteq 1 .. Len(text) /\ IsFiniteSet(kept) /\ kept \subseteq Int
  <2>1. kept \subseteq DOMAIN text /\ DOMAIN text = 1 .. Len(text) /\ Len(text) \in Nat
    BY <1>4
  <2>2. IsFiniteSet(kept)
    BY <2>1, FiniteDomain, FS_Subset
  <2> QED
    BY <2>1, <2>2
<1>7. PICK N \in Nat : N = Cardinality(kept)
  BY <1>6, FS_CardinalityType
<1>8. /\ DOMAIN masked = 1 .. N /\ Len(masked) = N
      /\ \A k \in 1 .. N : masked[k] = new[Nth(kept, k)]
      /\ \A i \in kept : masked[Rank(kept, i)] = new[i]
  BY <1>5, <1>6, <1>7, PickShape
<1>9. ASSUME NEW i \in kept PROVE MaskedAs(text, i, new[i])
  <2>1. i \in DOMAIN text
    BY <1>4
  <2>2. CASE \E d \in entities : d.first = i
    <3>1. PICK d \in entities : d = CHOOSE x \in entities : x.first = i
      BY <2>2
    <3>2. d.first = i
      BY <2>2, <3>1
    <3>3. new[i] = d.token
      BY <1>3, <2>1, <2>2, <3>1
    <3>4. PICK e \in R : e.first = d.first /\ d.token = TokenOf(text, e)
      BY <1>1, <1>2, EntitiesAre
    <3> QED
      BY <1>1, <3>2, <3>3, <3>4 DEF MaskedAs
  <2>3. CASE ~\E d \in entities : d.first = i
    <3>1. new[i] = text[i]
      BY <1>3, <2>1, <2>3
    <3>2. ASSUME NEW e \in R, e.first <= i, i <= e.last PROVE FALSE
      <4>1. PICK d \in entities : d.first = e.first /\ d.last = e.last
        BY <1>1, <1>2, EntitiesAre
      <4>2. e.first \in Int /\ i \in Int
        BY <1>1, <1>6, ResolvedApart DEF Spans
      <4>3. d.first < i /\ i <= d.last
        BY <2>3, <3>2, <4>1, <4>2
      <4> QED
        BY <1>4, <4>3
    <3> QED
      BY <1>1, <3>1, <3>2 DEF MaskedAs, Covered
  <2> QED
    BY <2>2, <2>3
<1>10. ASSUME NEW i \in kept PROVE new[i] \in Cell
  <2>1. CASE \E e \in R : new[i] = TokenOf(text, e)
    <3>1. PICK e \in R : new[i] = TokenOf(text, e)
      BY <2>1
    <3>2. e.type \in Types /\ Number(text, R, e) \in Nat
      BY <1>1, NumbersApart
    <3>3. Prefix[e.type] \in Kinds
      BY <3>2, PrefixDiffers
    <3> QED
      BY <1>1, <3>1, <3>2, <3>3 DEF TokenOf, Cell
  <2>2. CASE new[i] = text[i]
    BY <1>6, <2>2
  <2> QED
    BY <1>1, <1>9, <2>1, <2>2 DEF MaskedAs
<1>11. /\ \A i \in kept : Rank(kept, i) \in 1 .. N /\ Nth(kept, Rank(kept, i)) = i
       /\ \A k \in 1 .. N : Nth(kept, k) \in kept /\ Rank(kept, Nth(kept, k)) = k
  BY <1>6, <1>7, NumbersInOrder
<1>12. masked \in Seq(Cell)
  <2>1. \A k \in 1 .. N : masked[k] \in Cell
    BY <1>8, <1>10, <1>11
  <2>2. masked = [k \in 1 .. N |-> new[Nth(kept, k)]]
    BY <1>5, <1>7, Zenon DEF Pick
  <2>3. masked = [k \in 1 .. N |-> masked[k]]
    BY <1>8, <2>2, Zenon
  <2> QED
    BY <2>1, <2>3
<1> QED
  BY <1>6, <1>7, <1>8, <1>9, <1>11, <1>12

\* What is found, and no token protects, begins inside a selected span: what is
\* selected in its stead precedes it.
LEMMA FoundBegins ==
  ASSUME NEW text \in Seq(Cell), NEW c \in AllCandidates(text), ~Protected(text, c)
  PROVE  \E e \in Resolve(text) : e.first <= c.first /\ c.first <= e.last
<1>1. PICK R : R = Resolve(text)
  OBVIOUS
<1>2. R \subseteq AllCandidates(text)
  BY <1>1, Resolved
<1>3. ASSUME NEW s \in AllCandidates(text)
      PROVE  s.first \in Nat /\ s.last \in Nat /\ s.first <= s.last
  BY CandidateShape DEF IsSpan, Spans
<1>4. CASE c \in R
  BY <1>1, <1>3, <1>4
<1>5. CASE c \notin R
  <2>1. PICK s \in R : Precedes(s, c) /\ Overlap(s, c)
    BY <1>1, <1>5, Resolved
  <2>2. s.first \in Nat /\ s.last \in Nat /\ c.first \in Nat /\ c.last \in Nat
    BY <1>2, <1>3
  <2>3. s.first <= c.first
    BY <2>1, <2>2 DEF Precedes
  <2>4. c.first <= s.last
    BY <2>1 DEF Overlap
  <2> QED
    BY <1>1, <2>3, <2>4
<1> QED
  BY <1>4, <1>5

\* Whatever is found is protected or begins inside what is replaced, and tokens are
\* one for each value and new to the text.
LEMMA MaskingIsSound ==
  ASSUME NEW text \in Seq(Cell)
  PROVE  SoundMasking(text)
<1>1. PICK R : R = Resolve(text)
  OBVIOUS
<1>2. PICK entities : entities = DetectEntities(text)
  OBVIOUS
<1>3. ASSUME NEW c \in AllCandidates(text), ~Protected(text, c)
      PROVE  \E d \in entities : d.first <= c.first /\ c.first <= d.last
  <2>1. PICK e \in R : e.first <= c.first /\ c.first <= e.last
    BY <1>1, <1>3, FoundBegins
  <2>2. PICK d \in entities : d.first = e.first /\ d.last = e.last
    BY <1>1, <1>2, EntitiesAre
  <2> QED
    BY <2>1, <2>2
<1>4. ASSUME NEW d \in entities, NEW e \in entities
      PROVE  d.token = e.token <=> d.type = e.type /\ Value(text, d) = Value(text, e)
  <2>1. PICK x \in R : d.first = x.first /\ d.last = x.last /\ d.type = x.type
                       /\ d.token = TokenOf(text, x)
    BY <1>1, <1>2, EntitiesAre
  <2>2. PICK y \in R : e.first = y.first /\ e.last = y.last /\ e.type = y.type
                       /\ e.token = TokenOf(text, y)
    BY <1>1, <1>2, EntitiesAre
  <2>3. Value(text, d) = Value(text, x) /\ Value(text, e) = Value(text, y)
    BY <2>1, <2>2 DEF Value
  <2>4. x.type \in Types /\ y.type \in Types
    BY <1>1, NumbersApart
  <2>5. Prefix[x.type] = Prefix[y.type] <=> x.type = y.type
    BY <2>4, PrefixDiffers
  <2>6. d.token = e.token <=> Prefix[x.type] = Prefix[y.type] /\ Number(text, R, x) = Number(text, R, y)
    BY <1>1, <2>1, <2>2 DEF TokenOf
  <2>7. x.type = y.type =>
          (Number(text, R, x) = Number(text, R, y) <=> Value(text, x) = Value(text, y))
    BY <1>1, NumbersApart
  <2> QED
    BY <2>1, <2>2, <2>3, <2>5, <2>6, <2>7
<1>5. ASSUME NEW d \in entities, NEW e \in entities, Overlap(d, e) PROVE d = e
  <2>1. PICK x \in R, y \in R : d = Entity(text, R, x) /\ e = Entity(text, R, y)
    BY <1>1, <1>2 DEF DetectEntities
  <2>2. Overlap(x, y)
    BY <1>5, <2>1 DEF Overlap, Entity
  <2>3. x = y
    BY <1>1, <2>2, ResolvedApart
  <2> QED
    BY <2>1, <2>3
<1>6. ASSUME NEW e \in entities, e.token \in Range(text) PROVE FALSE
  <2>1. PICK i \in DOMAIN text : text[i] = e.token
    BY <1>6 DEF Range
  <2>2. PICK x \in R : e.token = TokenOf(text, x)
    BY <1>1, <1>2, EntitiesAre
  <2>3. text[i][1] = Prefix[x.type] /\ text[i][2] = Number(text, R, x)
    BY <1>1, <2>1, <2>2 DEF TokenOf
  <2>4. /\ x.type \in Types
        /\ Number(text, R, x) \in Nat /\ Number(text, R, x) > Highest(text, x.type)
    BY <1>1, NumbersApart
  <2>5. text[i][2] <= Highest(text, x.type) /\ Highest(text, x.type) \in Nat
    BY <2>3, <2>4, HighestBound
  <2> QED
    BY <2>3, <2>4, <2>5
<1> QED
  BY <1>2, <1>3, <1>4, <1>5, <1>6, Zenon DEF SoundMasking

\* A cell that a selected span does not cover is kept as it is.
LEMMA UncoveredStays ==
  ASSUME NEW text \in Seq(Cell), NEW i \in DOMAIN text, ~Covered(Resolve(text), i)
  PROVE  /\ i \in Kept(text, Resolve(text))
         /\ \A cell : MaskedAs(text, i, cell) => cell = text[i]
<1>1. PICK R : R = Resolve(text)
  OBVIOUS
<1>2. ASSUME NEW e \in R PROVE e.first \in Int /\ e.last \in Int /\ e.first <= e.last
  BY <1>1, ResolvedApart DEF Spans
<1>3. i \in Int
  OBVIOUS
<1>4. i \in Kept(text, R)
  BY <1>1, <1>2, <1>3 DEF Kept, Covered
<1>5. ASSUME NEW e \in R, e.first = i PROVE FALSE
  BY <1>1, <1>2, <1>5 DEF Covered
<1> QED
  BY <1>1, <1>4, <1>5 DEF MaskedAs

LEMMA TokenUncovered ==
  ASSUME NEW text \in Seq(Cell), NEW i \in DOMAIN text,
         IsToken(text[i])
  PROVE  ~Covered(Resolve(text), i)
<1>1. SUFFICES ASSUME NEW e \in Resolve(text), e.first <= i, i <= e.last PROVE FALSE
  BY DEF Covered
<1>2. e.first \in Int /\ e.last \in Int
  BY ResolvedApart DEF Spans
<1>3. i \in e.first .. e.last
  BY <1>1, <1>2
<1> QED
  BY <1>3, ResolvedApart

LEMMA TokenIs ==
  ASSUME NEW text \in Seq(Cell), NEW e \in Resolve(text), NEW cell, cell = TokenOf(text, e)
  PROVE  cell[1] # "path"
<1>1. e.type \in Types /\ cell[1] = Prefix[e.type]
  BY NumbersApart DEF TokenOf
<1> QED
  BY <1>1, PrefixDiffers

\* What is masked collides with nothing, and a text that is not empty stays so.
LEMMA MaskedKeeps ==
  ASSUME NEW text \in Seq(Cell)
  PROVE  LET entities == DetectEntities(text)
             masked == MaskText(text, entities) IN
         /\ CollisionAvoided(text, entities)
         /\ text # <<>> => masked # <<>>
         /\ \A x \in DOMAIN masked : masked[x][1] = "path" => \E i \in DOMAIN text : text[i][1] = "path"
<1>1. PICK R : R = Resolve(text)
  OBVIOUS
<1>2. PICK entities : entities = DetectEntities(text)
  OBVIOUS
<1>3. PICK masked : masked = MaskText(text, entities)
  OBVIOUS
<1>4. PICK kept : kept = Kept(text, R)
  OBVIOUS
<1>5. /\ masked \in Seq(Cell) /\ kept \subseteq 1 .. Len(text)
      /\ \A k \in 1 .. Len(masked) : Nth(kept, k) \in kept /\ MaskedAs(text, Nth(kept, k), masked[k])
      /\ \A i \in kept : Rank(kept, i) \in 1 .. Len(masked) /\ MaskedAs(text, i, masked[Rank(kept, i)])
  BY <1>1, <1>2, <1>3, <1>4, MaskedCells
<1>6. DOMAIN masked = 1 .. Len(masked) /\ DOMAIN text = 1 .. Len(text) /\ Len(text) \in Nat
  BY <1>5
<1>7. \A e \in entities : e.token[2] > Highest(text, e.type)
  <2> TAKE d \in entities
  <2>1. PICK e \in R : d.type = e.type /\ d.token = TokenOf(text, e)
    BY <1>1, <1>2, EntitiesAre
  <2>2. Number(text, R, e) > Highest(text, e.type)
    BY <1>1, NumbersApart
  <2>3. d.token[2] = Number(text, R, e)
    BY <1>1, <2>1 DEF TokenOf
  <2> QED
    BY <2>1, <2>2, <2>3
<1>8. ASSUME NEW token \in Preexisting(text) PROVE text[token.first] \in Range(masked)
  <2>1. PICK i \in DOMAIN text : IsToken(text[i]) /\ token = [first |-> i, last |-> i]
    BY DEF Preexisting
  <2>2. ~Covered(R, i)
    BY <1>1, <2>1, TokenUncovered
  <2>3. i \in kept
    BY <1>1, <1>4, <2>2, UncoveredStays
  <2>4. PICK x \in DOMAIN masked : MaskedAs(text, i, masked[x])
    BY <1>5, <1>6, <2>3
  <2>5. masked[x] = text[i]
    BY <1>1, <2>2, <2>4, UncoveredStays
  <2>6. token.first = i
    BY <2>1
  <2> QED
    BY <2>5, <2>6 DEF Range
<1>9. ASSUME text # <<>> PROVE masked # <<>>
  <2>1. 1 \in DOMAIN text
    BY <1>6, <1>9
  <2>2. ASSUME NEW e \in R, e.first < 1 PROVE FALSE
    BY <1>1, <2>2, ResolvedApart DEF Spans
  <2>3. 1 \in kept
    BY <1>4, <2>1, <2>2 DEF Kept
  <2>4. Rank(kept, 1) \in DOMAIN masked
    BY <1>5, <1>6, <2>3
  <2> QED
    BY <2>4
<1>10. ASSUME NEW x \in DOMAIN masked, masked[x][1] = "path"
       PROVE  \E i \in DOMAIN text : text[i][1] = "path"
  <2>1. Nth(kept, x) \in DOMAIN text /\ MaskedAs(text, Nth(kept, x), masked[x])
    BY <1>5, <1>6
  <2>2. \A e \in R : masked[x] # TokenOf(text, e)
    BY <1>1, <1>10, TokenIs
  <2>3. masked[x] = text[Nth(kept, x)]
    BY <1>1, <2>1, <2>2 DEF MaskedAs
  <2> QED
    BY <1>10, <2>1, <2>3
<1>11. CollisionAvoided(text, entities)
  BY <1>3, <1>7, <1>8 DEF CollisionAvoided
<1> QED
  BY <1>2, <1>3, <1>9, <1>10, <1>11, Zenon

\* Without the carriage returns a text is still one, and has nothing it had not.
LEMMA NormalTyped ==
  ASSUME NEW text \in Seq(Cell)
  PROVE  /\ Normalized(text) \in Seq(Cell)
         /\ \A x \in DOMAIN Normalized(text) : \E i \in DOMAIN text : Normalized(text)[x] = text[i]
<1>1. PICK S : S = {i \in DOMAIN text : text[i] # Return}
  OBVIOUS
<1>2. S \subseteq Int /\ IsFiniteSet(S) /\ Cardinality(S) \in Nat
  BY <1>1, FiniteDomain
<1>3. PICK normal : normal = Pick(text, S)
  OBVIOUS
<1>4. PICK n \in Nat : n = Cardinality(S)
  BY <1>2
<1>5. /\ DOMAIN normal = 1 .. n
      /\ \A k \in 1 .. n : normal[k] = text[Nth(S, k)] /\ Nth(S, k) \in S
  <2>1. normal = [k \in 1 .. n |-> text[Nth(S, k)]]
    BY <1>3, <1>4, Zenon DEF Pick
  <2>3. DOMAIN normal = 1 .. n /\ \A k \in 1 .. n : normal[k] = text[Nth(S, k)]
    BY <2>1
  <2>2. \A k \in 1 .. n : Nth(S, k) \in S
    BY <1>2, <1>4, NumbersInOrder
  <2> QED
    BY <2>2, <2>3
<1>6. normal = [k \in 1 .. n |-> normal[k]]
  <2>1. normal = [k \in 1 .. n |-> text[Nth(S, k)]]
    BY <1>3, <1>4, Zenon DEF Pick
  <2> QED
    BY <2>1
<1>7. \A k \in 1 .. n : normal[k] \in Cell
  <2> TAKE k \in 1 .. n
  <2>1. PICK i \in DOMAIN text : normal[k] = text[i]
    BY <1>1, <1>5
  <2> QED
    BY <2>1
<1>8. normal \in Seq(Cell)
  BY <1>6, <1>7
<1>9. \A x \in DOMAIN normal : \E i \in DOMAIN text : normal[x] = text[i]
  BY <1>1, <1>5
<1>10. Normalized(text) = normal
  BY <1>1, <1>3 DEF Normalized
<1> QED
  BY <1>8, <1>9, <1>10
=============================================================================
