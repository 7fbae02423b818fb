------------------------- MODULE ManualStoreProofs -------------------------
(***************************************************************************)
(* Proofs about the store of compiled manuals: what is seen ready stays so *)
(* until somebody takes it away, players get what was checked, and a       *)
(* directory that loads shows what its key names.  The last rests on what  *)
(* the recursive definitions of the store compute, which is proved first,  *)
(* by induction over sets of numbers.                                      *)
(***************************************************************************)
EXTENDS ManualStore, TLAPS, WellFoundedInduction, FiniteSetTheorems, SequenceTheorems

---------------------------------------------------------------------------
(* What the recursive definitions compute *)

\* A set of numbers has a least one.
LEMMA Least ==
    ASSUME NEW T, T \subseteq Nat, T # {}
    PROVE  \E x \in T : \A y \in T : ~(y < x)
<1> DEFINE R == {p \in Nat \X Nat : p[1] < p[2]}
<1>1. IsWellFoundedOn(R, Nat)
  BY NatLessThanWellFounded DEF OpToRel
<1> HIDE DEF R
<1>2. PICK x \in T : \A y \in T : <<y, x>> \notin R
  BY <1>1, WFMin
<1>3. ASSUME NEW y \in T
      PROVE  ~(y < x)
  <2>1. <<y, x>> \in Nat \X Nat /\ <<y, x>>[1] = y /\ <<y, x>>[2] = x
    OBVIOUS
  <2> QED
    BY <1>2, <2>1 DEF R
<1> QED
  BY <1>3

\* Induction, for a set of numbers.
LEMMA SetInduction ==
    ASSUME NEW S, 0 \in S, \A n \in Nat : n \in S => n + 1 \in S
    PROVE  Nat \subseteq S
<1> SUFFICES ASSUME Nat \ S # {}
             PROVE  FALSE
  OBVIOUS
<1>1. PICK x \in Nat \ S : \A y \in Nat \ S : ~(y < x)
  BY Least
<1>2. x - 1 \in Nat /\ x - 1 < x
  BY <1>1
<1>3. x - 1 \in S
  BY <1>1, <1>2
<1> QED
  BY <1>1, <1>2, <1>3

\* g starts from e and takes each value from the one before by step.
Unrolls(g, e, step, N) == g[0] = e /\ \A n \in 0..(N - 1) : g[n + 1] = step[n][g[n]]

\* There is such a function, so a recursive definition of this form has a value.
LEMMA Recursion ==
    ASSUME NEW V, NEW e \in V, NEW step \in [Nat -> [V -> V]], NEW N \in Nat
    PROVE  \E g \in [0..N -> V] : Unrolls(g, e, step, N)
<1> DEFINE Upto(m) == \E g \in [0..m -> V] :
                         g[0] = e /\ \A n \in 0..(m - 1) : g[n + 1] = step[n][g[n]]
           S == {m \in Nat : Upto(m)}
<1>1. 0 \in S
  <2>1. [n \in 0..0 |-> e] \in [0..0 -> V]
    OBVIOUS
  <2>2. Upto(0)
    <3> WITNESS [n \in 0..0 |-> e] \in [0..0 -> V]
    <3> QED
      OBVIOUS
  <2> QED
    BY <2>2
<1>2. ASSUME NEW m \in Nat, m \in S
      PROVE  m + 1 \in S
  <2>1. PICK g \in [0..m -> V] : g[0] = e /\ \A n \in 0..(m - 1) : g[n + 1] = step[n][g[n]]
    BY <1>2
  <2> DEFINE h == [n \in 0..(m + 1) |-> IF n = m + 1 THEN step[m][g[m]] ELSE g[n]]
  <2>2. \A n \in 0..m : h[n] = g[n]
    OBVIOUS
  <2>3. h[m + 1] = step[m][g[m]]
    OBVIOUS
  <2>4. h \in [0..(m + 1) -> V]
    OBVIOUS
  <2>5. h[0] = e
    BY <2>1, <2>2
  <2> HIDE DEF h
  <2>6. ASSUME NEW n \in 0..((m + 1) - 1)
        PROVE  h[n + 1] = step[n][h[n]]
    <3>1. CASE n = m
      BY <3>1, <2>2, <2>3
    <3>2. CASE n # m
      <4>1. n \in 0..(m - 1) /\ n \in 0..m /\ n + 1 \in 0..m
        BY <3>2
      <4> QED
        BY <4>1, <2>1, <2>2
    <3> QED
      BY <3>1, <3>2
  <2>7. Upto(m + 1)
    BY <2>4, <2>5, <2>6
  <2> QED
    BY <2>7
<1> HIDE DEF S
<1>3. Nat \subseteq S
  BY <1>1, <1>2, SetInduction
<1> QED
  BY <1>3 DEF S, Unrolls

\* What a file of the tree reaches stays within any set closed under references.
LEMMA WithinClosed ==
    ASSUME NEW f, NEW All, f \in All, \A g \in All : TreeReferences[g] \subseteq All
    PROVE  TreeDependencies(f) \subseteq All
<1> DEFINE N == Cardinality(Tree)
           More(X) == X \union UNION {TreeReferences[g] : g \in X}
           Found[n \in 0..N] ==
               IF n = 0 THEN {f}
               ELSE Found[n - 1] \union UNION {TreeReferences[g] : g \in Found[n - 1]}
           step == [n \in Nat |-> [X \in SUBSET All |-> More(X)]]
<1>1. N \in Nat
  BY TreeAssumption, FS_CardinalityType
<1>2. step \in [Nat -> [SUBSET All -> SUBSET All]]
  <2>1. \A X \in SUBSET All : More(X) \in SUBSET All
    OBVIOUS
  <2> QED
    BY <2>1
<1>3. \A X \in SUBSET All, n \in Nat : step[n][X] = More(X)
  OBVIOUS
<1>4. \E g : g = [n \in 0..N |-> IF n = 0 THEN {f} ELSE More(g[n - 1])]
  <2> HIDE DEF step, More, N
  <2> DEFINE V == SUBSET All
             e == {f}
  <2>1. e \in V /\ step \in [Nat -> [V -> V]]
    BY <1>2
  <2> HIDE DEF V, e, Found
  <2>2. PICK g \in [0..N -> V] : Unrolls(g, e, step, N)
    BY <1>1, <2>1, Recursion
  <2> USE DEF V, e
  <2>3. ASSUME NEW n \in 0..N
        PROVE  g[n] = IF n = 0 THEN {f} ELSE More(g[n - 1])
    <3>1. CASE n = 0
      BY <3>1, <2>2 DEF Unrolls
    <3>2. CASE n # 0
      <4>1. n - 1 \in 0..(N - 1) /\ n - 1 \in 0..N /\ n - 1 \in Nat /\ (n - 1) + 1 = n
        BY <3>2, <1>1
      <4>2. g[n] = step[n - 1][g[n - 1]]
        BY <4>1, <2>2 DEF Unrolls
      <4>3. g[n - 1] \in SUBSET All
        BY <4>1, <2>2
      <4> QED
        BY <3>2, <4>1, <4>2, <4>3, <1>3
    <3> QED
      BY <3>1, <3>2
  <2>4. g = [n \in 0..N |-> IF n = 0 THEN {f} ELSE More(g[n - 1])]
    BY <2>2, <2>3
  <2> QED
    BY <2>4
<1>5. Found = [n \in 0..N |-> IF n = 0 THEN {f} ELSE More(Found[n - 1])]
  BY <1>4
<1>6. TreeDependencies(f) = Found[N]
  BY DEF TreeDependencies
<1> HIDE DEF Found, N, More
<1> DEFINE Inside == {n \in Nat : n \in 0..N => Found[n] \subseteq All}
<1>7. 0 \in Inside
  BY <1>1, <1>5
<1>8. ASSUME NEW n \in Nat, n \in Inside
      PROVE  n + 1 \in Inside
  <2>1. SUFFICES ASSUME n + 1 \in 0..N
                 PROVE  Found[n + 1] \subseteq All
    OBVIOUS
  <2>2. n \in 0..N /\ (n + 1) - 1 = n /\ n + 1 # 0
    BY <2>1, <1>1
  <2>3. Found[n + 1] = More(Found[n])
    BY <2>1, <2>2, <1>5
  <2> QED
    BY <2>2, <2>3, <1>8 DEF More
<1> HIDE DEF Inside
<1>9. Nat \subseteq Inside
  BY <1>7, <1>8, SetInduction
<1> QED
  BY <1>1, <1>6, <1>9 DEF Inside

\* flat[i] is what the first i of seqs make when put one behind the other.
Flattens(flat, seqs) ==
    flat[1] = seqs[1] /\ \A i \in 2..Len(seqs) : flat[i] = flat[i - 1] \o seqs[i]

\* The concatenation, one sequence after the other.
LEMMA FlattenSeqByParts ==
    ASSUME NEW E, NEW seqs \in Seq(Seq(E)), seqs # <<>>
    PROVE  \E flat \in [1..Len(seqs) -> Seq(E)] :
               Flattens(flat, seqs) /\ FlattenSeq(seqs) = flat[Len(seqs)]
<1> DEFINE L == Len(seqs)
           Next1(n, s) == IF n + 1 \in 1..L THEN s \o seqs[n + 1] ELSE s
           step == [n \in Nat |-> [s \in Seq(E) |-> Next1(n, s)]]
           flatten[i \in 1..L] == IF i = 1 THEN seqs[i] ELSE flatten[i - 1] \o seqs[i]
<1>1. L \in Nat /\ L # 0 /\ \A i \in 1..L : seqs[i] \in Seq(E)
  OBVIOUS
<1>2. step \in [Nat -> [Seq(E) -> Seq(E)]]
  <2>1. \A n \in Nat, s \in Seq(E) : Next1(n, s) \in Seq(E)
    <3> SUFFICES ASSUME NEW n \in Nat, NEW s \in Seq(E)
                 PROVE  Next1(n, s) \in Seq(E)
      OBVIOUS
    <3>1. CASE n + 1 \in 1..L
      <4>1. seqs[n + 1] \in Seq(E)
        BY <3>1, <1>1
      <4>2. s \o seqs[n + 1] \in Seq(E)
        BY <4>1
      <4> QED
        BY <4>2, <3>1
    <3>2. CASE n + 1 \notin 1..L
      BY <3>2
    <3> QED
      BY <3>1, <3>2
  <2> HIDE DEF Next1
  <2> QED
    BY <2>1
<1>3. \A n \in Nat, s \in Seq(E) : step[n][s] = Next1(n, s)
  OBVIOUS
<1>4. \E g : g = [i \in 1..L |-> IF i = 1 THEN seqs[i] ELSE g[i - 1] \o seqs[i]]
  <2> DEFINE V == Seq(E)
             e == <<>>
  <2>1. e \in V /\ step \in [Nat -> [V -> V]]
    BY <1>2
  <2> HIDE DEF V, e, step, L, flatten
  <2>2. PICK h \in [0..L -> V] : Unrolls(h, e, step, L)
    BY <1>1, <2>1, Recursion
  <2>3. \A i \in 1..L : h[i - 1] \in Seq(E) /\ h[i] = h[i - 1] \o seqs[i]
    <3> SUFFICES ASSUME NEW i \in 1..L
                 PROVE  h[i - 1] \in Seq(E) /\ h[i] = h[i - 1] \o seqs[i]
      OBVIOUS
    <3>1. i - 1 \in 0..(L - 1) /\ i - 1 \in 0..L /\ i - 1 \in Nat /\ (i - 1) + 1 = i
      BY <1>1
    <3>2. h[i] = step[i - 1][h[i - 1]]
      BY <3>1, <2>2 DEF Unrolls
    <3>3. h[i - 1] \in Seq(E)
      BY <3>1, <2>2 DEF V
    <3>4. step[i - 1][h[i - 1]] = Next1(i - 1, h[i - 1])
      BY <3>1, <3>3, <1>3
    <3> QED
      BY <3>1, <3>2, <3>3, <3>4
  <2>4. L >= 1 => h[1] = seqs[1]
    <3> SUFFICES ASSUME L >= 1
                 PROVE  h[1] = seqs[1]
      OBVIOUS
    <3>1. h[0] = <<>>
      BY <2>2 DEF Unrolls, e
    <3>2. 1 \in 1..L /\ 1 - 1 = 0
      BY <1>1
    <3>3. h[1] = <<>> \o seqs[1]
      BY <3>1, <3>2, <2>3
    <3>4. seqs[1] \in Seq(E)
      BY <3>2, <1>1
    <3> QED
      BY <3>3, <3>4
  <2> DEFINE g == [i \in 1..L |-> h[i]]
  <2>5. ASSUME NEW i \in 1..L
        PROVE  g[i] = IF i = 1 THEN seqs[i] ELSE g[i - 1] \o seqs[i]
    <3>1. CASE i = 1
      BY <3>1, <2>4, <1>1
    <3>2. CASE i # 1
      <4>1. i - 1 \in 1..L
        BY <3>2, <1>1
      <4> QED
        BY <3>2, <4>1, <2>3
    <3> QED
      BY <3>1, <3>2
  <2>6. g = [i \in 1..L |-> IF i = 1 THEN seqs[i] ELSE g[i - 1] \o seqs[i]]
    BY <2>5
  <2> QED
    BY <2>6
<1>5. flatten = [i \in 1..L |-> IF i = 1 THEN seqs[i] ELSE flatten[i - 1] \o seqs[i]]
  BY <1>4
<1>6. FlattenSeq(seqs) = flatten[L]
  BY <1>1 DEF FlattenSeq
<1> HIDE DEF flatten, L
<1>7. Flattens(flatten, seqs)
  <2>1. flatten[1] = seqs[1]
    BY <1>1, <1>5
  <2>2. ASSUME NEW i \in 2..L
        PROVE  flatten[i] = flatten[i - 1] \o seqs[i]
    <3>1. i \in 1..L /\ i # 1
      BY <1>1
    <3> QED
      BY <3>1, <1>5
  <2> QED
    BY <2>1, <2>2 DEF Flattens, L
<1> DEFINE Inside == {n \in Nat : n \in 1..L => flatten[n] \in Seq(E)}
<1>8. 0 \in Inside
  OBVIOUS
<1>9. ASSUME NEW n \in Nat, n \in Inside
      PROVE  n + 1 \in Inside
  <2>1. SUFFICES ASSUME n + 1 \in 1..L
                 PROVE  flatten[n + 1] \in Seq(E)
    OBVIOUS
  <2>2. seqs[n + 1] \in Seq(E)
    BY <1>1, <2>1
  <2>3. CASE n = 0
    BY <2>2, <2>3, <1>5, <2>1
  <2>4. CASE n # 0
    <3>1. n + 1 # 1 /\ (n + 1) - 1 = n /\ n \in 1..L
      BY <2>1, <2>4, <1>1
    <3>2. flatten[n + 1] = flatten[n] \o seqs[n + 1]
      BY <2>1, <3>1, <1>5
    <3>3. flatten[n] \in Seq(E)
      BY <3>1, <1>9
    <3> QED
      BY <3>2, <3>3, <2>2
  <2> QED
    BY <2>3, <2>4
<1> HIDE DEF Inside
<1>10. Nat \subseteq Inside
  BY <1>8, <1>9, SetInduction
<1>11. \A n \in 1..L : flatten[n] \in Seq(E)
  BY <1>10, <1>1 DEF Inside
<1>12. flatten \in [1..L -> Seq(E)]
  BY <1>5, <1>11
<1> QED
  BY <1>6, <1>7, <1>12 DEF L

\* Each document ends as many pages after the one before as it has.
LEMMA PageEndsByParts ==
    ASSUME NEW E, NEW seqs \in Seq(Seq(E))
    PROVE  /\ PageEnds(seqs)[0] = 0
           /\ \A i \in 1..Len(seqs) : /\ PageEnds(seqs)[i - 1] \in Nat
                                      /\ PageEnds(seqs)[i] = PageEnds(seqs)[i - 1] + Len(seqs[i])
<1> DEFINE L == Len(seqs)
           More(n, x) == IF n + 1 \in 1..L THEN x + Len(seqs[n + 1]) ELSE x
           step == [n \in Nat |-> [x \in Nat |-> More(n, x)]]
           html_page[i \in 0..L] == IF i = 0 THEN 0 ELSE html_page[i - 1] + Len(seqs[i])
<1>1. L \in Nat /\ \A i \in 1..L : Len(seqs[i]) \in Nat
  OBVIOUS
<1>2. step \in [Nat -> [Nat -> Nat]]
  <2>1. \A n \in Nat, x \in Nat : More(n, x) \in Nat
    BY <1>1
  <2> HIDE DEF More
  <2> QED
    BY <2>1
<1>3. \A n \in Nat, x \in Nat : step[n][x] = More(n, x)
  OBVIOUS
<1>4. \E g : g = [i \in 0..L |-> IF i = 0 THEN 0 ELSE g[i - 1] + Len(seqs[i])]
  <2> HIDE DEF step, L, html_page
  <2>1. 0 \in Nat
    OBVIOUS
  <2>2. PICK g \in [0..L -> Nat] : Unrolls(g, 0, step, L)
    BY <1>1, <1>2, <2>1, Recursion
  <2>3. ASSUME NEW i \in 0..L
        PROVE  g[i] = IF i = 0 THEN 0 ELSE g[i - 1] + Len(seqs[i])
    <3>1. CASE i = 0
      BY <3>1, <2>2 DEF Unrolls
    <3>2. CASE i # 0
      <4>1. i - 1 \in 0..(L - 1) /\ i - 1 \in 0..L /\ i - 1 \in Nat /\ (i - 1) + 1 = i /\ i \in 1..L
        BY <3>2, <1>1
      <4>2. g[i] = step[i - 1][g[i - 1]]
        BY <4>1, <2>2 DEF Unrolls
      <4>3. g[i - 1] \in Nat
        BY <4>1, <2>2
      <4>4. g[i] = More(i - 1, g[i - 1])
        BY <4>1, <4>2, <4>3, <1>3
      <4> QED
        BY <3>2, <4>1, <4>4
    <3> QED
      BY <3>1, <3>2
  <2>4. g = [i \in 0..L |-> IF i = 0 THEN 0 ELSE g[i - 1] + Len(seqs[i])]
    BY <2>2, <2>3
  <2> QED
    BY <2>4
<1>5. html_page = [i \in 0..L |-> IF i = 0 THEN 0 ELSE html_page[i - 1] + Len(seqs[i])]
  BY <1>4
<1>6. PageEnds(seqs) = html_page
  BY DEF PageEnds
<1> HIDE DEF html_page, L
<1>7. html_page[0] = 0
  BY <1>1, <1>5
<1>8. ASSUME NEW i \in 1..L
      PROVE  html_page[i] = html_page[i - 1] + Len(seqs[i])
  <2>1. i \in 0..L /\ i # 0
    BY <1>1
  <2> QED
    BY <2>1, <1>5
<1> DEFINE Inside == {n \in Nat : n \in 0..L => html_page[n] \in Nat}
<1>9. 0 \in Inside
  BY <1>7
<1>10. ASSUME NEW n \in Nat, n \in Inside
       PROVE  n + 1 \in Inside
  <2>1. SUFFICES ASSUME n + 1 \in 0..L
                 PROVE  html_page[n + 1] \in Nat
    OBVIOUS
  <2>2. n + 1 \in 1..L /\ n \in 0..L /\ (n + 1) - 1 = n
    BY <2>1, <1>1
  <2>3. html_page[n + 1] = html_page[n] + Len(seqs[n + 1])
    BY <2>2, <1>8
  <2> QED
    BY <2>2, <2>3, <1>1, <1>10
<1> HIDE DEF Inside
<1>11. Nat \subseteq Inside
  BY <1>9, <1>10, SetInduction
<1>12. ASSUME NEW i \in 1..L
       PROVE  html_page[i - 1] \in Nat
  <2>1. i - 1 \in Nat /\ i - 1 \in 0..L
    BY <1>1
  <2> QED
    BY <2>1, <1>11 DEF Inside
<1> QED
  BY <1>6, <1>7, <1>8, <1>12 DEF L

\* u shows s and then t.
Joins(u, s, t) ==
    /\ Len(s) \in Nat /\ Len(t) \in Nat /\ Len(u) = Len(s) + Len(t)
    /\ \A x \in 1..Len(s) : u[x] = s[x]
    /\ \A x \in 1..Len(t) : u[Len(s) + x] = t[x]

\* s \o t shows s and then t.
LEMMA Concatenated ==
    ASSUME NEW E, NEW s \in Seq(E), NEW t \in Seq(E)
    PROVE  Joins(s \o t, s, t)
BY DEF Joins

\* L sequences over E, where each ends in their concatenation, and what the first of
\* them make.
Parts(seqs, L, E, ends, flat) ==
    /\ \A n \in 1..L : seqs[n] \in Seq(E) /\ flat[n] \in Seq(E)
    /\ ends[0] = 0
    /\ \A n \in 1..L : ends[n - 1] \in Nat /\ ends[n] = ends[n - 1] + Len(seqs[n])
    /\ flat[1] = seqs[1]
    /\ \A n \in 2..L : flat[n] = flat[n - 1] \o seqs[n]

IsCut(seqs, L, i, ends, flat) == SubSeq(flat[L], ends[i - 1] + 1, ends[i]) = seqs[i]

\* The pages between two ends are those of the document.
LEMMA CutOut ==
    ASSUME NEW E, NEW seqs, NEW L \in Nat, NEW i \in 1..L, NEW ends, NEW flat,
           Parts(seqs, L, E, ends, flat)
    PROVE  IsCut(seqs, L, i, ends, flat)
<1>1. \A n \in 1..L : seqs[n] \in Seq(E)
  BY DEF Parts
<1>2. ends[0] = 0 /\ \A n \in 1..L : ends[n - 1] \in Nat /\ ends[n] = ends[n - 1] + Len(seqs[n])
  BY DEF Parts
<1>3. \A n \in 1..L : flat[n] \in Seq(E)
  BY DEF Parts
<1> DEFINE Long == {n \in Nat : n \in 1..L => Len(flat[n]) = ends[n]}
<1>4. Nat \subseteq Long
  <2>1. 0 \in Long
    OBVIOUS
  <2>2. ASSUME NEW n \in Nat, n \in Long
        PROVE  n + 1 \in Long
    <3>1. SUFFICES ASSUME n + 1 \in 1..L
                   PROVE  Len(flat[n + 1]) = ends[n + 1]
      OBVIOUS
    <3>2. (n + 1) - 1 = n /\ ends[n + 1] = ends[n] + Len(seqs[n + 1]) /\ seqs[n + 1] \in Seq(E)
      BY <3>1, <1>1, <1>2
    <3>3. CASE n = 0
      BY <3>2, <3>3, <1>2, <1>3 DEF Parts
    <3>4. CASE n # 0
      <4>1. n \in 1..L /\ n + 1 \in 2..L
        BY <3>1, <3>4, <1>1
      <4>2. flat[n + 1] = flat[n] \o seqs[n + 1] /\ flat[n] \in Seq(E)
        BY <4>1, <3>2, <1>3 DEF Parts
      <4>3. Len(flat[n + 1]) = Len(flat[n]) + Len(seqs[n + 1])
        BY <4>2, <3>2
      <4> QED
        BY <4>1, <4>3, <3>2, <2>2
    <3> QED
      BY <3>3, <3>4
  <2> HIDE DEF Long
  <2> QED
    BY <2>1, <2>2, SetInduction
<1>5. \A n \in 1..L : Len(flat[n]) = ends[n]
  BY <1>4, <1>1
<1> DEFINE Shows(n) == /\ ends[i] <= Len(flat[n])
                       /\ \A x \in 1..Len(seqs[i]) : flat[n][ends[i - 1] + x] = seqs[i][x]
           Kept == {n \in Nat : n \in i..L => Shows(n)}
<1>6. i \in Nat /\ ends[i - 1] \in Nat /\ ends[i] = ends[i - 1] + Len(seqs[i]) /\ seqs[i] \in Seq(E)
  BY <1>1, <1>2
<1>7. Shows(i)
  <2>1. CASE i = 1
    <3>1. flat[1] = seqs[1] /\ ends[0] = 0 /\ i - 1 = 0
      BY <2>1, <1>2, <1>3 DEF Parts
    <3> QED
      BY <3>1, <2>1, <1>6
  <2>2. CASE i # 1
    <3>1. i \in 2..L /\ i - 1 \in 1..L
      BY <2>2, <1>1
    <3>2. flat[i] = flat[i - 1] \o seqs[i] /\ flat[i - 1] \in Seq(E) /\ Len(flat[i - 1]) = ends[i - 1]
      BY <3>1, <1>3, <1>5 DEF Parts
    <3>3. Joins(flat[i], flat[i - 1], seqs[i])
      BY <3>2, <1>6, Concatenated
    <3>4. /\ Len(flat[i]) = ends[i - 1] + Len(seqs[i])
          /\ \A x \in 1..Len(seqs[i]) : flat[i][ends[i - 1] + x] = seqs[i][x]
      BY <3>2, <3>3 DEF Joins
    <3>5. ends[i] <= Len(flat[i])
      <4>1. Len(seqs[i]) \in Nat
        BY <1>6
      <4> QED
        BY <3>4, <4>1, <1>6
    <3> QED
      BY <3>4, <3>5
  <2> QED
    BY <2>1, <2>2
<1>8. Nat \subseteq Kept
  <2>1. 0 \in Kept
    BY <1>1
  <2>2. ASSUME NEW n \in Nat, n \in Kept
        PROVE  n + 1 \in Kept
    <3>1. SUFFICES ASSUME n + 1 \in i..L
                   PROVE  Shows(n + 1)
      OBVIOUS
    <3>2. CASE n + 1 = i
      BY <3>2, <1>7
    <3>3. CASE n + 1 # i
      <4>1. n \in i..L /\ n \in 1..L /\ n + 1 \in 1..L /\ n + 1 \in 2..L /\ (n + 1) - 1 = n
        BY <3>1, <3>3, <1>1
      <4>2. flat[n + 1] = flat[n] \o seqs[n + 1] /\ flat[n] \in Seq(E) /\ seqs[n + 1] \in Seq(E)
        BY <4>1, <1>1, <1>3 DEF Parts
      <4>3. Shows(n)
        BY <4>1, <2>2
      <4>4. Joins(flat[n + 1], flat[n], seqs[n + 1])
        BY <4>2, Concatenated
      <4>8. PICK a \in Nat, b \in Nat : Len(flat[n]) = a /\ Len(flat[n + 1]) = a + b
        BY <4>4 DEF Joins
      <4>5. ASSUME NEW x \in 1..Len(seqs[i])
            PROVE  flat[n + 1][ends[i - 1] + x] = flat[n][ends[i - 1] + x]
        <5>1. x \in Nat /\ x >= 1 /\ x <= Len(seqs[i]) /\ Len(seqs[i]) \in Nat
          BY <1>6
        <5>2. ends[i] <= Len(flat[n])
          BY <4>3
        <5>3. ends[i] <= a
          BY <5>2, <4>8
        <5>4. ends[i - 1] + x \in 1..a
          BY <5>1, <5>3, <1>6
        <5>5. ends[i - 1] + x \in 1..Len(flat[n])
          BY <5>4, <4>8
        <5> QED
          BY <5>5, <4>4 DEF Joins
      <4>6. ends[i] <= Len(flat[n]) /\ ends[i] \in Nat
        <5>1. Len(seqs[i]) \in Nat
          BY <1>6
        <5> QED
          BY <5>1, <4>3, <1>6
      <4>7. ends[i] <= a
        BY <4>8, <4>6
      <4>9. ends[i] <= a + b
        BY <4>6, <4>7
      <4>10. ends[i] <= Len(flat[n + 1])
        BY <4>8, <4>9
      <4> QED
        BY <4>3, <4>5, <4>10
    <3> QED
      BY <3>2, <3>3
  <2> HIDE DEF Kept
  <2> QED
    BY <2>1, <2>2, SetInduction
<1>9. Shows(L) /\ flat[L] \in Seq(E)
  <2>1. L \in i..L /\ L \in 1..L
    BY <1>1
  <2>2. L \in Kept
    BY <1>8, <1>1
  <2> HIDE DEF Shows
  <2> QED
    BY <2>1, <2>2, <1>3
<1> DEFINE a == ends[i - 1]
           b == ends[i]
<1>10. a \in Nat /\ b \in Nat /\ Len(seqs[i]) \in Nat /\ b = a + Len(seqs[i])
  <2>1. Len(seqs[i]) \in Nat
    BY <1>6
  <2> QED
    BY <2>1, <1>6
<1> DEFINE cut == SubSeq(flat[L], a + 1, b)
<1>11. /\ cut \in Seq(E)
       /\ Len(cut) = Len(seqs[i])
       /\ \A x \in 1..Len(seqs[i]) : cut[x] = seqs[i][x]
  <2>1. b <= Len(flat[L]) /\ \A x \in 1..Len(seqs[i]) : flat[L][a + x] = seqs[i][x]
    BY <1>9
  <2> HIDE DEF a, b
  <2>2. \A x \in (a + 1)..b : flat[L][x] \in E
    BY <1>9, <1>10, <2>1
  <2>3. a + 1 \in Int /\ b \in Int
    BY <1>10
  <2>4. /\ SubSeq(flat[L], a + 1, b) \in Seq(E)
        /\ Len(SubSeq(flat[L], a + 1, b)) = IF a + 1 <= b THEN b - (a + 1) + 1 ELSE 0
        /\ \A x \in 1..(b - (a + 1) + 1) :
               SubSeq(flat[L], a + 1, b)[x] = flat[L][(a + 1) + x - 1]
    BY <2>2, <2>3, SubSeqProperties
  <2>5. Len(cut) = Len(seqs[i])
    BY <2>4, <1>10
  <2>6. ASSUME NEW x \in 1..Len(seqs[i])
        PROVE  cut[x] = seqs[i][x]
    <3>1. x \in 1..(b - (a + 1) + 1) /\ (a + 1) + x - 1 = a + x
      BY <1>10
    <3> QED
      BY <3>1, <2>1, <2>4
  <2> QED
    BY <2>4, <2>5, <2>6
<1> HIDE DEF cut
<1>12. cut = seqs[i]
  BY <1>6, <1>11, SeqEqual
<1> QED
  BY <1>12 DEF cut, a, b, IsCut

\* The printed PDF comes apart into what was printed.
LEMMA TakenApart ==
    ASSUME NEW E, NEW seqs \in Seq(Seq(E)), NEW i \in 1..Len(seqs)
    PROVE  SubSeq(FlattenSeq(seqs), PageEnds(seqs)[i - 1] + 1, PageEnds(seqs)[i]) = seqs[i]
<1> DEFINE L == Len(seqs)
           ends == PageEnds(seqs)
<1>1. L \in Nat /\ i \in 1..L /\ seqs # <<>> /\ \A n \in 1..L : seqs[n] \in Seq(E)
  OBVIOUS
<1>2. ends[0] = 0 /\ \A n \in 1..L : ends[n - 1] \in Nat /\ ends[n] = ends[n - 1] + Len(seqs[n])
  BY PageEndsByParts
<1>3. PICK flat \in [1..L -> Seq(E)] : Flattens(flat, seqs) /\ FlattenSeq(seqs) = flat[L]
  BY <1>1, FlattenSeqByParts
<1>4. flat[1] = seqs[1] /\ \A n \in 2..L : flat[n] = flat[n - 1] \o seqs[n]
  BY <1>3 DEF Flattens
<1> HIDE DEF L, ends
<1>5. \A n \in 1..L : flat[n] \in Seq(E)
  BY <1>3
<1>6. Parts(seqs, L, E, ends, flat)
  BY <1>1, <1>2, <1>4, <1>5 DEF Parts
<1>7. IsCut(seqs, L, i, ends, flat)
  BY <1>1, <1>6, CutOut
<1> QED
  BY <1>3, <1>7 DEF ends, IsCut

\* So the pages are those printed and the official ranges, in profile order.
LEMMA CombinedInOrder ==
    ASSUME NEW D, NEW E, NEW profile \in Seq(D), NEW printed,
           \A i \in DOMAIN profile : ~IsOfficial(profile[i]) => printed[i] \in Seq(E)
    PROVE  CombineDocuments(profile, printed) =
               FlattenSeq([i \in DOMAIN profile |->
                   IF IsOfficial(profile[i]) THEN OfficialRange(profile[i]) ELSE printed[i]])
<1> DEFINE pages == [i \in DOMAIN profile |->
                        IF IsOfficial(profile[i]) THEN <<>> ELSE printed[i]]
           ends == PageEnds(pages)
<1>1. pages \in Seq(Seq(E)) /\ DOMAIN profile = 1..Len(pages)
  <2>1. DOMAIN profile = 1..Len(profile) /\ Len(profile) \in Nat
    OBVIOUS
  <2>2. \A i \in DOMAIN profile : pages[i] \in Seq(E)
    OBVIOUS
  <2>3. pages = [i \in 1..Len(profile) |-> pages[i]]
    BY <2>1
  <2> HIDE DEF pages
  <2>4. pages \in [1..Len(profile) -> Seq(E)]
    BY <2>1, <2>2, <2>3
  <2> QED
    BY <2>1, <2>4
<1>2. ASSUME NEW i \in DOMAIN profile, ~IsOfficial(profile[i])
      PROVE  SubSeq(FlattenSeq(pages), ends[i - 1] + 1, ends[i]) = printed[i]
  <2>1. pages[i] = printed[i]
    BY <1>2
  <2> HIDE DEF pages
  <2>2. SubSeq(FlattenSeq(pages), PageEnds(pages)[i - 1] + 1, PageEnds(pages)[i]) = pages[i]
    BY <1>1, TakenApart
  <2> QED
    BY <2>1, <2>2
<1>3. CombineDocuments(profile, printed) =
          FlattenSeq([i \in DOMAIN profile |->
              IF IsOfficial(profile[i]) THEN OfficialRange(profile[i])
              ELSE SubSeq(FlattenSeq(pages), ends[i - 1] + 1, ends[i])])
  BY DEF CombineDocuments
<1> HIDE DEF pages, ends
<1>4. [i \in DOMAIN profile |->
          IF IsOfficial(profile[i]) THEN OfficialRange(profile[i])
          ELSE SubSeq(FlattenSeq(pages), ends[i - 1] + 1, ends[i])] =
      [i \in DOMAIN profile |->
          IF IsOfficial(profile[i]) THEN OfficialRange(profile[i]) ELSE printed[i]]
  BY <1>2
<1> QED
  BY <1>3, <1>4

\* Once each, the requirements asked for; and not none.
LEMMA DistinctOnes ==
    ASSUME NEW X, NEW s \in Seq(X), s # <<>>
    PROVE  Distinct(s) \in Seq(ToSet(s)) /\ Distinct(s) # <<>>
<1> DEFINE N == Len(s)
           V == Seq(ToSet(s))
           Known(n) == \E i \in 1..(n - 1) : s[i] = s[n]
           Next1(n, q) == IF n + 1 \in 1..N THEN IF Known(n + 1) THEN q ELSE Append(q, s[n + 1])
                          ELSE q
           step == [n \in Nat |-> [q \in V |-> Next1(n, q)]]
           Upto[n \in 0..N] == IF n = 0 THEN <<>>
                               ELSE IF \E i \in 1..(n - 1) : s[i] = s[n] THEN Upto[n - 1]
                               ELSE Append(Upto[n - 1], s[n])
<1>1. N \in Nat /\ N # 0 /\ \A i \in 1..N : s[i] \in ToSet(s)
  BY DEF ToSet
<1>2. \A n \in Nat, q \in V : Next1(n, q) \in V
  <2> SUFFICES ASSUME NEW n \in Nat, NEW q \in V
               PROVE  Next1(n, q) \in V
    OBVIOUS
  <2>1. n + 1 \in 1..N => Append(q, s[n + 1]) \in V
    BY <1>1
  <2> HIDE DEF V, Known
  <2> QED
    BY <2>1
<1> HIDE DEF Next1
<1>3. step \in [Nat -> [V -> V]]
  BY <1>2
<1>4. \A n \in Nat, q \in V : step[n][q] = Next1(n, q)
  OBVIOUS
<1>5. <<>> \in V
  OBVIOUS
<1> HIDE DEF step, V, N, Known
<1>6. \E g : g = [n \in 0..N |-> IF n = 0 THEN <<>>
                                 ELSE IF Known(n) THEN g[n - 1] ELSE Append(g[n - 1], s[n])]
  <2> HIDE DEF Upto
  <2> DEFINE e == <<>>
  <2>1. e \in V
    BY <1>5
  <2> HIDE DEF e
  <2>2. PICK g \in [0..N -> V] : Unrolls(g, e, step, N)
    BY <1>1, <1>3, <2>1, Recursion
  <2>3. ASSUME NEW n \in 0..N
        PROVE  g[n] = IF n = 0 THEN <<>>
                      ELSE IF Known(n) THEN g[n - 1] ELSE Append(g[n - 1], s[n])
    <3>1. CASE n = 0
      BY <3>1, <2>2 DEF Unrolls, e
    <3>2. CASE n # 0
      <4>1. n - 1 \in 0..(N - 1) /\ n - 1 \in 0..N /\ n - 1 \in Nat /\ (n - 1) + 1 = n /\ n \in 1..N
        BY <3>2, <1>1
      <4>2. g[n] = step[n - 1][g[n - 1]]
        BY <4>1, <2>2 DEF Unrolls
      <4>3. g[n - 1] \in V
        BY <4>1, <2>2
      <4>4. g[n] = Next1(n - 1, g[n - 1])
        BY <4>1, <4>2, <4>3, <1>4
      <4> QED
        BY <3>2, <4>1, <4>4 DEF Next1
    <3> QED
      BY <3>1, <3>2
  <2>4. g = [n \in 0..N |-> IF n = 0 THEN <<>>
                            ELSE IF Known(n) THEN g[n - 1] ELSE Append(g[n - 1], s[n])]
    BY <2>2, <2>3
  <2> QED
    BY <2>4
<1>7. Upto = [n \in 0..N |-> IF n = 0 THEN <<>>
                             ELSE IF Known(n) THEN Upto[n - 1] ELSE Append(Upto[n - 1], s[n])]
  BY <1>6 DEF Known
<1>8. Distinct(s) = Upto[N]
  BY DEF Distinct, N
<1> HIDE DEF Upto
<1> DEFINE Inside == {n \in Nat : n \in 0..N => Upto[n] \in V /\ (n # 0 => Upto[n] # <<>>)}
<1>9. 0 \in Inside
  BY <1>1, <1>5, <1>7
<1>10. ASSUME NEW n \in Nat, n \in Inside
       PROVE  n + 1 \in Inside
  <2>1. SUFFICES ASSUME n + 1 \in 0..N
                 PROVE  Upto[n + 1] \in V /\ Upto[n + 1] # <<>>
    OBVIOUS
  <2>2. n \in 0..N /\ n + 1 \in 1..N /\ (n + 1) - 1 = n /\ n + 1 # 0
    BY <2>1, <1>1
  <2>3. Upto[n] \in V /\ (n # 0 => Upto[n] # <<>>)
    BY <2>2, <1>10
  <2>4. CASE Known(n + 1)
    <3>1. Upto[n + 1] = Upto[n]
      BY <2>1, <2>2, <2>4, <1>7
    <3>2. n # 0
      BY <2>4 DEF Known
    <3> QED
      BY <2>3, <3>1, <3>2
  <2>5. CASE ~Known(n + 1)
    <3>1. Upto[n + 1] = Append(Upto[n], s[n + 1])
      BY <2>1, <2>2, <2>5, <1>7
    <3>2. s[n + 1] \in ToSet(s)
      BY <2>2, <1>1
    <3>3. Append(Upto[n], s[n + 1]) \in Seq(ToSet(s)) /\ Append(Upto[n], s[n + 1]) # <<>>
      BY <2>3, <3>2, AppendProperties DEF V
    <3> QED
      BY <3>1, <3>3 DEF V
  <2> QED
    BY <2>4, <2>5
<1> HIDE DEF Inside
<1>11. Nat \subseteq Inside
  BY <1>9, <1>10, SetInduction
<1> QED
  BY <1>1, <1>8, <1>11 DEF Inside, V

---------------------------------------------------------------------------
(* The invariant *)

Fields == {"at", "goal", "todo", "pending", "seen", "inputs", "key", "taken", "pages", "calm",
           "ready"}

Shape ==
    /\ DOMAIN proc = Processes
    /\ \A c \in Processes : DOMAIN proc[c] = Fields

Directories ==
    \A k \in DOMAIN artifacts : DOMAIN artifacts[k] = {"whole", "pages", "calm", "rivals"}

\* A compile about to remove a directory that loads was under way when it came.
RivalsKnow ==
    \A c \in Compilers :
        At(c, "remove") /\ Loads(proc[c].key) => c \in artifacts[proc[c].key].rivals

\* Unless it was taken away since, a directory the check saw shows what it showed then.
DoctorKnows ==
    ~At(Doctor, "failed") =>
        \A k \in proc[Doctor].ready :
            /\ k \in DOMAIN proc[Doctor].pages
            /\ Loads(k) /\ <<Doctor, k>> \notin excused =>
                  artifacts[k].pages = proc[Doctor].pages[k]

\* The requirements c goes through, and where it is with them.
Wanted(c) == ToSet(Distinct(Asked[c]))
Resolving == {"resolve", "hash"}
Keyed == {"look", "remove", "removing", "load pages", "print", "publish", "load"}
Building == Keyed \union {"identify"}

\* What the requirement r has on record when nothing changed since: its local files,
\* their digests, its key, and the texts of its documents.
FilesOf(r) ==
    [d \in {e \in ToSet(Profile[r]) : IsLocal(e)} |-> LocalDependencies(Entry[d].path)]
Digests(r) ==
    [d \in {e \in ToSet(Profile[r]) : IsLocal(e)} |-> Read(LocalDependencies(Entry[d].path))]
KeyNow(r) == Key(r, Digests(r))
Texts(r) ==
    [d \in {e \in ToSet(Profile[r]) : ~IsOfficial(e)} |->
        IF IsLocal(d) THEN local[Entry[d].path] ELSE "pinned"]

Calm(c) == UnderWay(c) /\ proc[c].calm

FreshAt(c) ==
    /\ proc[c].goal \in {"documents", "merger"}
    /\ At(c, "start") => proc[c].goal = "documents" /\ proc[c].inputs = <<>>
\* Every requirement is resolved before the first is identified.
AgendaAt(c) ==
    /\ proc[c].at \in Resolving \union Building =>
          proc[c].todo \in Seq(Wanted(c)) /\ proc[c].todo # <<>>
    /\ proc[c].at \in Resolving =>
          Wanted(c) \subseteq DOMAIN proc[c].inputs \union ToSet(proc[c].todo)
    /\ proc[c].at \in Building \/ proc[c].goal = "merger" =>
          Wanted(c) \subseteq DOMAIN proc[c].inputs
\* What was restored so far is there, with nothing it refers to forgotten.
RestoringAt(c) ==
    At(c, "restore") /\ Calm(c) =>
        /\ proc[c].seen \subseteq restored
        /\ \A f \in proc[c].seen : TreeReferences[f] \subseteq proc[c].seen \union proc[c].pending
        /\ proc[c].goal = "documents" =>
              \A d \in Documents(c) : IsPinned(d) =>
                  Entry[d].files \subseteq proc[c].seen \union proc[c].pending
\* After that the pinned documents are there with all they reach.
TreeAt(c) ==
    Calm(c) /\ (proc[c].at \in Resolving \union Building \union {"official"}
                \/ proc[c].goal = "merger") =>
        \A d \in Documents(c) : IsPinned(d) => TreeDependencies(Entry[d].path) \subseteq restored
\* What c has on record of a requirement is still so.
DigestsAt(c) ==
    Calm(c) =>
        /\ At(c, "hash") => \A r \in Wanted(c) : r = Requirement(c) => proc[c].taken = FilesOf(r)
        /\ \A r \in DOMAIN proc[c].inputs : proc[c].inputs[r] = Digests(r)
KeyAt(c) ==
    Calm(c) /\ proc[c].at \in Keyed =>
        \A r \in Wanted(c) : r = Requirement(c) => proc[c].key = KeyNow(r)
BuiltAt(c) ==
    Calm(c) =>
        /\ At(c, "print") => \A r \in Wanted(c) : r = Requirement(c) => proc[c].taken = Texts(r)
        /\ At(c, "publish") => \A k : k = proc[c].key /\ Confined(k) => proc[c].pages = NamedBy(k)

SoundAt(c) ==
    /\ FreshAt(c) /\ AgendaAt(c) /\ RestoringAt(c) /\ TreeAt(c) /\ DigestsAt(c) /\ KeyAt(c)
    /\ BuiltAt(c)
Sound == \A c \in Compilers : SoundAt(c)

StoreInv == Shape /\ Directories /\ Sound /\ KeyTellsContent
SeenInv == StoreInv /\ RivalsKnow /\ SeenReadyIsReady /\ DoctorKnows

---------------------------------------------------------------------------
(* What the steps do to the commands *)

\* Only c moves.
Touches(c) ==
    /\ DOMAIN proc' = Processes /\ DOMAIN proc'[c] = Fields
    /\ \A d \in Processes \ {c} : proc'[d] = proc[d]
\* All it recorded stays.
Recalls(c) ==
    /\ proc'[c].inputs = proc[c].inputs /\ proc'[c].key = proc[c].key
    /\ proc'[c].taken = proc[c].taken /\ proc'[c].pages = proc[c].pages
    /\ proc'[c].ready = proc[c].ready
Continues(c) ==
    /\ proc'[c].goal = proc[c].goal /\ proc'[c].todo = proc[c].todo
    /\ proc'[c].calm = proc[c].calm
Fails(c) ==
    /\ Touches(c) /\ proc'[c].at = "failed" /\ proc'[c].goal = "documents"
    /\ proc'[c].ready = proc[c].ready
Moves(c, step) ==
    /\ Touches(c) /\ proc'[c].at = step /\ Continues(c) /\ Recalls(c)
    /\ proc'[c].seen = proc[c].seen /\ proc'[c].pending = proc[c].pending
Quiet == local' = local /\ restored \subseteq restored'

LEMMA GoToMoves ==
    ASSUME Shape, NEW c \in Processes, NEW step, GoTo(c, step)
    PROVE  Moves(c, step)
BY DEF Shape, GoTo, Moves, Touches, Continues, Recalls, Fields

LEMMA FailFails ==
    ASSUME Shape, NEW c \in Processes, Fail(c)
    PROVE  Fails(c)
BY DEF Shape, Fail, Idle, Fails, Touches, Fields

---------------------------------------------------------------------------
(* The compiles are sound *)

LEMMA EndedIsSound ==
    ASSUME NEW c \in Compilers, proc'[c].at \in {"failed", "done"},
           proc'[c].goal = "documents"
    PROVE  SoundAt(c)'
<1>1. ~Calm(c)'
  BY DEF Calm, UnderWay, Ended
<1>2. FreshAt(c)' /\ AgendaAt(c)'
  BY DEF FreshAt, AgendaAt, At, Resolving, Building, Keyed
<1>3. RestoringAt(c)' /\ TreeAt(c)' /\ DigestsAt(c)' /\ KeyAt(c)' /\ BuiltAt(c)'
  BY <1>1 DEF RestoringAt, TreeAt, DigestsAt, KeyAt, BuiltAt
<1> QED
  BY <1>2, <1>3 DEF SoundAt

LEMMA FailedIsSound ==
    ASSUME NEW c \in Compilers, Fails(c)
    PROVE  SoundAt(c)'
BY EndedIsSound DEF Fails

\* What the operators read of the state is the local files.
LEMMA SameTexts ==
    ASSUME local' = local
    PROVE  /\ \A r : FilesOf(r)' = FilesOf(r) /\ Digests(r)' = Digests(r)
           /\ \A r : KeyNow(r)' = KeyNow(r) /\ Texts(r)' = Texts(r)
<1>1. \A f : LocalDependencies(f)' = LocalDependencies(f)
  BY DEF LocalDependencies
<1>2. \A f : Read(f)' = Read(f)
  BY DEF Read
<1>3. \A r, i : Key(r, i)' = Key(r, i)
  BY DEF Key, InputIdentity
<1>4. ASSUME NEW r
      PROVE  Digests(r)' = Digests(r) /\ FilesOf(r)' = FilesOf(r) /\ Texts(r)' = Texts(r)
  BY <1>1, <1>2 DEF Digests, FilesOf, Texts, Read
<1>5. ASSUME NEW r
      PROVE  KeyNow(r)' = KeyNow(r)
  BY <1>3, <1>4 DEF KeyNow, Key, InputIdentity
<1> QED
  BY <1>4, <1>5

LEMMA OthersStaySound ==
    ASSUME NEW c \in Compilers, SoundAt(c), Quiet, proc'[c] = proc[c]
    PROVE  SoundAt(c)'
<1>1. local' = local /\ restored \subseteq restored'
  BY DEF Quiet
<1>2. /\ \A r : FilesOf(r)' = FilesOf(r) /\ Digests(r)' = Digests(r)
      /\ \A r : KeyNow(r)' = KeyNow(r) /\ Texts(r)' = Texts(r)
  BY <1>1, SameTexts
<1>3. Calm(c)' = Calm(c)
  BY DEF Calm, UnderWay, Ended, At
<1>4. FreshAt(c)' /\ AgendaAt(c)'
  BY DEF SoundAt, FreshAt, AgendaAt, At
<1>5. RestoringAt(c)' /\ TreeAt(c)'
  BY <1>1, <1>3 DEF SoundAt, RestoringAt, TreeAt, At
<1>6. DigestsAt(c)'
  BY <1>2, <1>3 DEF SoundAt, DigestsAt, At, Requirement
<1>7. KeyAt(c)'
  BY <1>2, <1>3 DEF SoundAt, KeyAt, At, Requirement
<1>8. BuiltAt(c)'
  BY <1>2, <1>3 DEF SoundAt, BuiltAt, At, Requirement
<1> QED
  BY <1>4, <1>5, <1>6, <1>7, <1>8 DEF SoundAt

LEMMA MovedInDownload ==
    ASSUME NEW c \in Compilers, SoundAt(c), Quiet, NEW step, Moves(c, step),
           proc[c].at \in {"start", "repository", "cloning"},
           step \in {"repository", "reset", "commit"}
    PROVE  SoundAt(c)'
<1>1. local' = local /\ restored \subseteq restored'
  BY DEF Quiet
<1>2. /\ proc'[c].at = step /\ proc'[c].goal = proc[c].goal /\ proc'[c].todo = proc[c].todo
      /\ proc'[c].calm = proc[c].calm /\ proc'[c].inputs = proc[c].inputs
  BY DEF Moves, Continues, Recalls
<1>3. Calm(c)' => Calm(c) \/ At(c, "start")
  BY <1>2 DEF Calm, UnderWay, Ended, At
<1>4. FreshAt(c)' /\ AgendaAt(c)'
  BY <1>2 DEF SoundAt, FreshAt, AgendaAt, At, Resolving, Building, Keyed
<1>5. RestoringAt(c)' /\ KeyAt(c)'
  BY <1>2 DEF RestoringAt, KeyAt, Keyed, At
<1>6. TreeAt(c)'
  BY <1>1, <1>2, <1>3 DEF SoundAt, FreshAt, TreeAt, At, Resolving, Building, Keyed
<1>7. DigestsAt(c)'
  BY <1>1, <1>2, <1>3, SameTexts DEF SoundAt, FreshAt, DigestsAt, At
<1>8. BuiltAt(c)'
  BY <1>2 DEF BuiltAt, At
<1> QED
  BY <1>4, <1>5, <1>6, <1>7, <1>8 DEF SoundAt

LEMMA MovedInBuild ==
    ASSUME NEW c \in Compilers, SoundAt(c), Quiet, NEW step, Moves(c, step),
           proc[c].at \in Keyed, step \in Keyed \ {"print", "publish"}
    PROVE  SoundAt(c)'
<1>1. local' = local /\ restored \subseteq restored'
  BY DEF Quiet
<1>2. /\ proc'[c].at = step /\ proc'[c].goal = proc[c].goal /\ proc'[c].todo = proc[c].todo
      /\ proc'[c].calm = proc[c].calm /\ proc'[c].inputs = proc[c].inputs
      /\ proc'[c].key = proc[c].key
  BY DEF Moves, Continues, Recalls
<1>3. Calm(c)' => Calm(c)
  BY <1>2 DEF Calm, UnderWay, Ended, At, Keyed
<1>4. FreshAt(c)' /\ AgendaAt(c)'
  BY <1>2 DEF SoundAt, FreshAt, AgendaAt, At, Resolving, Building, Keyed
<1>5. RestoringAt(c)' /\ BuiltAt(c)'
  BY <1>2 DEF RestoringAt, BuiltAt, Keyed, At
<1>6. TreeAt(c)'
  BY <1>1, <1>2, <1>3 DEF SoundAt, TreeAt, Building
<1>7. DigestsAt(c)'
  BY <1>1, <1>2, <1>3, SameTexts DEF SoundAt, DigestsAt, At, Keyed
<1>8. KeyAt(c)'
  BY <1>1, <1>2, <1>3, SameTexts DEF SoundAt, KeyAt, Requirement
<1> QED
  BY <1>4, <1>5, <1>6, <1>7, <1>8 DEF SoundAt

\* Quiet steps of c alone.
Own(c) == Touches(c) /\ Quiet /\ SoundAt(c)'

LEMMA PlanSound ==
    ASSUME Shape, NEW c \in Compilers, SoundAt(c), Plan(c)
    PROVE  Own(c)
<1>1. Quiet /\ At(c, "start")
  BY DEF Plan, Quiet
<1>2. CASE Fail(c)
  BY <1>1, <1>2, FailFails, FailedIsSound DEF Own, Fails, Processes
<1>3. CASE (\E d \in Documents(c) : IsPinned(d)) /\ GoTo(c, "repository")
  <2>1. Moves(c, "repository")
    BY <1>3, GoToMoves DEF Processes
  <2> QED
    BY <1>1, <2>1, MovedInDownload DEF Own, Moves, At
<1>4. CASE (~\E d \in Documents(c) : IsPinned(d)) /\ GoTo(c, "official")
  <2>1. Moves(c, "official")
    BY <1>4, GoToMoves DEF Processes
  <2>2. /\ proc'[c].at = "official" /\ proc'[c].goal = "documents" /\ proc'[c].inputs = <<>>
    BY <1>1, <2>1 DEF Moves, Continues, Recalls, SoundAt, FreshAt
  <2>3. FreshAt(c)' /\ AgendaAt(c)' /\ RestoringAt(c)' /\ KeyAt(c)' /\ BuiltAt(c)'
    BY <2>2 DEF FreshAt, AgendaAt, RestoringAt, KeyAt, BuiltAt, At, Resolving, Building, Keyed
  <2>4. TreeAt(c)'
    BY <1>4 DEF TreeAt
  <2>5. DigestsAt(c)'
    BY <2>2 DEF DigestsAt, At
  <2> QED
    BY <1>1, <2>1, <2>3, <2>4, <2>5 DEF Own, Moves, SoundAt
<1>5. Fail(c) \/ ((\E d \in Documents(c) : IsPinned(d)) /\ GoTo(c, "repository"))
              \/ ((~\E d \in Documents(c) : IsPinned(d)) /\ GoTo(c, "official"))
  BY DEF Plan
<1> QED
  BY <1>2, <1>3, <1>4, <1>5

LEMMA LookForCloneSound ==
    ASSUME Shape, NEW c \in Compilers, SoundAt(c), LookForClone(c)
    PROVE  Own(c)
<1>1. Quiet /\ proc[c].at = "repository"
  BY DEF LookForClone, Quiet, sources, At
<1>2. PICK step \in {"reset", "commit"} : GoTo(c, step)
  BY DEF LookForClone
<1>3. Moves(c, step)
  BY <1>2, GoToMoves DEF Processes
<1> QED
  BY <1>1, <1>3, MovedInDownload DEF Own, Moves

LEMMA EndCloneSound ==
    ASSUME Shape, NEW c \in Compilers, SoundAt(c), EndClone(c)
    PROVE  Own(c)
<1>1. Quiet /\ proc[c].at = "cloning" /\ GoTo(c, "commit")
  BY DEF EndClone, Quiet, At
<1>2. Moves(c, "commit")
  BY <1>1, GoToMoves DEF Processes
<1> QED
  BY <1>1, <1>2, MovedInDownload DEF Own, Moves

LEMMA FetchCommitSound ==
    ASSUME Shape, NEW c \in Compilers, SoundAt(c), FetchCommit(c)
    PROVE  Own(c)
<1>1. Quiet /\ At(c, "commit")
  BY DEF FetchCommit, Quiet
<1>2. CASE Fail(c)
  BY <1>1, <1>2, FailFails, FailedIsSound DEF Own, Fails, Processes
<1>3. CASE ~Fail(c)
  <2>1. proc' = [proc EXCEPT ![c].at = "restore", ![c].seen = {},
             ![c].pending = IF proc[c].goal = "merger" THEN {Merger}
                            ELSE UNION {Entry[d].files : d \in {e \in Documents(c) : IsPinned(e)}}]
    BY <1>3 DEF FetchCommit
  <2>2. /\ Touches(c) /\ Continues(c) /\ proc'[c].at = "restore" /\ proc'[c].seen = {}
        /\ proc'[c].inputs = proc[c].inputs
    BY <2>1 DEF Shape, Touches, Continues, Fields, Processes
  <2>3. proc[c].goal # "merger" =>
            proc'[c].pending = UNION {Entry[d].files : d \in {e \in Documents(c) : IsPinned(e)}}
    BY <2>1 DEF Shape, Fields, Processes
  <2>4. proc'[c].goal = proc[c].goal /\ proc'[c].calm = proc[c].calm
    BY <2>2 DEF Continues
  <2>5. Calm(c)' => Calm(c)
    BY <1>1, <2>2, <2>4 DEF Calm, UnderWay, Ended, At
  <2>6. FreshAt(c)' /\ AgendaAt(c)'
    BY <2>2, <2>4 DEF SoundAt, FreshAt, AgendaAt, At, Resolving, Building, Keyed
  <2>7. RestoringAt(c)'
    BY <2>2, <2>3, <2>4 DEF RestoringAt
  <2>8. TreeAt(c)'
    BY <1>1, <2>2, <2>4, <2>5 DEF SoundAt, TreeAt, Quiet, Resolving, Building, Keyed
  <2>9. DigestsAt(c)'
    BY <1>1, <2>2, <2>5, SameTexts DEF SoundAt, DigestsAt, At, Quiet
  <2>10. KeyAt(c)' /\ BuiltAt(c)'
    BY <2>2 DEF KeyAt, BuiltAt, Keyed, At
  <2> QED
    BY <1>1, <2>2, <2>6, <2>7, <2>8, <2>9, <2>10 DEF Own, SoundAt
<1> QED
  BY <1>2, <1>3

\* When nothing more is discovered, what the restored files reach is restored.
LEMMA RestoredWithAllTheyReach ==
    ASSUME NEW c \in Compilers, SoundAt(c), Calm(c), At(c, "restore"), proc[c].goal = "documents",
           proc[c].seen \union proc[c].pending \subseteq restored',
           UNION {TreeReferences[f] : f \in proc[c].pending}
               \subseteq proc[c].seen \union proc[c].pending
    PROVE  \A d \in Documents(c) : IsPinned(d) => TreeDependencies(Entry[d].path) \subseteq restored'
<1> DEFINE All == proc[c].seen \union proc[c].pending
<1> SUFFICES ASSUME NEW d \in Documents(c), IsPinned(d)
             PROVE  TreeDependencies(Entry[d].path) \subseteq restored'
  OBVIOUS
<1>1. /\ \A f \in proc[c].seen : TreeReferences[f] \subseteq All
      /\ Entry[d].files \subseteq All
  BY DEF SoundAt, RestoringAt
<1>2. \A f \in All : TreeReferences[f] \subseteq All
  BY <1>1
<1>3. d \in DOMAIN Entry
  <2>1. PICK r \in ToSet(Asked[c]) : d \in ToSet(Profile[r])
    BY DEF Documents
  <2>2. r \in DOMAIN Profile
    BY <2>1, CommandsAssumption DEF ToSet, Processes
  <2>3. Profile[r] \in Seq(DOMAIN Entry)
    BY <2>2, DocumentsAssumption
  <2> QED
    BY <2>1, <2>3 DEF ToSet
<1>4. Entry[d].path \in All
  BY <1>1, <1>3, DocumentsAssumption DEF IsPinned
<1> HIDE DEF All
<1>5. TreeDependencies(Entry[d].path) \subseteq All
  BY <1>2, <1>4, WithinClosed
<1> QED
  BY <1>5 DEF All

LEMMA WantedOnes ==
    ASSUME NEW c \in Processes
    PROVE  /\ Distinct(Asked[c]) \in Seq(Wanted(c)) /\ Distinct(Asked[c]) # <<>>
           /\ Wanted(c) \subseteq ToSet(Asked[c])
           /\ Wanted(c) \subseteq DOMAIN Profile
<1>1. Asked[c] \in Seq(DOMAIN Profile) /\ Asked[c] # <<>>
  BY CommandsAssumption
<1>2. Distinct(Asked[c]) \in Seq(ToSet(Asked[c])) /\ Distinct(Asked[c]) # <<>>
  BY <1>1, DistinctOnes
<1>3. ToSet(Asked[c]) \subseteq DOMAIN Profile
  BY <1>1 DEF ToSet
<1>4. \A s \in Seq(ToSet(Asked[c])) : s \in Seq(ToSet(s)) /\ ToSet(s) \subseteq ToSet(Asked[c])
  BY DEF ToSet
<1> QED
  BY <1>2, <1>3, <1>4 DEF Wanted

LEMMA RestoreBatchSound ==
    ASSUME Shape, NEW c \in Compilers, SoundAt(c), RestoreBatch(c)
    PROVE  Own(c)
<1> DEFINE all == proc[c].seen \union proc[c].pending
           discovered == (UNION {TreeReferences[f] : f \in proc[c].pending}) \ all
<1>1. At(c, "restore") /\ local' = local
  BY DEF RestoreBatch
<1>2. CASE repository # "ready"
  <2>1. Fail(c) /\ restored' = restored
    BY <1>2 DEF RestoreBatch
  <2> QED
    BY <1>1, <2>1, FailFails, FailedIsSound DEF Own, Fails, Processes, Quiet
<1>3. CASE repository = "ready"
  <2>1. restored' = restored \union proc[c].pending
    BY <1>3 DEF RestoreBatch
  <2>2. Quiet
    BY <1>1, <2>1 DEF Quiet
  <2>3. Calm(c) => all \subseteq restored'
    BY <1>1, <2>1 DEF SoundAt, RestoringAt
  <2>4. CASE discovered # {}
    <3>1. proc' = [proc EXCEPT ![c] = [@ EXCEPT !.seen = all, !.pending = discovered]]
      BY <1>3, <2>4 DEF RestoreBatch
    <3>2. /\ Touches(c) /\ proc'[c].at = "restore" /\ proc'[c].goal = proc[c].goal
          /\ proc'[c].calm = proc[c].calm /\ proc'[c].inputs = proc[c].inputs
          /\ proc'[c].seen = all /\ proc'[c].pending = discovered
      BY <1>1, <3>1 DEF Shape, Touches, Fields, Processes, At
    <3> HIDE DEF discovered
    <3>3. Calm(c)' => Calm(c)
      BY <1>1, <3>2 DEF Calm, UnderWay, Ended, At
    <3>4. FreshAt(c)' /\ AgendaAt(c)' /\ KeyAt(c)' /\ BuiltAt(c)'
      BY <3>2 DEF SoundAt, FreshAt, AgendaAt, KeyAt, BuiltAt, At, Resolving, Building, Keyed
    <3>5. RestoringAt(c)'
      <4>1. SUFFICES ASSUME Calm(c), all \subseteq restored'
                     PROVE  /\ \A f \in all : TreeReferences[f] \subseteq all \union discovered
                            /\ proc[c].goal = "documents" => \A d \in Documents(c) :
                                   IsPinned(d) => Entry[d].files \subseteq all \union discovered
        BY <2>3, <3>2, <3>3 DEF RestoringAt
      <4>2. /\ \A f \in proc[c].seen : TreeReferences[f] \subseteq all
            /\ proc[c].goal = "documents" => \A d \in Documents(c) :
                   IsPinned(d) => Entry[d].files \subseteq all
        BY <1>1, <4>1 DEF SoundAt, RestoringAt
      <4> DEFINE references == UNION {TreeReferences[f] : f \in proc[c].pending}
      <4>3. references \subseteq all \union discovered
        <5> HIDE DEF references
        <5>1. discovered = references \ all
          BY DEF discovered, references
        <5> QED
          BY <5>1
      <4>4. \A f \in proc[c].pending : TreeReferences[f] \subseteq references
        OBVIOUS
      <4> HIDE DEF references
      <4> QED
        BY <4>2, <4>3, <4>4
    <3>6. TreeAt(c)'
      BY <2>2, <3>2, <3>3 DEF SoundAt, TreeAt, Quiet, Resolving, Building, Keyed
    <3>7. DigestsAt(c)'
      BY <1>1, <3>2, <3>3, SameTexts DEF SoundAt, DigestsAt, At
    <3> QED
      BY <2>2, <3>2, <3>4, <3>5, <3>6, <3>7 DEF Own, SoundAt
  <2>5. CASE discovered = {} /\ proc[c].goal = "documents"
    <3>1. proc' = [proc EXCEPT ![c] =
                      [@ EXCEPT !.at = "official", !.seen = {}, !.pending = {}]]
      BY <1>3, <2>5 DEF RestoreBatch
    <3>2. /\ Touches(c) /\ proc'[c].at = "official" /\ proc'[c].goal = proc[c].goal
          /\ proc'[c].calm = proc[c].calm /\ proc'[c].inputs = proc[c].inputs
      BY <3>1 DEF Shape, Touches, Fields, Processes
    <3>3. Calm(c)' => Calm(c)
      BY <1>1, <3>2 DEF Calm, UnderWay, Ended, At
    <3>4. FreshAt(c)' /\ AgendaAt(c)' /\ RestoringAt(c)' /\ KeyAt(c)' /\ BuiltAt(c)'
      BY <3>2 DEF SoundAt, FreshAt, AgendaAt, RestoringAt, KeyAt, BuiltAt, At, Resolving,
                  Building, Keyed
    <3>5. TreeAt(c)'
      <4>1. UNION {TreeReferences[f] : f \in proc[c].pending} \subseteq all
        <5> DEFINE references == UNION {TreeReferences[f] : f \in proc[c].pending}
        <5> SUFFICES references \subseteq all
          OBVIOUS
        <5>1. references \ all = {}
          BY <2>5
        <5> HIDE DEF references
        <5> QED
          BY <5>1
      <4>2. Calm(c) => \A d \in Documents(c) :
                           IsPinned(d) => TreeDependencies(Entry[d].path) \subseteq restored'
        BY <1>1, <2>3, <2>5, <4>1, RestoredWithAllTheyReach
      <4> QED
        BY <3>3, <4>2 DEF TreeAt
    <3>6. DigestsAt(c)'
      BY <1>1, <3>2, <3>3, SameTexts DEF SoundAt, DigestsAt, At
    <3> QED
      BY <2>2, <3>2, <3>4, <3>5, <3>6 DEF Own, SoundAt
  <2>6. CASE discovered = {} /\ proc[c].goal # "documents"
    <3>1. proc' = [proc EXCEPT ![c] =
                      [@ EXCEPT !.at = "identify", !.seen = {}, !.pending = {},
                                !.todo = Distinct(Asked[c])]]
      BY <1>3, <2>6 DEF RestoreBatch
    <3>2. /\ Touches(c) /\ proc'[c].at = "identify" /\ proc'[c].goal = proc[c].goal
          /\ proc'[c].calm = proc[c].calm /\ proc'[c].inputs = proc[c].inputs
          /\ proc'[c].todo = Distinct(Asked[c])
      BY <3>1 DEF Shape, Touches, Fields, Processes
    <3>3. Calm(c)' => Calm(c)
      BY <1>1, <3>2 DEF Calm, UnderWay, Ended, At
    <3>4. FreshAt(c)' /\ RestoringAt(c)' /\ KeyAt(c)' /\ BuiltAt(c)'
      BY <3>2 DEF SoundAt, FreshAt, RestoringAt, KeyAt, BuiltAt, At, Keyed
    <3>5. proc[c].goal = "merger"
      BY <2>6 DEF SoundAt, FreshAt
    <3>6. AgendaAt(c)'
      BY <3>2, <3>5, WantedOnes DEF SoundAt, AgendaAt, Processes, Resolving, Building, Keyed
    <3>7. TreeAt(c)'
      BY <2>2, <3>2, <3>3, <3>5 DEF SoundAt, TreeAt, Quiet
    <3>8. DigestsAt(c)'
      BY <1>1, <3>2, <3>3, SameTexts DEF SoundAt, DigestsAt, At
    <3> QED
      BY <2>2, <3>2, <3>4, <3>6, <3>7, <3>8 DEF Own, SoundAt
  <2> QED
    BY <2>4, <2>5, <2>6
<1> QED
  BY <1>2, <1>3

LEMMA DownloadOfficialSound ==
    ASSUME Shape, NEW c \in Compilers, SoundAt(c), DownloadOfficial(c)
    PROVE  Own(c)
<1>1. Quiet /\ At(c, "official")
  BY DEF DownloadOfficial, Quiet
<1>2. /\ Touches(c) /\ proc'[c].at = "resolve" /\ proc'[c].goal = proc[c].goal
      /\ proc'[c].calm = proc[c].calm /\ proc'[c].inputs = proc[c].inputs
      /\ proc'[c].todo = Distinct(Asked[c])
  BY DEF DownloadOfficial, Shape, Touches, Fields, Processes
<1>3. Calm(c)' => Calm(c)
  BY <1>1, <1>2 DEF Calm, UnderWay, Ended, At
<1>4. FreshAt(c)' /\ RestoringAt(c)' /\ KeyAt(c)' /\ BuiltAt(c)'
  BY <1>2 DEF SoundAt, FreshAt, RestoringAt, KeyAt, BuiltAt, At, Keyed
<1>5. AgendaAt(c)'
  <2>1. Distinct(Asked[c]) \in Seq(Wanted(c)) /\ Distinct(Asked[c]) # <<>>
    BY WantedOnes DEF Processes
  <2>2. ToSet(proc'[c].todo) = Wanted(c)
    BY <1>2 DEF Wanted
  <2> QED
    BY <1>2, <2>1, <2>2 DEF SoundAt, AgendaAt, Resolving, Building, Keyed
<1>6. TreeAt(c)'
  BY <1>1, <1>2, <1>3 DEF SoundAt, TreeAt, Quiet, At
<1>7. DigestsAt(c)'
  BY <1>1, <1>2, <1>3, SameTexts DEF SoundAt, DigestsAt, At, Quiet
<1> QED
  BY <1>1, <1>2, <1>4, <1>5, <1>6, <1>7 DEF Own, SoundAt

LEMMA AtHand ==
    ASSUME NEW c \in Compilers, SoundAt(c), proc[c].at \in Resolving \union Building
    PROVE  /\ Requirement(c) \in Wanted(c)
           /\ ToSet(proc[c].todo) \subseteq Wanted(c)
           /\ Tail(proc[c].todo) \in Seq(Wanted(c))
           /\ ToSet(proc[c].todo) = {Requirement(c)} \union ToSet(Tail(proc[c].todo))
<1> DEFINE todo == proc[c].todo
           W == Wanted(c)
<1>1. todo \in Seq(W) /\ todo # <<>>
  BY DEF SoundAt, AgendaAt
<1> HIDE DEF todo, W
<1>2. Head(todo) \in W /\ Tail(todo) \in Seq(W) /\ ToSet(todo) \subseteq W
  BY <1>1 DEF ToSet
<1>3. ToSet(todo) = {Head(todo)} \union ToSet(Tail(todo))
  <2>1. DOMAIN todo = 1..Len(todo) /\ Len(todo) \in Nat \ {0}
    BY <1>1
  <2>2. DOMAIN Tail(todo) = 1..(Len(todo) - 1)
        /\ \A i \in 1..(Len(todo) - 1) : Tail(todo)[i] = todo[i + 1]
    BY <1>1, <2>1
  <2>3. ASSUME NEW x \in ToSet(todo)
        PROVE  x \in {Head(todo)} \union ToSet(Tail(todo))
    <3>1. PICK i \in 1..Len(todo) : x = todo[i]
      BY <2>1 DEF ToSet
    <3>2. CASE i = 1
      BY <1>1, <3>1, <3>2
    <3>3. CASE i # 1
      <4>1. i - 1 \in 1..(Len(todo) - 1) /\ (i - 1) + 1 = i
        BY <2>1, <3>3
      <4> QED
        BY <2>2, <3>1, <4>1 DEF ToSet
    <3> QED
      BY <3>2, <3>3
  <2>4. ASSUME NEW x \in ToSet(Tail(todo))
        PROVE  x \in ToSet(todo)
    <3>1. PICK i \in 1..(Len(todo) - 1) : x = Tail(todo)[i]
      BY <2>2 DEF ToSet
    <3>2. i + 1 \in 1..Len(todo)
      BY <2>1
    <3> QED
      BY <2>1, <2>2, <3>1, <3>2 DEF ToSet
  <2>5. Head(todo) \in ToSet(todo)
    BY <1>1, <2>1 DEF ToSet
  <2> QED
    BY <2>3, <2>4, <2>5
<1> QED
  BY <1>2, <1>3 DEF Requirement, todo, W

LEMMA FollowReferencesMoves ==
    ASSUME Shape, NEW c \in Processes, FollowReferences(c)
    PROVE  /\ Quiet /\ At(c, "resolve")
           /\ \/ Fails(c)
              \/ /\ Touches(c) /\ Continues(c) /\ proc'[c].at = "hash"
                 /\ proc'[c].inputs = proc[c].inputs /\ proc'[c].taken = FilesOf(Requirement(c))
                 /\ proc'[c].ready = proc[c].ready /\ proc'[c].pages = proc[c].pages
<1>1. Quiet /\ At(c, "resolve")
  BY DEF FollowReferences, Quiet, sources
<1>2. CASE Fail(c)
  BY <1>1, <1>2, FailFails
<1>3. CASE ~Fail(c)
  <2>1. proc' = [proc EXCEPT ![c].at = "hash", ![c].taken = FilesOf(Requirement(c))]
    BY <1>3 DEF FollowReferences, FilesOf
  <2> QED
    BY <1>1, <2>1 DEF Shape, Touches, Continues, Fields
<1> QED
  BY <1>2, <1>3

LEMMA FollowReferencesSound ==
    ASSUME Shape, NEW c \in Compilers, SoundAt(c), FollowReferences(c)
    PROVE  Own(c)
<1>1. Quiet /\ At(c, "resolve")
  BY FollowReferencesMoves DEF Processes
<1>2. CASE Fails(c)
  BY <1>1, <1>2, FailedIsSound DEF Own, Fails
<1>3. CASE ~Fails(c)
  <2>1. /\ Touches(c) /\ proc'[c].at = "hash" /\ proc'[c].inputs = proc[c].inputs
        /\ proc'[c].taken = FilesOf(Requirement(c))
        /\ proc'[c].goal = proc[c].goal /\ proc'[c].todo = proc[c].todo
        /\ proc'[c].calm = proc[c].calm
    BY <1>3, FollowReferencesMoves DEF Processes, Continues
  <2>2. Calm(c)' => Calm(c)
    BY <1>1, <2>1 DEF Calm, UnderWay, Ended, At
  <2>3. FreshAt(c)' /\ RestoringAt(c)' /\ KeyAt(c)' /\ BuiltAt(c)'
    BY <2>1 DEF SoundAt, FreshAt, RestoringAt, KeyAt, BuiltAt, At, Keyed
  <2>4. AgendaAt(c)'
    BY <1>1, <2>1 DEF SoundAt, AgendaAt, At, Resolving, Building, Keyed
  <2>5. TreeAt(c)'
    BY <1>1, <2>1, <2>2 DEF SoundAt, TreeAt, Quiet, At, Resolving
  <2>6. DigestsAt(c)'
    BY <1>1, <2>1, <2>2, SameTexts DEF SoundAt, DigestsAt, At, Quiet, Requirement
  <2> QED
    BY <1>1, <2>1, <2>3, <2>4, <2>5, <2>6 DEF Own, SoundAt
<1> QED
  BY <1>2, <1>3

\* The digests of the requirement at hand are added to the inputs.
LEMMA HashInputsMoves ==
    ASSUME Shape, NEW c \in Processes, HashInputs(c)
    PROVE  /\ Quiet /\ At(c, "hash")
           /\ \/ Fails(c)
              \/ /\ Touches(c) /\ proc'[c].calm = proc[c].calm /\ proc'[c].ready = proc[c].ready
                 /\ proc'[c].pages = proc[c].pages
                 /\ \E inputs :
                       /\ inputs = [d \in DOMAIN proc[c].taken |-> Read(proc[c].taken[d])]
                       /\ proc'[c].inputs =
                             [x \in {Requirement(c)} |-> inputs] ++ proc[c].inputs
                 /\ \/ c = Doctor /\ proc'[c].at = "identify"
                    \/ /\ Tail(proc[c].todo) # <<>> /\ proc'[c].at = "resolve"
                       /\ proc'[c].goal = proc[c].goal
                       /\ proc'[c].todo = Tail(proc[c].todo)
                    \/ /\ Tail(proc[c].todo) = <<>> /\ proc'[c].at = "repository"
                       /\ proc'[c].goal = "merger"
                    \/ /\ Tail(proc[c].todo) = <<>> /\ proc'[c].at = "identify"
                       /\ proc'[c].goal = proc[c].goal /\ proc'[c].todo = Distinct(Asked[c])
<1> DEFINE found == proc[c].taken
           inputs == [d \in DOMAIN found |-> Read(found[d])]
           known == [x \in {Requirement(c)} |-> inputs] ++ proc[c].inputs
           rest == Tail(proc[c].todo)
           hashed == [proc[c] EXCEPT !.taken = <<>>, !.inputs = known]
           needed == \E d \in Documents(c) : ~IsOfficial(d)
<1>1. Quiet /\ At(c, "hash")
  BY DEF HashInputs, Quiet, sources
<1>2. CASE Fail(c)
  BY <1>1, <1>2, FailFails
<1>3. CASE ~Fail(c)
  <2>1. proc' = [proc EXCEPT ![c] =
             IF c = Doctor THEN [hashed EXCEPT !.at = "identify"]
             ELSE IF rest # <<>> THEN [hashed EXCEPT !.at = "resolve", !.todo = rest]
             ELSE IF needed THEN [hashed EXCEPT !.at = "repository", !.goal = "merger"]
             ELSE [hashed EXCEPT !.at = "identify", !.todo = Distinct(Asked[c])]]
    BY <1>3 DEF HashInputs
  <2>2. DOMAIN proc = Processes /\ DOMAIN proc[c] = Fields
    BY DEF Shape
  <2> HIDE DEF known, needed, rest
  <2>3. Touches(c) /\ proc'[c].calm = proc[c].calm /\ proc'[c].ready = proc[c].ready
        /\ proc'[c].inputs = known /\ proc'[c].pages = proc[c].pages
    BY <2>1, <2>2 DEF Touches, Fields
  <2>4. \/ c = Doctor /\ proc'[c].at = "identify"
        \/ /\ rest # <<>> /\ proc'[c].at = "resolve"
           /\ proc'[c].goal = proc[c].goal /\ proc'[c].todo = rest
        \/ rest = <<>> /\ proc'[c].at = "repository" /\ proc'[c].goal = "merger"
        \/ /\ rest = <<>> /\ proc'[c].at = "identify"
           /\ proc'[c].goal = proc[c].goal /\ proc'[c].todo = Distinct(Asked[c])
    BY <2>1, <2>2 DEF Fields
  <2> USE DEF rest
  <2>5. \E i : /\ i = [d \in DOMAIN proc[c].taken |-> Read(proc[c].taken[d])]
               /\ proc'[c].inputs = [x \in {Requirement(c)} |-> i] ++ proc[c].inputs
    BY <2>3 DEF known
  <2> QED
    BY <1>1, <2>3, <2>4, <2>5
<1> QED
  BY <1>2, <1>3

LEMMA HashInputsSound ==
    ASSUME Shape, NEW c \in Compilers, SoundAt(c), HashInputs(c)
    PROVE  Own(c)
<1>1. Quiet /\ At(c, "hash")
  BY HashInputsMoves DEF Processes
<1>2. CASE Fails(c)
  BY <1>1, <1>2, FailedIsSound DEF Own, Fails
<1>3. CASE ~Fails(c)
  <2>1. Touches(c) /\ proc'[c].calm = proc[c].calm
    BY <1>3, HashInputsMoves DEF Processes
  <2>2. PICK inputs : /\ inputs = [d \in DOMAIN proc[c].taken |-> Read(proc[c].taken[d])]
                      /\ proc'[c].inputs =
                            [x \in {Requirement(c)} |-> inputs] ++ proc[c].inputs
    BY <1>3, HashInputsMoves DEF Processes
  <2>3. \/ /\ Tail(proc[c].todo) # <<>> /\ proc'[c].at = "resolve"
           /\ proc'[c].goal = proc[c].goal /\ proc'[c].todo = Tail(proc[c].todo)
        \/ /\ Tail(proc[c].todo) = <<>> /\ proc'[c].at = "repository"
           /\ proc'[c].goal = "merger"
        \/ /\ Tail(proc[c].todo) = <<>> /\ proc'[c].at = "identify"
           /\ proc'[c].goal = proc[c].goal /\ proc'[c].todo = Distinct(Asked[c])
    BY <1>3, HashInputsMoves, CommandsAssumption DEF Processes
  <2> DEFINE R == Requirement(c)
  <2>4. /\ R \in Wanted(c)
        /\ Tail(proc[c].todo) \in Seq(Wanted(c))
        /\ ToSet(proc[c].todo) = {R} \union ToSet(Tail(proc[c].todo))
    BY <1>1, AtHand DEF At, Resolving
  <2>5. /\ DOMAIN proc'[c].inputs = {R} \union DOMAIN proc[c].inputs
        /\ proc'[c].inputs[R] = inputs
        /\ \A r \in DOMAIN proc[c].inputs : r # R => proc'[c].inputs[r] = proc[c].inputs[r]
    <3> HIDE DEF R
    <3>1. proc'[c].inputs = [x \in {R} |-> inputs] ++ proc[c].inputs
      BY <2>2 DEF R
    <3> QED
      BY <3>1 DEF ++
  <2>6. Wanted(c) \subseteq DOMAIN proc'[c].inputs \union ToSet(Tail(proc[c].todo))
    BY <1>1, <2>4, <2>5 DEF SoundAt, AgendaAt, At, Resolving
  <2>7. Tail(proc[c].todo) = <<>> => Wanted(c) \subseteq DOMAIN proc'[c].inputs
    BY <2>6 DEF ToSet
  <2>8. Calm(c)' => Calm(c)
    BY <1>1, <2>1 DEF Calm, UnderWay, Ended, At
  <2>9. FreshAt(c)' /\ RestoringAt(c)' /\ KeyAt(c)' /\ BuiltAt(c)'
    BY <2>3 DEF SoundAt, FreshAt, RestoringAt, KeyAt, BuiltAt, At, Keyed
  <2>10. AgendaAt(c)'
    <3>1. CASE Tail(proc[c].todo) # <<>>
      <4>1. proc[c].goal = "merger" => Wanted(c) \subseteq DOMAIN proc'[c].inputs
        BY <2>5 DEF SoundAt, AgendaAt
      <4> QED
        BY <2>3, <2>4, <2>6, <3>1, <4>1 DEF AgendaAt, Resolving, Building, Keyed
    <3>2. CASE Tail(proc[c].todo) = <<>>
      <4>1. Distinct(Asked[c]) \in Seq(Wanted(c)) /\ Distinct(Asked[c]) # <<>>
        BY WantedOnes DEF Processes
      <4> QED
        BY <2>3, <2>7, <3>2, <4>1 DEF AgendaAt, Resolving, Building, Keyed
    <3> QED
      BY <3>1, <3>2
  <2>11. TreeAt(c)'
    BY <1>1, <2>8 DEF SoundAt, TreeAt, Quiet, At, Resolving
  <2>12. DigestsAt(c)'
    <3>1. Calm(c) => proc[c].taken = FilesOf(R)
      BY <1>1, <2>4 DEF SoundAt, DigestsAt
    <3>2. Calm(c) => inputs = Digests(R)
      BY <2>2, <3>1 DEF FilesOf, Digests
    <3> HIDE DEF R
    <3>3. Calm(c) => \A r \in DOMAIN proc[c].inputs : proc[c].inputs[r] = Digests(r)
      BY DEF SoundAt, DigestsAt
    <3>4. Calm(c) => \A r \in DOMAIN proc'[c].inputs : proc'[c].inputs[r] = Digests(r)
      BY <2>5, <3>2, <3>3
    <3>5. \A r : Digests(r)' = Digests(r)
      BY <1>1, SameTexts DEF Quiet
    <3> QED
      BY <2>3, <2>8, <3>4, <3>5 DEF DigestsAt, At
  <2> QED
    BY <1>1, <2>1, <2>9, <2>10, <2>11, <2>12 DEF Own, SoundAt
<1> QED
  BY <1>2, <1>3

LEMMA IdentifyMoves ==
    ASSUME Shape, NEW c \in Processes, Identify(c)
    PROVE  /\ Quiet /\ At(c, "identify")
           /\ \/ Fails(c)
              \/ /\ Touches(c) /\ Continues(c) /\ proc'[c].at = "look"
                 /\ proc'[c].inputs = proc[c].inputs
                 /\ proc'[c].ready = proc[c].ready /\ proc'[c].pages = proc[c].pages
                 /\ \A r : r = Requirement(c) => proc'[c].key = Key(r, proc[c].inputs[r])
<1>1. Quiet /\ At(c, "identify")
  BY DEF Identify, Quiet, sources
<1>2. CASE Fail(c)
  BY <1>1, <1>2, FailFails
<1>3. CASE ~Fail(c)
  <2>1. PICK k : /\ proc' = [proc EXCEPT ![c].at = "look", ![c].key = k]
                 /\ k = Key(Requirement(c), proc[c].inputs[Requirement(c)])
    BY <1>3 DEF Identify
  <2>2. /\ Touches(c) /\ Continues(c) /\ proc'[c].at = "look"
        /\ proc'[c].inputs = proc[c].inputs /\ proc'[c].key = k
        /\ proc'[c].ready = proc[c].ready /\ proc'[c].pages = proc[c].pages
    BY <2>1 DEF Shape, Touches, Continues, Fields
  <2> QED
    BY <1>1, <2>1, <2>2
<1> QED
  BY <1>2, <1>3

LEMMA IdentifySound ==
    ASSUME Shape, NEW c \in Compilers, SoundAt(c), Identify(c)
    PROVE  Own(c)
<1>1. Quiet /\ At(c, "identify")
  BY IdentifyMoves DEF Processes
<1>2. CASE Fails(c)
  BY <1>1, <1>2, FailedIsSound DEF Own, Fails
<1>3. CASE ~Fails(c)
  <2>1. /\ Touches(c) /\ proc'[c].at = "look" /\ proc'[c].inputs = proc[c].inputs
        /\ \A r : r = Requirement(c) => proc'[c].key = Key(r, proc[c].inputs[r])
        /\ proc'[c].goal = proc[c].goal /\ proc'[c].todo = proc[c].todo
        /\ proc'[c].calm = proc[c].calm
    BY <1>3, IdentifyMoves DEF Processes, Continues
  <2>2. Calm(c)' => Calm(c)
    BY <1>1, <2>1 DEF Calm, UnderWay, Ended, At
  <2>3. FreshAt(c)' /\ RestoringAt(c)' /\ BuiltAt(c)'
    BY <2>1 DEF SoundAt, FreshAt, RestoringAt, BuiltAt, At
  <2>4. AgendaAt(c)'
    BY <1>1, <2>1 DEF SoundAt, AgendaAt, At, Resolving, Building, Keyed
  <2>5. TreeAt(c)'
    BY <1>1, <2>1, <2>2 DEF SoundAt, TreeAt, Quiet, At, Building
  <2>6. DigestsAt(c)'
    BY <1>1, <2>1, <2>2, SameTexts DEF SoundAt, DigestsAt, At, Quiet
  <2>7. KeyAt(c)'
    <3>1. SUFFICES ASSUME Calm(c), NEW r \in Wanted(c), r = Requirement(c)
                   PROVE  proc'[c].key = KeyNow(r)'
      BY <2>1, <2>2 DEF KeyAt, Requirement
    <3>2. r \in DOMAIN proc[c].inputs
      BY <1>1 DEF SoundAt, AgendaAt, At, Building
    <3>3. proc[c].inputs[r] = Digests(r)
      BY <3>1, <3>2 DEF SoundAt, DigestsAt
    <3> QED
      BY <1>1, <2>1, <3>1, <3>3, SameTexts DEF KeyNow, Quiet
  <2> QED
    BY <1>1, <2>1, <2>3, <2>4, <2>5, <2>6, <2>7 DEF Own, SoundAt
<1> QED
  BY <1>2, <1>3

LEMMA FinishMoves ==
    ASSUME Shape, NEW c \in Processes, Finish(c)
    PROVE  /\ Touches(c)
           /\ proc'[c].ready = proc[c].ready \union {proc[c].key}
           /\ excused' = excused \ {<<c, proc[c].key>>}
           /\ \A k : c = Doctor /\ k = proc[c].key =>
                 proc'[c].pages = [x \in {k} |-> artifacts[k].pages] ++ proc[c].pages
           /\ \/ proc'[c].at = "done" /\ proc'[c].goal = "documents"
              \/ /\ proc'[c].at = IF c = Doctor THEN "resolve" ELSE "identify"
                 /\ Tail(proc[c].todo) # <<>> /\ proc'[c].todo = Tail(proc[c].todo)
                 /\ proc'[c].goal = proc[c].goal /\ proc'[c].calm = proc[c].calm
                 /\ proc'[c].inputs = proc[c].inputs
<1> DEFINE k == proc[c].key
           seen == IF c = Doctor THEN [x \in {k} |-> artifacts[k].pages] ++ proc[c].pages
                   ELSE <<>>
           ready == proc[c].ready \union {k}
<1>1. /\ excused' = excused \ {<<c, k>>}
      /\ proc' = [proc EXCEPT ![c] =
            IF Tail(proc[c].todo) = <<>>
            THEN [Idle EXCEPT !.at = "done", !.ready = ready, !.pages = seen]
            ELSE [@ EXCEPT !.at = IF c = Doctor THEN "resolve" ELSE "identify",
                           !.todo = Tail(proc[c].todo), !.ready = ready, !.pages = seen]]
  BY DEF Finish
<1>2. DOMAIN proc = Processes /\ DOMAIN proc[c] = Fields
  BY DEF Shape
<1>3. c = Doctor => seen = [x \in {k} |-> artifacts[k].pages] ++ proc[c].pages
  OBVIOUS
<1> HIDE DEF k, seen
<1>4. CASE Tail(proc[c].todo) = <<>>
  <2>1. /\ Touches(c) /\ proc'[c].at = "done" /\ proc'[c].goal = "documents"
        /\ proc'[c].ready = proc[c].ready \union {k} /\ proc'[c].pages = seen
    BY <1>1, <1>2, <1>4 DEF Touches, Fields, Idle
  <2> QED
    BY <1>1, <1>3, <2>1 DEF k
<1>5. CASE Tail(proc[c].todo) # <<>>
  <2>1. /\ Touches(c) /\ proc'[c].at = IF c = Doctor THEN "resolve" ELSE "identify"
        /\ proc'[c].todo = Tail(proc[c].todo)
        /\ proc'[c].goal = proc[c].goal /\ proc'[c].calm = proc[c].calm
        /\ proc'[c].inputs = proc[c].inputs
        /\ proc'[c].ready = proc[c].ready \union {k} /\ proc'[c].pages = seen
    BY <1>1, <1>2, <1>5 DEF Touches, Fields
  <2> QED
    BY <1>1, <1>3, <1>5, <2>1 DEF k
<1> QED
  BY <1>4, <1>5

LEMMA FinishSound ==
    ASSUME Shape, NEW c \in Compilers, SoundAt(c), Finish(c), Quiet,
           proc[c].at \in {"look", "load"}
    PROVE  Own(c)
<1>1. Touches(c) /\ c # Doctor
  BY FinishMoves, CommandsAssumption DEF Processes
<1>2. CASE proc'[c].at = "done" /\ proc'[c].goal = "documents"
  BY <1>1, <1>2, EndedIsSound DEF Own
<1>3. CASE /\ proc'[c].at = "identify" /\ Tail(proc[c].todo) # <<>>
           /\ proc'[c].todo = Tail(proc[c].todo) /\ proc'[c].goal = proc[c].goal
           /\ proc'[c].calm = proc[c].calm /\ proc'[c].inputs = proc[c].inputs
  <2>1. Calm(c)' => Calm(c)
    BY <1>3 DEF Calm, UnderWay, Ended, At
  <2>2. FreshAt(c)' /\ RestoringAt(c)' /\ KeyAt(c)' /\ BuiltAt(c)'
    BY <1>3 DEF SoundAt, FreshAt, RestoringAt, KeyAt, BuiltAt, At, Keyed
  <2>3. AgendaAt(c)'
    <3>1. Tail(proc[c].todo) \in Seq(Wanted(c))
      BY AtHand DEF Building, Keyed
    <3>2. Wanted(c) \subseteq DOMAIN proc[c].inputs
      BY DEF SoundAt, AgendaAt, Building, Keyed
    <3> QED
      BY <1>3, <3>1, <3>2 DEF AgendaAt, Resolving, Building, Keyed
  <2>4. TreeAt(c)'
    BY <1>3, <2>1 DEF SoundAt, TreeAt, Quiet, Building, Keyed
  <2>5. DigestsAt(c)'
    BY <1>3, <2>1, SameTexts DEF SoundAt, DigestsAt, At, Quiet
  <2> QED
    BY <1>1, <2>2, <2>3, <2>4, <2>5 DEF Own, SoundAt
<1> QED
  BY <1>1, <1>2, <1>3, FinishMoves DEF Processes

LEMMA LookSound ==
    ASSUME Shape, NEW c \in Compilers, SoundAt(c), Look(c)
    PROVE  Own(c)
<1>1. Quiet /\ proc[c].at = "look" /\ c # Doctor
  BY CommandsAssumption DEF Look, Quiet, sources, At
<1>2. CASE Finish(c)
  BY <1>1, <1>2, FinishSound
<1>3. CASE GoTo(c, "remove")
  <2>1. Moves(c, "remove")
    BY <1>3, GoToMoves DEF Processes
  <2> QED
    BY <1>1, <2>1, MovedInBuild DEF Own, Moves, Keyed
<1> QED
  BY <1>1, <1>2, <1>3 DEF Look

LEMMA LoadCompiledSound ==
    ASSUME Shape, NEW c \in Compilers, SoundAt(c), LoadCompiled(c)
    PROVE  Own(c)
<1>1. Quiet /\ proc[c].at = "load"
  BY DEF LoadCompiled, Quiet, sources, At
<1>2. CASE Finish(c)
  BY <1>1, <1>2, FinishSound
<1>3. CASE Fail(c)
  BY <1>1, <1>3, FailFails, FailedIsSound DEF Own, Fails, Processes
<1> QED
  BY <1>2, <1>3 DEF LoadCompiled

LEMMA RemovingSound ==
    ASSUME Shape, NEW c \in Compilers, SoundAt(c), RemoveIncomplete(c) \/ RemoveDirectory(c)
    PROVE  Own(c)
<1>1. Quiet /\ proc[c].at \in {"remove", "removing"}
  BY DEF RemoveIncomplete, RemoveDirectory, Quiet, sources, At
<1>2. CASE Fail(c)
  BY <1>1, <1>2, FailFails, FailedIsSound DEF Own, Fails, Processes
<1>3. CASE GoTo(c, "removing")
  <2>1. Moves(c, "removing")
    BY <1>3, GoToMoves DEF Processes
  <2> QED
    BY <1>1, <2>1, MovedInBuild DEF Own, Moves, Keyed
<1>4. CASE GoTo(c, "load pages")
  <2>1. Moves(c, "load pages")
    BY <1>4, GoToMoves DEF Processes
  <2> QED
    BY <1>1, <2>1, MovedInBuild DEF Own, Moves, Keyed
<1> QED
  BY <1>2, <1>3, <1>4 DEF RemoveIncomplete, RemoveDirectory

LEMMA PublishSound ==
    ASSUME Shape, NEW c \in Compilers, SoundAt(c), Publish(c)
    PROVE  Own(c)
<1>1. Quiet /\ proc[c].at = "publish" /\ GoTo(c, "load")
  BY DEF Publish, Quiet, sources, At
<1> QED
  BY <1>1, GoToMoves, MovedInBuild DEF Own, Moves, Processes, Keyed

LEMMA BreakSound ==
    ASSUME Shape, NEW c \in Compilers, SoundAt(c), Break(c)
    PROVE  Own(c)
<1>1. Quiet /\ Fail(c)
  BY DEF Break, Quiet
<1> QED
  BY <1>1, FailFails, FailedIsSound DEF Own, Fails, Processes

LEMMA FlattenFramesSound ==
    ASSUME Shape, NEW c \in Compilers, SoundAt(c), FlattenFrames(c)
    PROVE  Own(c)
<1>1. Quiet /\ proc[c].at = "load pages"
  BY DEF FlattenFrames, Quiet, sources, At
<1>2. CASE Fail(c)
  BY <1>1, <1>2, FailFails, FailedIsSound DEF Own, Fails, Processes
<1>3. CASE ~Fail(c)
  <2>1. proc' = [proc EXCEPT ![c].at = "print", ![c].taken = Texts(Requirement(c))]
    BY <1>3 DEF FlattenFrames, Texts
  <2>2. /\ Touches(c) /\ proc'[c].at = "print" /\ proc'[c].inputs = proc[c].inputs
        /\ proc'[c].key = proc[c].key /\ proc'[c].taken = Texts(Requirement(c))
        /\ proc'[c].goal = proc[c].goal /\ proc'[c].todo = proc[c].todo
        /\ proc'[c].calm = proc[c].calm
    BY <2>1 DEF Shape, Touches, Fields, Processes
  <2>3. Calm(c)' => Calm(c)
    BY <1>1, <2>2 DEF Calm, UnderWay, Ended, At
  <2>4. FreshAt(c)' /\ RestoringAt(c)'
    BY <2>2 DEF SoundAt, FreshAt, RestoringAt, At
  <2>5. AgendaAt(c)'
    BY <1>1, <2>2 DEF SoundAt, AgendaAt, Resolving, Building, Keyed
  <2>6. TreeAt(c)'
    BY <1>1, <2>2, <2>3 DEF SoundAt, TreeAt, Quiet, Building, Keyed
  <2>7. DigestsAt(c)'
    BY <1>1, <2>2, <2>3, SameTexts DEF SoundAt, DigestsAt, At, Quiet
  <2>8. KeyAt(c)'
    BY <1>1, <2>2, <2>3, SameTexts DEF SoundAt, KeyAt, Quiet, Keyed, Requirement
  <2>9. BuiltAt(c)'
    BY <1>1, <2>2, SameTexts DEF BuiltAt, At, Quiet, Requirement
  <2> QED
    BY <1>1, <2>2, <2>4, <2>5, <2>6, <2>7, <2>8, <2>9 DEF Own, SoundAt
<1> QED
  BY <1>2, <1>3

\* The files the browser gets for a local document, and what it asks the tree for, follow
\* from the texts that were hashed: the server goes no further than the references do.
LEMMA HashedIsEnough ==
    ASSUME NEW d \in DOMAIN Entry, IsLocal(d)
    PROVE  LET hashed == Read(LocalDependencies(Entry[d].path)) IN
           /\ Requested(d, Read(LocalFiles)) = Requested(d, hashed)
           /\ Requested(d, hashed) \subseteq LocalDependencies(Entry[d].path)
           /\ FromTree(d, Read(LocalFiles)) = FromTree(d, hashed)
<1> DEFINE p == Entry[d].path
           D == LocalDependencies(p)
           now == Read(LocalFiles)
           hashed == Read(D)
           Linked(f) == LocalFiles \intersect References[f][local[f]]
           Given(f) == Serves(d, f, local[f])
<1>1. p \in LocalFiles /\ Entry[d].beside \subseteq LocalFiles
  BY DocumentsAssumption DEF IsLocal
<1>2. D \subseteq LocalFiles /\ p \in D
  BY <1>1 DEF LocalDependencies
<1>3. ASSUME NEW f \in D, local[f] # "missing"
      PROVE  Linked(f) \subseteq D
  BY <1>3 DEF LocalDependencies
<1>4. \A f : Given(f) \subseteq Linked(f)
  BY <1>1 DEF Serves
<1>5. /\ DOMAIN now = LocalFiles /\ \A f \in LocalFiles : now[f] = local[f]
      /\ DOMAIN hashed = D /\ \A f \in D : hashed[f] = local[f]
  BY DEF Read
<1> HIDE DEF p, D, now, hashed, Linked, Given
<1>6. Requested(d, now) = {g \in LocalFiles : \A S \in SUBSET LocalFiles :
          p \in S /\ (\A f \in S : local[f] # "missing" => Given(f) \subseteq S) => g \in S}
  <2>1. \A S \in SUBSET LocalFiles : S \intersect DOMAIN now = S
    BY <1>5
  <2> QED
    BY <1>5, <2>1 DEF Requested, p, Given
<1>7. Requested(d, hashed) = {g \in LocalFiles : \A S \in SUBSET LocalFiles :
          p \in S /\ (\A f \in S \intersect D : local[f] # "missing" => Given(f) \subseteq S)
          => g \in S}
  BY <1>5 DEF Requested, p, Given
<1>8. ASSUME NEW g \in Requested(d, hashed)
      PROVE  g \in Requested(d, now)
  <2>1. ASSUME NEW S \in SUBSET LocalFiles, p \in S,
               \A f \in S : local[f] # "missing" => Given(f) \subseteq S
        PROVE  g \in S
    BY <1>7, <1>8, <2>1
  <2> QED
    BY <1>6, <1>7, <1>8, <2>1
<1>9. ASSUME NEW g \in Requested(d, now), NEW S \in SUBSET LocalFiles, p \in S,
             \A f \in S \intersect D : local[f] # "missing" => Given(f) \subseteq S
      PROVE  g \in S /\ g \in D
  <2>1. S \intersect D \in SUBSET LocalFiles /\ p \in S \intersect D
    BY <1>2, <1>9
  <2>2. ASSUME NEW f \in S \intersect D, local[f] # "missing"
        PROVE  Given(f) \subseteq S \intersect D
    <3>1. Given(f) \subseteq S
      BY <1>9, <2>2
    <3>2. Linked(f) \subseteq D
      BY <1>3, <2>2
    <3> QED
      BY <1>4, <3>1, <3>2
  <2>3. g \in S \intersect D
    BY <1>6, <2>1, <2>2
  <2> QED
    BY <2>3
<1>10. Requested(d, now) = Requested(d, hashed)
  <2>1. Requested(d, now) \subseteq LocalFiles
    BY <1>6
  <2> QED
    BY <1>7, <1>8, <1>9, <2>1
<1>11. Requested(d, hashed) \subseteq D
  <2>1. \A f \in D : local[f] # "missing" => Given(f) \subseteq D
    BY <1>3, <1>4
  <2> QED
    BY <1>2, <1>7, <2>1
<1>12. Astray(d, now) = Astray(d, hashed)
  <2> DEFINE files(texts) ==
                 {h \in Requested(d, texts) \intersect DOMAIN texts : texts[h] # "missing"}
             Off(f, texts) == References[f][texts[f]] \ Serves(d, f, texts[f])
  <2>1. files(now) = files(hashed)
    BY <1>2, <1>5, <1>10, <1>11
  <2>2. \A f \in files(hashed) : Off(f, now) = Off(f, hashed)
    BY <1>2, <1>5
  <2>3. \A texts : Astray(d, texts) = UNION {Off(f, texts) : f \in files(texts)}
    BY DEF Astray
  <2> HIDE DEF files, Off
  <2>4. {Off(f, now) : f \in files(hashed)} = {Off(f, hashed) : f \in files(hashed)}
    BY <2>2
  <2> QED
    BY <2>1, <2>3, <2>4
<1>13. FromTree(d, now) = FromTree(d, hashed)
  BY <1>12 DEF FromTree
<1> QED
  BY <1>10, <1>11, <1>13 DEF p, D, now, hashed

\* The pages of document d of requirement r as the key with these inputs names them.
NamedPages(r, d, inputs) ==
    HtmlPages(d, RuleSeed[r], IF IsLocal(d) THEN local[Entry[d].path] ELSE "pinned",
              IF IsLocal(d)
              THEN [f \in Requested(d, inputs[d]) \ {Entry[d].path} |-> inputs[d][f]]
              ELSE [f \in TreeDependencies(Entry[d].path) |-> "pinned"],
              [f \in {} |-> "pinned"])

LEMMA NamedInOrder ==
    ASSUME NEW r, NEW inputs
    PROVE  NamedBy(Key(r, inputs)) =
               FlattenSeq([i \in DOMAIN Profile[r] |->
                   IF IsOfficial(Profile[r][i]) THEN OfficialRange(Profile[r][i])
                   ELSE NamedPages(r, Profile[r][i], inputs)])
<1> DEFINE k == Key(r, inputs)
           Shown(e) ==
               IF IsOfficial(e.doc) THEN OfficialRange(e.doc)
               ELSE HtmlPages(e.doc, k.seed, e.sha,
                       IF IsLocal(e.doc)
                       THEN [f \in Requested(e.doc, e.inputs) \ {Entry[e.doc].path} |->
                                e.inputs[f]]
                       ELSE [f \in TreeDependencies(Entry[e.doc].path) |-> "pinned"],
                       [f \in {} |-> "pinned"])
           Named(d) == IF IsOfficial(d) THEN OfficialRange(d) ELSE NamedPages(r, d, inputs)
<1>1. /\ k.seed = RuleSeed[r] /\ DOMAIN k.inputs = DOMAIN Profile[r]
      /\ \A i \in DOMAIN Profile[r] :
            k.inputs[i] = InputIdentity(Profile[r][i], RuleSeed[r], inputs)
  BY DEF Key
<1>2. NamedBy(k) = FlattenSeq([i \in DOMAIN k.inputs |-> Shown(k.inputs[i])])
  BY DEF NamedBy
<1> HIDE DEF k
<1>3. ASSUME NEW d, NEW e, e.doc = d,
             e.sha = IF IsLocal(d) THEN local[Entry[d].path] ELSE "pinned",
             IsLocal(d) => e.inputs = inputs[d]
      PROVE  Shown(e) = Named(d)
  <2>1. CASE IsOfficial(d)
    BY <1>3, <2>1
  <2>2. CASE ~IsOfficial(d) /\ IsLocal(d)
    BY <1>1, <1>3, <2>2 DEF NamedPages
  <2>3. CASE ~IsOfficial(d) /\ ~IsLocal(d)
    BY <1>1, <1>3, <2>3 DEF NamedPages
  <2> QED
    BY <2>1, <2>2, <2>3
<1>4. \A d : LET e == InputIdentity(d, RuleSeed[r], inputs) IN
             /\ e.doc = d
             /\ e.sha = IF IsLocal(d) THEN local[Entry[d].path] ELSE "pinned"
             /\ IsLocal(d) => e.inputs = inputs[d]
  BY DEF InputIdentity
<1> HIDE DEF Shown, Named
<1>5. \A d : Shown(InputIdentity(d, RuleSeed[r], inputs)) = Named(d)
  BY <1>3, <1>4
<1>6. [i \in DOMAIN k.inputs |-> Shown(k.inputs[i])] =
      [i \in DOMAIN Profile[r] |-> Named(Profile[r][i])]
  BY <1>1, <1>5
<1>7. NamedBy(k) = FlattenSeq([i \in DOMAIN Profile[r] |-> Named(Profile[r][i])])
  BY <1>2, <1>6
<1> QED
  BY <1>7 DEF k, Named

\* A local document of a confined key takes nothing from the tree.
LEMMA KeepsToItself ==
    ASSUME NEW r, Confined(KeyNow(r)), NEW i \in DOMAIN Profile[r], IsLocal(Profile[r][i])
    PROVE  FromTree(Profile[r][i], Digests(r)[Profile[r][i]]) = {}
<1> DEFINE d == Profile[r][i]
           k == KeyNow(r)
<1>1. i \in DOMAIN k.inputs /\ k.inputs[i] = InputIdentity(d, RuleSeed[r], Digests(r))
  BY DEF KeyNow, Key
<1>2. k.inputs[i].doc = d /\ k.inputs[i].inputs = Digests(r)[d]
  BY <1>1 DEF InputIdentity
<1> HIDE DEF k
<1> QED
  BY <1>1, <1>2 DEF Confined, k

\* What the server has for d when it is printed: its files, and those of the tree that come
\* instead of one of them.
Served(d) ==
    IF IsLocal(d) THEN Read(Requested(d, Read(LocalFiles)) \ {Entry[d].path})
    ELSE [f \in TreeDependencies(Entry[d].path) |-> IF f \in restored THEN "pinned" ELSE "missing"]
Substituted(d) ==
    [f \in IF IsLocal(d) THEN FromTree(d, Read(LocalFiles)) ELSE {} |->
        IF f \in restored THEN "pinned" ELSE "missing"]

\* What is printed for a calm compile is what its key names.
LEMMA PrintedAsNamed ==
    ASSUME NEW r \in DOMAIN Profile, NEW printed, Confined(KeyNow(r)),
           \A d \in ToSet(Profile[r]) : IsPinned(d) => TreeDependencies(Entry[d].path) \subseteq restored,
           \A i \in DOMAIN Profile[r] : ~IsOfficial(Profile[r][i]) => printed[i] =
               HtmlPages(Profile[r][i], RuleSeed[r], Texts(r)[Profile[r][i]],
                         Served(Profile[r][i]), Substituted(Profile[r][i]))
    PROVE  CombineDocuments(Profile[r], printed) = NamedBy(KeyNow(r))
<1> DEFINE profile == Profile[r]
           Named(d) == NamedPages(r, d, Digests(r))
<1>1. profile \in Seq(DOMAIN Entry) /\ \A i \in DOMAIN profile : profile[i] \in ToSet(profile)
  BY DocumentsAssumption DEF ToSet
<1>2. ASSUME NEW d \in ToSet(profile), ~IsOfficial(d)
      PROVE  HtmlPages(d, RuleSeed[r], Texts(r)[d], Served(d), Substituted(d)) = Named(d)
  <2>1. Texts(r)[d] = IF IsLocal(d) THEN local[Entry[d].path] ELSE "pinned"
    BY <1>2 DEF Texts
  <2>2. CASE IsLocal(d)
    <3> DEFINE p == Entry[d].path
               hashed == Read(LocalDependencies(p))
               files == Requested(d, hashed)
    <3>1. Digests(r)[d] = hashed
      BY <1>2, <2>2 DEF Digests
    <3>2. /\ Requested(d, Read(LocalFiles)) = files /\ files \subseteq LocalDependencies(p)
          /\ FromTree(d, Read(LocalFiles)) = FromTree(d, hashed)
      <4>1. d \in DOMAIN Entry
        BY <1>1 DEF ToSet
      <4> QED
        BY <2>2, <4>1, HashedIsEnough
    <3>3. FromTree(d, hashed) = {}
      <4>1. PICK i \in DOMAIN profile : profile[i] = d
        BY <1>2 DEF ToSet
      <4> HIDE DEF hashed
      <4>2. FromTree(profile[i], Digests(r)[profile[i]]) = {}
        BY <2>2, <4>1, KeepsToItself
      <4> QED
        BY <3>1, <4>1, <4>2
    <3>4. Substituted(d) = [f \in {} |-> "pinned"]
      BY <2>2, <3>2, <3>3 DEF Substituted
    <3>5. Read(files \ {p}) = [f \in files \ {p} |-> hashed[f]]
      BY <3>2 DEF Read
    <3>6. Served(d) = Read(files \ {p})
      BY <2>2, <3>2 DEF Served
    <3> HIDE DEF files, hashed
    <3>7. Served(d) = [f \in Requested(d, Digests(r)[d]) \ {p} |-> Digests(r)[d][f]]
      BY <3>1, <3>5, <3>6 DEF files
    <3> QED
      BY <2>1, <2>2, <3>4, <3>7 DEF NamedPages
  <2>3. CASE ~IsLocal(d)
    <3>1. d \in DOMAIN Entry
      BY <1>1 DEF ToSet
    <3>2. IsPinned(d)
      BY <1>2, <2>3, <3>1, DocumentsAssumption DEF IsOfficial, IsLocal, IsPinned
    <3>3. TreeDependencies(Entry[d].path) \subseteq restored
      BY <3>2
    <3>4. Served(d) = [f \in TreeDependencies(Entry[d].path) |-> "pinned"]
      BY <2>3, <3>3 DEF Served
    <3>5. Substituted(d) = [f \in {} |-> "pinned"]
      BY <2>3 DEF Substituted
    <3> QED
      BY <2>1, <2>3, <3>4, <3>5 DEF NamedPages
  <2> QED
    BY <2>2, <2>3
<1> HIDE DEF Named
<1>3. ASSUME NEW i \in DOMAIN profile, ~IsOfficial(profile[i])
      PROVE  printed[i] = Named(profile[i])
  BY <1>1, <1>2, <1>3
<1> DEFINE E == UNION {ToSet(Named(d)) : d \in ToSet(profile)}
<1>4. ASSUME NEW i \in DOMAIN profile, ~IsOfficial(profile[i])
      PROVE  printed[i] \in Seq(E)
  <2> DEFINE d == profile[i]
             text == Texts(r)[d]
  <2>1. d \in ToSet(profile) /\ d \in DOMAIN Entry
    BY <1>1
  <2>2. Entry[d].pages \in Nat
    BY <1>4, <2>1, DocumentsAssumption DEF IsOfficial
  <2>3. printed[i] = HtmlPages(d, RuleSeed[r], text, Served(d), Substituted(d))
    BY <1>4
  <2> HIDE DEF d, text
  <2>4. PICK n \in Nat : DOMAIN printed[i] = 1..n
                         /\ printed[i] = [x \in 1..n |-> printed[i][x]]
    BY <2>2, <2>3 DEF HtmlPages
  <2>5. \A x \in 1..n : printed[i][x] \in ToSet(printed[i])
    BY <2>4 DEF ToSet
  <2>6. printed[i] \in Seq(ToSet(printed[i]))
    BY <2>4, <2>5
  <2>7. ToSet(printed[i]) \subseteq E
    BY <1>3, <1>4, <2>1 DEF d
  <2> QED
    BY <2>6, <2>7
<1> HIDE DEF E
<1>5. CombineDocuments(profile, printed) =
          FlattenSeq([i \in DOMAIN profile |->
              IF IsOfficial(profile[i]) THEN OfficialRange(profile[i]) ELSE printed[i]])
  BY <1>1, <1>4, CombinedInOrder
<1>6. [i \in DOMAIN profile |->
          IF IsOfficial(profile[i]) THEN OfficialRange(profile[i]) ELSE printed[i]] =
      [i \in DOMAIN profile |->
          IF IsOfficial(profile[i]) THEN OfficialRange(profile[i]) ELSE Named(profile[i])]
  BY <1>3
<1> QED
  BY <1>5, <1>6, NamedInOrder DEF KeyNow, Named

LEMMA PrintPagesSound ==
    ASSUME Shape, NEW c \in Compilers, SoundAt(c), PrintPages(c)
    PROVE  Own(c)
<1> DEFINE r == Requirement(c)
           printed == [i \in {j \in DOMAIN Profile[r] : ~IsOfficial(Profile[r][j])} |->
                          HtmlPages(Profile[r][i], RuleSeed[r], proc[c].taken[Profile[r][i]],
                                    Served(Profile[r][i]), Substituted(Profile[r][i]))]
<1>1. Quiet /\ proc[c].at = "print"
  BY DEF PrintPages, Quiet, sources, At
<1>2. CASE Fail(c)
  BY <1>1, <1>2, FailFails, FailedIsSound DEF Own, Fails, Processes
<1>3. CASE ~Fail(c)
  <2>1. proc' = [proc EXCEPT ![c].at = "publish", ![c].taken = <<>>,
                             ![c].pages = CombineDocuments(Profile[r], printed)]
    BY <1>3 DEF PrintPages, Served, Substituted
  <2>2. r \in Wanted(c) /\ r \in DOMAIN Profile /\ r \in ToSet(Asked[c])
    BY <1>1, AtHand, WantedOnes DEF Building, Keyed, Processes
  <2>3. ToSet(Profile[r]) \subseteq Documents(c)
    BY <2>2 DEF Documents
  <2>4. Calm(c) /\ Confined(KeyNow(r)) => CombineDocuments(Profile[r], printed) = NamedBy(KeyNow(r))
    <3>1. SUFFICES ASSUME Calm(c), Confined(KeyNow(r))
                   PROVE  CombineDocuments(Profile[r], printed) = NamedBy(KeyNow(r))
      OBVIOUS
    <3>2. proc[c].taken = Texts(r)
      BY <1>1, <2>2, <3>1 DEF SoundAt, BuiltAt, At
    <3>3. \A d \in ToSet(Profile[r]) :
              IsPinned(d) => TreeDependencies(Entry[d].path) \subseteq restored
      BY <1>1, <2>3, <3>1 DEF SoundAt, TreeAt, Building, Keyed
    <3>4. \A i \in DOMAIN Profile[r] : ~IsOfficial(Profile[r][i]) => printed[i] =
              HtmlPages(Profile[r][i], RuleSeed[r], Texts(r)[Profile[r][i]],
                        Served(Profile[r][i]), Substituted(Profile[r][i]))
      BY <3>2
    <3> HIDE DEF printed, r
    <3> QED
      BY <2>2, <3>1, <3>3, <3>4, PrintedAsNamed
  <2> HIDE DEF printed
  <2>5. /\ Touches(c) /\ proc'[c].at = "publish" /\ proc'[c].inputs = proc[c].inputs
        /\ proc'[c].key = proc[c].key /\ proc'[c].pages = CombineDocuments(Profile[r], printed)
        /\ proc'[c].goal = proc[c].goal /\ proc'[c].todo = proc[c].todo
        /\ proc'[c].calm = proc[c].calm
    BY <2>1 DEF Shape, Touches, Fields, Processes
  <2>6. Calm(c)' => Calm(c)
    BY <1>1, <2>5 DEF Calm, UnderWay, Ended, At
  <2>7. FreshAt(c)' /\ RestoringAt(c)'
    BY <2>5 DEF SoundAt, FreshAt, RestoringAt, At
  <2>8. AgendaAt(c)'
    BY <1>1, <2>5 DEF SoundAt, AgendaAt, Resolving, Building, Keyed
  <2>9. TreeAt(c)'
    BY <1>1, <2>5, <2>6 DEF SoundAt, TreeAt, Quiet, Building, Keyed
  <2>10. DigestsAt(c)'
    BY <1>1, <2>5, <2>6, SameTexts DEF SoundAt, DigestsAt, At, Quiet
  <2>11. KeyAt(c)'
    BY <1>1, <2>5, <2>6, SameTexts DEF SoundAt, KeyAt, Quiet, Keyed, Requirement
  <2>12. BuiltAt(c)'
    <3>1. Calm(c) => proc[c].key = KeyNow(r)
      BY <1>1, <2>2 DEF SoundAt, KeyAt, Keyed
    <3>2. Calm(c) => \A k : k = proc[c].key /\ Confined(k) => proc'[c].pages = NamedBy(k)
      BY <2>4, <2>5, <3>1
    <3>3. \A k : NamedBy(k)' = NamedBy(k) /\ (Confined(k)' <=> Confined(k))
      BY DEF NamedBy, Confined
    <3> QED
      BY <2>5, <2>6, <3>2, <3>3 DEF BuiltAt, At
  <2> QED
    BY <1>1, <2>5, <2>7, <2>8, <2>9, <2>10, <2>11, <2>12 DEF Own, SoundAt
<1> QED
  BY <1>2, <1>3

---------------------------------------------------------------------------
(* Steps that touch others *)

LEMMA ResetAndCloneSound ==
    ASSUME Shape, NEW c \in Compilers, ResetAndClone(c), NEW d \in Compilers, SoundAt(d)
    PROVE  SoundAt(d)'
<1>1. /\ local' = local
      /\ proc' = [p \in Processes |->
                    IF p = c THEN [proc[p] EXCEPT !.at = "cloning",
                                                  !.calm = @ /\ proc[p].goal = "documents"]
                    ELSE IF At(p, "cloning") THEN [Idle EXCEPT !.at = "failed"]
                    ELSE [proc[p] EXCEPT !.calm = ~UnderWay(p)]]
  BY DEF ResetAndClone
<1>2. d \in Processes /\ DOMAIN proc[d] = Fields
  BY DEF Shape, Processes
<1>3. CASE d = c
  <2>1. At(d, "reset")
    BY <1>3 DEF ResetAndClone
  <2>2. /\ proc'[d].at = "cloning" /\ proc'[d].goal = proc[d].goal
        /\ proc'[d].inputs = proc[d].inputs
        /\ proc'[d].calm = (proc[d].calm /\ proc[d].goal = "documents")
    BY <1>1, <1>2, <1>3 DEF Fields
  <2>3. Calm(d)' => Calm(d) /\ proc[d].goal = "documents"
    BY <2>1, <2>2 DEF Calm, UnderWay, Ended, At
  <2>4. FreshAt(d)' /\ AgendaAt(d)' /\ RestoringAt(d)' /\ KeyAt(d)' /\ BuiltAt(d)'
    BY <2>2 DEF SoundAt, FreshAt, AgendaAt, RestoringAt, KeyAt, BuiltAt, At, Resolving,
                Building, Keyed
  <2>5. TreeAt(d)'
    BY <2>2, <2>3 DEF TreeAt, Resolving, Building, Keyed
  <2>6. DigestsAt(d)'
    <3>1. ~At(d, "hash")'
      BY <2>2 DEF At
    <3>2. ASSUME Calm(d)', NEW q \in DOMAIN proc'[d].inputs
          PROVE  proc'[d].inputs[q] = Digests(q)'
      <4>1. q \in DOMAIN proc[d].inputs /\ proc'[d].inputs[q] = proc[d].inputs[q]
        BY <2>2, <3>2
      <4>2. proc[d].inputs[q] = Digests(q)
        BY <2>3, <3>2, <4>1 DEF SoundAt, DigestsAt
      <4>3. Digests(q)' = Digests(q)
        BY <1>1, SameTexts
      <4> QED
        BY <4>1, <4>2, <4>3
    <3> QED
      BY <3>1, <3>2 DEF DigestsAt
  <2> QED
    BY <2>4, <2>5, <2>6 DEF SoundAt
<1>4. CASE d # c /\ At(d, "cloning")
  <2>1. proc'[d].at = "failed" /\ proc'[d].goal = "documents"
    BY <1>1, <1>2, <1>4 DEF Idle
  <2> QED
    BY <2>1, EndedIsSound
<1>5. CASE d # c /\ ~At(d, "cloning")
  <2>1. /\ proc'[d].at = proc[d].at /\ proc'[d].goal = proc[d].goal
        /\ proc'[d].todo = proc[d].todo /\ proc'[d].inputs = proc[d].inputs
        /\ proc'[d].calm = ~UnderWay(d)
    BY <1>1, <1>2, <1>5 DEF Fields
  <2>2. ~Calm(d)'
    BY <2>1 DEF Calm, UnderWay, Ended, At
  <2>3. FreshAt(d)' /\ AgendaAt(d)'
    BY <2>1 DEF SoundAt, FreshAt, AgendaAt, At
  <2>4. RestoringAt(d)' /\ TreeAt(d)' /\ DigestsAt(d)' /\ KeyAt(d)' /\ BuiltAt(d)'
    BY <2>2 DEF RestoringAt, TreeAt, DigestsAt, KeyAt, BuiltAt
  <2> QED
    BY <2>3, <2>4 DEF SoundAt
<1> QED
  BY <1>3, <1>4, <1>5

LEMMA EditSound ==
    ASSUME Shape, NEW f \in LocalFiles, Edit(f), NEW d \in Compilers, SoundAt(d)
    PROVE  SoundAt(d)'
<1>1. /\ restored' = restored
      /\ proc' = [p \in Processes |->
                     IF At(p, "hash") \/ proc[p].inputs # <<>>
                     THEN [proc[p] EXCEPT !.calm = FALSE] ELSE proc[p]]
  BY DEF Edit
<1>2. d \in Processes /\ DOMAIN proc[d] = Fields
  BY DEF Shape, Processes
<1>3. /\ proc'[d].at = proc[d].at /\ proc'[d].goal = proc[d].goal
      /\ proc'[d].todo = proc[d].todo /\ proc'[d].inputs = proc[d].inputs
      /\ proc'[d].seen = proc[d].seen /\ proc'[d].pending = proc[d].pending
  BY <1>1, <1>2 DEF Fields
<1>4. FreshAt(d)' /\ AgendaAt(d)'
  BY <1>3 DEF SoundAt, FreshAt, AgendaAt, At
<1>5. CASE At(d, "hash") \/ proc[d].inputs # <<>>
  <2>1. proc'[d].calm = FALSE
    BY <1>1, <1>2, <1>5 DEF Fields
  <2>2. ~Calm(d)'
    BY <2>1 DEF Calm
  <2>3. RestoringAt(d)' /\ TreeAt(d)' /\ DigestsAt(d)' /\ KeyAt(d)' /\ BuiltAt(d)'
    BY <2>2 DEF RestoringAt, TreeAt, DigestsAt, KeyAt, BuiltAt
  <2> QED
    BY <1>4, <2>3 DEF SoundAt
<1>6. CASE ~At(d, "hash") /\ proc[d].inputs = <<>>
  <2>1. proc'[d].calm = proc[d].calm
    BY <1>1, <1>2, <1>6
  <2>2. Calm(d)' => Calm(d)
    BY <1>3, <2>1 DEF Calm, UnderWay, Ended, At
  <2>3. proc[d].at \notin Building
    <3>1. SUFFICES ASSUME proc[d].at \in Building
                   PROVE  FALSE
      OBVIOUS
    <3>2. Wanted(d) \subseteq DOMAIN proc[d].inputs /\ Requirement(d) \in Wanted(d)
      BY <3>1, AtHand DEF SoundAt, AgendaAt
    <3> QED
      BY <1>6, <3>2
  <2>4. RestoringAt(d)' /\ TreeAt(d)'
    BY <1>1, <1>3, <2>2 DEF SoundAt, RestoringAt, TreeAt, At
  <2>5. DigestsAt(d)'
    BY <1>3, <1>6 DEF DigestsAt, At
  <2>6. KeyAt(d)' /\ BuiltAt(d)'
    BY <1>3, <2>3 DEF KeyAt, BuiltAt, At, Building, Keyed
  <2> QED
    BY <1>4, <2>4, <2>5, <2>6 DEF SoundAt
<1> QED
  BY <1>5, <1>6

---------------------------------------------------------------------------
(* The directories *)

\* k loads as it did before the step.
Stays(k) ==
    /\ Loads(k)
    /\ artifacts'[k].pages = artifacts[k].pages /\ artifacts'[k].calm = artifacts[k].calm
    /\ artifacts'[k].rivals = artifacts[k].rivals
\* k is new, built by c.
Published(c, k) ==
    /\ Publish(c) /\ k = proc[c].key /\ k \notin DOMAIN artifacts
    /\ artifacts'[k].pages = proc[c].pages /\ artifacts'[k].calm = proc[c].calm
    /\ artifacts'[k].rivals = {d \in Compilers \ {c} : UnderWay(d)}
\* k is taken away.
TakenAway(k) ==
    /\ artifacts' = [artifacts EXCEPT ![k].whole = FALSE] /\ k \in DOMAIN artifacts

\* A step that touches the directories takes one away, removes one that does not load,
\* or publishes one.
LEMMA DirectorySteps ==
    ASSUME [Next]_vars, artifacts' # artifacts
    PROVE  \/ \E c \in Compilers : RemoveIncomplete(c) /\ TakenAway(proc[c].key)
           \/ \E c \in Compilers :
                 /\ RemoveDirectory(c) /\ ~Loads(proc[c].key)
                 /\ artifacts' = Restrict(artifacts, DOMAIN artifacts \ {proc[c].key})
           \/ \E c \in Compilers : Publish(c)
           \/ \E k \in DOMAIN artifacts : Damage(k) /\ TakenAway(k)
<1>1. CASE UNCHANGED vars
  BY <1>1 DEF vars
<1>2. ASSUME NEW c \in Compilers,
             Plan(c) \/ LookForClone(c) \/ ResetAndClone(c) \/ EndClone(c) \/ FetchCommit(c)
             \/ RestoreBatch(c) \/ DownloadOfficial(c) \/ FlattenFrames(c) \/ PrintPages(c)
             \/ LoadCompiled(c) \/ Break(c)
      PROVE  artifacts' = artifacts
  BY <1>2 DEF Plan, LookForClone, ResetAndClone, EndClone, FetchCommit, RestoreBatch,
       DownloadOfficial, FlattenFrames, PrintPages, LoadCompiled, Break
<1>3. ASSUME NEW c \in Processes,
             FollowReferences(c) \/ HashInputs(c) \/ Identify(c) \/ Look(c)
      PROVE  artifacts' = artifacts
  BY <1>3 DEF FollowReferences, HashInputs, Identify, Look
<1>4. ASSUME StartCheck \/ (\E k \in DOMAIN artifacts : PlayerLoads(k))
             \/ (\E f \in LocalFiles : Edit(f))
      PROVE  artifacts' = artifacts
  BY <1>4 DEF StartCheck, PlayerLoads, Edit
<1>5. ASSUME NEW c \in Compilers, RemoveIncomplete(c)
      PROVE  artifacts' # artifacts => TakenAway(proc[c].key)
  BY <1>5 DEF RemoveIncomplete, TakenAway
<1>6. ASSUME NEW c \in Compilers, RemoveDirectory(c)
      PROVE  artifacts' # artifacts =>
                 /\ ~Loads(proc[c].key)
                 /\ artifacts' = Restrict(artifacts, DOMAIN artifacts \ {proc[c].key})
  BY <1>6 DEF RemoveDirectory, Loads
<1>7. ASSUME NEW k \in DOMAIN artifacts, Damage(k)
      PROVE  TakenAway(k)
  BY <1>7 DEF Damage, TakenAway, Loads
<1> QED
  BY <1>1, <1>2, <1>3, <1>4, <1>5, <1>6, <1>7 DEF Next

LEMMA TakenAwayKeepsOthers ==
    ASSUME Directories, NEW k, TakenAway(k)
    PROVE  /\ Directories' /\ ~Loads(k)'
           /\ \A x : Loads(x)' => Stays(x)
           /\ \A x : x # k /\ Loads(x) => Loads(x)'
<1>1. /\ DOMAIN artifacts' = DOMAIN artifacts
      /\ \A x \in DOMAIN artifacts : x # k => artifacts'[x] = artifacts[x]
      /\ artifacts'[k] = [artifacts[k] EXCEPT !.whole = FALSE]
  BY DEF TakenAway
<1>2. artifacts'[k].whole = FALSE /\ DOMAIN artifacts'[k] = DOMAIN artifacts[k]
  BY <1>1 DEF Directories, TakenAway
<1>3. ~Loads(k)'
  BY <1>2 DEF Loads
<1>4. Directories'
  BY <1>1, <1>2 DEF Directories
<1> QED
  BY <1>1, <1>3, <1>4 DEF Loads, Stays

LEMMA PublishAdds ==
    ASSUME Directories, NEW c \in Compilers, Publish(c)
    PROVE  /\ Directories'
           /\ \A x : Loads(x)' => Stays(x) \/ Published(c, x)
           /\ \A x : Loads(x) => Loads(x)'
<1> DEFINE new == [whole |-> TRUE, pages |-> proc[c].pages, calm |-> proc[c].calm,
                   rivals |-> {d \in Compilers \ {c} : UnderWay(d)}]
           key == proc[c].key
<1>1. artifacts' = artifacts ++ [k \in {key} |-> new]
  BY DEF Publish
<1>2. /\ DOMAIN new = {"whole", "pages", "calm", "rivals"} /\ new.pages = proc[c].pages
      /\ new.calm = proc[c].calm /\ new.rivals = {d \in Compilers \ {c} : UnderWay(d)}
  OBVIOUS
<1> HIDE DEF new, key
<1>3. /\ DOMAIN artifacts' = DOMAIN artifacts \union {key}
      /\ \A x \in DOMAIN artifacts : artifacts'[x] = artifacts[x]
      /\ key \notin DOMAIN artifacts => artifacts'[key] = new
  BY <1>1 DEF ++
<1>4. Directories'
  BY <1>2, <1>3 DEF Directories
<1>5. ASSUME NEW x, Loads(x)'
      PROVE  Stays(x) \/ Published(c, x)
  <2>1. CASE x \in DOMAIN artifacts
    BY <1>3, <1>5, <2>1 DEF Loads, Stays
  <2>2. CASE x \notin DOMAIN artifacts
    <3>1. x = key /\ artifacts'[x] = new
      BY <1>3, <1>5, <2>2 DEF Loads
    <3> QED
      BY <1>2, <2>2, <3>1 DEF Published, key
  <2> QED
    BY <2>1, <2>2
<1>6. \A x : Loads(x) => Loads(x)'
  BY <1>3 DEF Loads
<1> QED
  BY <1>4, <1>5, <1>6

\* What loads after a step did before or was published by it, and what does not any
\* more was taken away.
LEMMA WhatLoads ==
    ASSUME Directories, [Next]_vars
    PROVE  /\ Directories'
           /\ \A k : Loads(k)' => Stays(k) \/ \E c \in Compilers : Published(c, k)
           /\ \A k : Loads(k) => \/ Loads(k)'
                                 \/ \E c \in Compilers : RemoveIncomplete(c) /\ k = proc[c].key
                                 \/ Damage(k)
<1>1. CASE artifacts' = artifacts
  BY <1>1 DEF Directories, Loads, Stays
<1>2. ASSUME NEW c \in Compilers, RemoveIncomplete(c), TakenAway(proc[c].key)
      PROVE  /\ Directories' /\ \A k : Loads(k)' => Stays(k)
             /\ \A k : Loads(k) => Loads(k)' \/ k = proc[c].key
  BY <1>2, TakenAwayKeepsOthers
<1>3. ASSUME NEW c \in Compilers, ~Loads(proc[c].key),
             artifacts' = Restrict(artifacts, DOMAIN artifacts \ {proc[c].key})
      PROVE  /\ Directories' /\ \A k : Loads(k)' => Stays(k)
             /\ \A k : Loads(k) => Loads(k)'
  <2>1. /\ DOMAIN artifacts' = DOMAIN artifacts \ {proc[c].key}
        /\ \A k \in DOMAIN artifacts' : artifacts'[k] = artifacts[k]
    BY <1>3 DEF Restrict
  <2> QED
    BY <1>3, <2>1 DEF Directories, Loads, Stays
<1>4. ASSUME NEW c \in Compilers, Publish(c)
      PROVE  /\ Directories'
             /\ \A k : Loads(k)' => Stays(k) \/ Published(c, k)
             /\ \A k : Loads(k) => Loads(k)'
  BY <1>4, PublishAdds
<1>5. ASSUME NEW x \in DOMAIN artifacts, Damage(x), TakenAway(x)
      PROVE  /\ Directories' /\ \A k : Loads(k)' => Stays(k)
             /\ \A k : Loads(k) => Loads(k)' \/ k = x
  BY <1>5, TakenAwayKeepsOthers
<1> QED
  BY <1>1, <1>2, <1>3, <1>4, <1>5, DirectorySteps

---------------------------------------------------------------------------
(* Every step keeps them sound *)

\* A step of one command that leaves the sources alone.
LEMMA TouchesOnly ==
    ASSUME Shape, Sound, NEW c \in Processes, Touches(c), Quiet, c \in Compilers => SoundAt(c)'
    PROVE  Shape' /\ Sound'
<1>1. ASSUME NEW d \in Compilers, d # c
      PROVE  SoundAt(d)'
  <2>1. SoundAt(d) /\ proc'[d] = proc[d]
    BY <1>1 DEF Sound, Touches, Processes
  <2> QED
    BY <2>1, OthersStaySound
<1>2. Shape'
  BY DEF Touches, Shape
<1> QED
  BY <1>1, <1>2 DEF Sound

LEMMA ResetAndCloneResets ==
    ASSUME Shape, NEW c \in Processes, ResetAndClone(c)
    PROVE  /\ Shape'
           /\ \A d \in Processes : \/ proc'[d].at = "failed" /\ d # c /\ proc'[d].ready = {}
                                   \/ /\ proc'[d].ready = proc[d].ready
                                      /\ proc'[d].pages = proc[d].pages
                                      /\ proc'[d].key = proc[d].key
                                      /\ proc'[d].at = IF d = c THEN "cloning" ELSE proc[d].at
BY DEF Shape, ResetAndClone, Idle, Fields, At

LEMMA EditLeaves ==
    ASSUME Shape, NEW f \in LocalFiles, Edit(f)
    PROVE  /\ Shape'
           /\ \A d \in Processes : /\ proc'[d].ready = proc[d].ready
                                   /\ proc'[d].pages = proc[d].pages
                                   /\ proc'[d].key = proc[d].key
                                   /\ proc'[d].at = proc[d].at
BY DEF Shape, Edit, Fields

LEMMA StartCheckStarts ==
    ASSUME Shape, StartCheck
    PROVE  /\ Touches(Doctor) /\ Quiet /\ proc'[Doctor].at = "resolve"
           /\ proc'[Doctor].ready = proc[Doctor].ready
           /\ proc'[Doctor].pages = proc[Doctor].pages
BY DEF Shape, StartCheck, Touches, Quiet, Fields, Processes, sources, At

LEMMA LookMoves ==
    ASSUME Shape, NEW c \in Processes, Look(c)
    PROVE  /\ Quiet /\ artifacts' = artifacts
           /\ \/ Fails(c) /\ excused' = excused
              \/ Moves(c, "remove") /\ excused' = excused /\ c # Doctor /\ ~Loads(proc[c].key)
              \/ Finish(c) /\ Touches(c) /\ Loads(proc[c].key)
<1>1. Quiet /\ artifacts' = artifacts
  BY DEF Look, Quiet, sources
<1>2. CASE Loads(proc[c].key)
  <2>1. Finish(c)
    BY <1>2 DEF Look
  <2> QED
    BY <1>1, <1>2, <2>1, FinishMoves
<1>3. CASE ~Loads(proc[c].key)
  <2>1. excused' = excused
    BY <1>3 DEF Look
  <2>2. CASE c = Doctor
    BY <1>1, <1>3, <2>1, <2>2, FailFails DEF Look
  <2>3. CASE c # Doctor
    BY <1>1, <1>3, <2>1, <2>3, GoToMoves DEF Look
  <2> QED
    BY <2>2, <2>3
<1> QED
  BY <1>2, <1>3

LEMMA SoundStep ==
    ASSUME Shape, Sound, [Next]_vars
    PROVE  Shape' /\ Sound'
<1>1. CASE UNCHANGED vars
  <2>1. Shape' /\ Quiet
    BY <1>1 DEF vars, Shape, Quiet
  <2>2. ASSUME NEW d \in Compilers
        PROVE  SoundAt(d)'
    <3>1. SoundAt(d) /\ proc'[d] = proc[d]
      BY <1>1 DEF vars, Sound
    <3> QED
      BY <2>1, <3>1, OthersStaySound
  <2> QED
    BY <2>1, <2>2 DEF Sound
<1>2. ASSUME NEW c \in Compilers,
             \/ Plan(c) \/ LookForClone(c) \/ EndClone(c) \/ FetchCommit(c)
             \/ RestoreBatch(c) \/ DownloadOfficial(c)
             \/ RemoveIncomplete(c) \/ RemoveDirectory(c) \/ FlattenFrames(c) \/ PrintPages(c)
             \/ Publish(c) \/ LoadCompiled(c) \/ Break(c)
             \/ FollowReferences(c) \/ HashInputs(c) \/ Identify(c) \/ Look(c)
      PROVE  Shape' /\ Sound'
  <2>1. SoundAt(c) /\ c \in Processes
    BY DEF Sound, Processes
  <2>2. Own(c)
    BY <1>2, <2>1, PlanSound, LookForCloneSound, EndCloneSound, FetchCommitSound,
       RestoreBatchSound, DownloadOfficialSound, RemovingSound, FlattenFramesSound,
       PrintPagesSound, PublishSound, LoadCompiledSound, BreakSound, FollowReferencesSound,
       HashInputsSound, IdentifySound, LookSound
  <2> QED
    BY <2>1, <2>2, TouchesOnly DEF Own
<1>3. ASSUME NEW c \in Compilers, ResetAndClone(c)
      PROVE  Shape' /\ Sound'
  <2>1. Shape'
    BY <1>3, ResetAndCloneResets DEF Processes
  <2>2. ASSUME NEW d \in Compilers
        PROVE  SoundAt(d)'
    <3>1. SoundAt(d)
      BY DEF Sound
    <3> QED
      BY <1>3, <3>1, ResetAndCloneSound
  <2> QED
    BY <2>1, <2>2 DEF Sound
<1>4. ASSUME FollowReferences(Doctor) \/ HashInputs(Doctor) \/ Identify(Doctor) \/ Look(Doctor)
             \/ StartCheck
      PROVE  Shape' /\ Sound'
  <2>1. Doctor \in Processes /\ Doctor \notin Compilers
    BY CommandsAssumption DEF Processes
  <2>2. Touches(Doctor) /\ Quiet
    BY <1>4, <2>1, FollowReferencesMoves, HashInputsMoves, IdentifyMoves, LookMoves,
       StartCheckStarts DEF Fails, Moves
  <2> QED
    BY <2>1, <2>2, TouchesOnly
<1>5. ASSUME NEW k, PlayerLoads(k) \/ Damage(k)
      PROVE  Shape' /\ Sound'
  <2>1. Shape' /\ Quiet
    BY <1>5 DEF PlayerLoads, Damage, sources, Shape, Quiet
  <2>2. ASSUME NEW d \in Compilers
        PROVE  SoundAt(d)'
    <3>1. SoundAt(d) /\ proc'[d] = proc[d]
      BY <1>5 DEF PlayerLoads, Damage, Sound
    <3> QED
      BY <2>1, <3>1, OthersStaySound
  <2> QED
    BY <2>1, <2>2 DEF Sound
<1>6. ASSUME NEW f \in LocalFiles, Edit(f)
      PROVE  Shape' /\ Sound'
  <2>1. Shape'
    BY <1>6, EditLeaves
  <2>2. ASSUME NEW d \in Compilers
        PROVE  SoundAt(d)'
    <3>1. SoundAt(d)
      BY DEF Sound
    <3> QED
      BY <1>6, <3>1, EditSound
  <2> QED
    BY <2>1, <2>2 DEF Sound
<1> QED
  BY <1>1, <1>2, <1>3, <1>4, <1>5, <1>6 DEF Next, Processes

---------------------------------------------------------------------------
(* Keys tell the content *)

LEMMA InitStore == Init => StoreInv
<1> SUFFICES ASSUME Init
             PROVE  StoreInv
  OBVIOUS
<1>1. DOMAIN proc = Processes /\ \A c \in Processes : proc[c] = Idle
  BY DEF Init
<1>2. Shape
  BY <1>1 DEF Shape, Idle, Fields
<1>3. DOMAIN artifacts = {}
  BY DEF Init
<1>4. Directories /\ KeyTellsContent
  BY <1>3 DEF Directories, KeyTellsContent
<1>5. ASSUME NEW c \in Compilers
      PROVE  SoundAt(c)
  <2>1. /\ proc[c].at = "start" /\ proc[c].goal = "documents" /\ proc[c].inputs = <<>>
        /\ ~Calm(c)
    BY <1>1 DEF Idle, Processes, Calm, UnderWay
  <2>2. FreshAt(c) /\ AgendaAt(c)
    BY <2>1 DEF FreshAt, AgendaAt, Resolving, Building, Keyed
  <2>3. RestoringAt(c) /\ TreeAt(c) /\ DigestsAt(c) /\ KeyAt(c) /\ BuiltAt(c)
    BY <2>1 DEF RestoringAt, TreeAt, DigestsAt, KeyAt, BuiltAt
  <2> QED
    BY <2>2, <2>3 DEF SoundAt
<1> QED
  BY <1>2, <1>4, <1>5 DEF StoreInv, Sound

LEMMA StoreStep == StoreInv /\ [Next]_vars => StoreInv'
<1> SUFFICES ASSUME StoreInv, [Next]_vars
             PROVE  StoreInv'
  OBVIOUS
<1>1. Shape' /\ Sound' /\ Directories'
  BY SoundStep, WhatLoads DEF StoreInv
<1>2. ASSUME NEW k, Loads(k)', artifacts'[k].calm, Confined(k)
      PROVE  artifacts'[k].pages = NamedBy(k)
  <2>1. CASE Stays(k)
    BY <1>2, <2>1 DEF Stays, Loads, StoreInv, KeyTellsContent
  <2>2. ASSUME NEW c \in Compilers, Published(c, k)
        PROVE  artifacts'[k].pages = NamedBy(k)
    <3>1. At(c, "publish") /\ k = proc[c].key /\ artifacts'[k].pages = proc[c].pages
      BY <2>2 DEF Published, Publish
    <3>2. Calm(c)
      BY <1>2, <2>2, <3>1 DEF Published, Calm, UnderWay, Ended, At
    <3>3. BuiltAt(c)
      BY DEF StoreInv, Sound, SoundAt
    <3> QED
      BY <1>2, <3>1, <3>2, <3>3 DEF BuiltAt
  <2> QED
    BY <1>2, <2>1, <2>2, WhatLoads DEF StoreInv
<1>3. \A k : NamedBy(k)' = NamedBy(k) /\ (Confined(k)' <=> Confined(k))
  BY DEF NamedBy, Confined
<1>4. KeyTellsContent'
  BY <1>2, <1>3 DEF KeyTellsContent
<1> QED
  BY <1>1, <1>4 DEF StoreInv

\* Whatever overlaps, fails or is edited: a directory that loads shows what its key
\* names, unless a source was edited or the clone reset under its build, or one of its
\* local documents took a file from the tree.
THEOREM KeysTell == Spec => []KeyTellsContent
<1>1. StoreInv => KeyTellsContent
  BY DEF StoreInv
<1> QED
  BY <1>1, InitStore, StoreStep, PTL DEF Spec

---------------------------------------------------------------------------
(* What was seen ready *)

\* d sees nothing new; it turns to removing only what does not load.
Keeps(d) ==
    /\ proc'[d].ready \subseteq proc[d].ready
    /\ d = Doctor => \/ proc'[d].at = "failed"
                     \/ /\ proc[d].at # "failed"
                        /\ proc'[d].ready = proc[d].ready /\ proc'[d].pages = proc[d].pages
    /\ d # Doctor /\ proc'[d].at = "remove" =>
          /\ proc'[d].key = proc[d].key
          /\ At(d, "remove") \/ (~Loads(proc[d].key) /\ artifacts' = artifacts)
\* c sees that the directory at hand loads.
Sees(c) ==
    /\ Touches(c) /\ Finish(c) /\ Loads(proc[c].key) /\ artifacts' = artifacts
    /\ proc'[c].at # "remove" /\ proc[c].at # "failed"

LEMMA OthersKeep ==
    ASSUME NEW c \in Processes, Touches(c), Keeps(c)
    PROVE  \A d \in Processes : Keeps(d)
<1>1. ASSUME NEW d \in Processes, d # c
      PROVE  Keeps(d)
  <2>1. proc'[d] = proc[d]
    BY <1>1 DEF Touches
  <2> QED
    BY <2>1 DEF Keeps, At
<1> QED
  BY <1>1

LEMMA CompilersKeep ==
    ASSUME Shape, NEW c \in Compilers,
           \/ Plan(c) \/ LookForClone(c) \/ EndClone(c) \/ FetchCommit(c)
           \/ RestoreBatch(c) \/ DownloadOfficial(c) \/ RemoveIncomplete(c)
           \/ RemoveDirectory(c) \/ FlattenFrames(c) \/ PrintPages(c) \/ Publish(c)
           \/ Break(c)
    PROVE  excused \subseteq excused' /\ \A d \in Processes : Keeps(d)
<1>1. c \in Processes /\ c # Doctor
  BY CommandsAssumption DEF Processes
<1>2. excused \subseteq excused'
  BY DEF Plan, LookForClone, EndClone, FetchCommit, RestoreBatch, DownloadOfficial,
     RemoveIncomplete, RemoveDirectory, FlattenFrames, PrintPages, Publish, Break
<1>3. ASSUME Fail(c)
      PROVE  Touches(c) /\ Keeps(c)
  <2>1. Fails(c)
    BY <1>1, <1>3, FailFails
  <2> QED
    BY <1>1, <2>1 DEF Fails, Keeps
<1>4. ASSUME NEW step, GoTo(c, step), step # "remove"
      PROVE  Touches(c) /\ Keeps(c)
  <2>1. Moves(c, step)
    BY <1>1, <1>4, GoToMoves
  <2> QED
    BY <1>1, <1>4, <2>1 DEF Moves, Recalls, Keeps
<1>5. CASE \/ Plan(c) \/ LookForClone(c) \/ EndClone(c) \/ RemoveIncomplete(c)
           \/ RemoveDirectory(c) \/ Publish(c) \/ Break(c)
  <2>1. Touches(c) /\ Keeps(c)
    BY <1>3, <1>4, <1>5 DEF Plan, LookForClone, EndClone, RemoveIncomplete, RemoveDirectory,
       Publish, Break
  <2> QED
    BY <1>1, <1>2, <2>1, OthersKeep
<1>6. ASSUME Touches(c), proc'[c].ready = proc[c].ready, proc'[c].at # "remove"
      PROVE  Touches(c) /\ Keeps(c)
  BY <1>1, <1>6 DEF Keeps
<1>7. DOMAIN proc = Processes /\ DOMAIN proc[c] = Fields
  BY <1>1 DEF Shape
<1>8. CASE FetchCommit(c)
  <2>1. CASE Fail(c)
    BY <1>1, <1>2, <1>3, <2>1, OthersKeep
  <2>2. CASE \E files : proc' = [proc EXCEPT ![c].at = "restore", ![c].seen = {},
                                             ![c].pending = files]
    <3>1. Touches(c) /\ proc'[c].ready = proc[c].ready /\ proc'[c].at = "restore"
      BY <1>1, <1>7, <2>2 DEF Touches, Fields
    <3> QED
      BY <1>1, <1>2, <1>6, <3>1, OthersKeep
  <2> QED
    BY <1>8, <2>1, <2>2 DEF FetchCommit
<1>9. CASE RestoreBatch(c)
  <2>1. CASE Fail(c)
    BY <1>1, <1>2, <1>3, <2>1, OthersKeep
  <2>2. CASE ~Fail(c)
    <3>1. \E all, discovered :
             proc' = [proc EXCEPT ![c] =
                IF discovered # {} THEN [@ EXCEPT !.seen = all, !.pending = discovered]
                ELSE IF @.goal = "documents"
                THEN [@ EXCEPT !.at = "official", !.seen = {}, !.pending = {}]
                ELSE [@ EXCEPT !.at = "identify", !.seen = {}, !.pending = {},
                               !.todo = Distinct(Asked[c])]]
      BY <1>9, <2>2 DEF RestoreBatch
    <3>2. proc[c].at = "restore"
      BY <1>9 DEF RestoreBatch, At
    <3>3. Touches(c) /\ proc'[c].ready = proc[c].ready /\ proc'[c].at # "remove"
      BY <1>1, <1>7, <3>1, <3>2 DEF Touches, Fields
    <3> QED
      BY <1>1, <1>2, <1>6, <3>3, OthersKeep
  <2> QED
    BY <2>1, <2>2
<1>10. CASE DownloadOfficial(c)
  <2>1. Touches(c) /\ proc'[c].ready = proc[c].ready /\ proc'[c].at = "resolve"
    BY <1>1, <1>7, <1>10 DEF DownloadOfficial, Touches, Fields
  <2> QED
    BY <1>1, <1>2, <1>6, <2>1, OthersKeep
<1>11. CASE FlattenFrames(c)
  <2>1. CASE Fail(c)
    BY <1>1, <1>2, <1>3, <2>1, OthersKeep
  <2>2. CASE \E taken : proc' = [proc EXCEPT ![c].at = "print", ![c].taken = taken]
    <3>1. Touches(c) /\ proc'[c].ready = proc[c].ready /\ proc'[c].at = "print"
      BY <1>1, <1>7, <2>2 DEF Touches, Fields
    <3> QED
      BY <1>1, <1>2, <1>6, <3>1, OthersKeep
  <2> QED
    BY <1>11, <2>1, <2>2 DEF FlattenFrames
<1>12. CASE PrintPages(c)
  <2>1. CASE Fail(c)
    BY <1>1, <1>2, <1>3, <2>1, OthersKeep
  <2>2. CASE \E pages : proc' = [proc EXCEPT ![c].at = "publish", ![c].taken = <<>>,
                                             ![c].pages = pages]
    <3>1. Touches(c) /\ proc'[c].ready = proc[c].ready /\ proc'[c].at = "publish"
      BY <1>1, <1>7, <2>2 DEF Touches, Fields
    <3> QED
      BY <1>1, <1>2, <1>6, <3>1, OthersKeep
  <2> QED
    BY <1>12, <2>1, <2>2 DEF PrintPages
<1> QED
  BY <1>5, <1>8, <1>9, <1>10, <1>11, <1>12

LEMMA SeenCases ==
    ASSUME Shape, [Next]_vars
    PROVE  \/ excused \subseteq excused' /\ \A d \in Processes : Keeps(d)
           \/ \E c \in Processes : Sees(c)
<1> USE DEF Processes
<1>1. CASE UNCHANGED vars
  BY <1>1 DEF vars, Keeps, At
<1>2. ASSUME NEW c \in Compilers,
             \/ Plan(c) \/ LookForClone(c) \/ EndClone(c) \/ FetchCommit(c)
             \/ RestoreBatch(c) \/ DownloadOfficial(c) \/ RemoveIncomplete(c)
             \/ RemoveDirectory(c) \/ FlattenFrames(c) \/ PrintPages(c) \/ Publish(c)
             \/ Break(c)
      PROVE  excused \subseteq excused' /\ \A d \in Processes : Keeps(d)
  BY <1>2, CompilersKeep
<1>3. ASSUME NEW c \in Compilers, ResetAndClone(c)
      PROVE  excused \subseteq excused' /\ \A d \in Processes : Keeps(d)
  <2>1. excused' = excused /\ c # Doctor
    BY <1>3, CommandsAssumption DEF ResetAndClone
  <2> QED
    BY <1>3, <2>1, ResetAndCloneResets DEF Keeps, At
<1>4. ASSUME NEW c \in Compilers, LoadCompiled(c)
      PROVE  (excused \subseteq excused' /\ \A d \in Processes : Keeps(d)) \/ Sees(c)
  <2>1. c \in Processes /\ c # Doctor /\ At(c, "load") /\ artifacts' = artifacts
    BY <1>4, CommandsAssumption DEF LoadCompiled
  <2>2. CASE Loads(proc[c].key)
    <3>1. Finish(c)
      BY <1>4, <2>2 DEF LoadCompiled
    <3>2. Touches(c) /\ proc'[c].at \in {"done", "identify"}
      BY <2>1, <3>1, FinishMoves
    <3> QED
      BY <2>1, <2>2, <3>1, <3>2 DEF Sees, At
  <2>3. CASE ~Loads(proc[c].key)
    <3>1. Fails(c) /\ excused' = excused
      BY <1>4, <2>1, <2>3, FailFails DEF LoadCompiled
    <3>2. Touches(c) /\ Keeps(c)
      BY <2>1, <3>1 DEF Fails, Keeps
    <3> QED
      BY <2>1, <3>1, <3>2, OthersKeep
  <2> QED
    BY <2>2, <2>3
<1>5. ASSUME NEW c \in Processes, Look(c)
      PROVE  (excused \subseteq excused' /\ \A d \in Processes : Keeps(d)) \/ Sees(c)
  <2>1. artifacts' = artifacts /\ At(c, "look")
    BY <1>5 DEF Look
  <2>2. CASE Fails(c) /\ excused' = excused
    BY <2>2, OthersKeep DEF Fails, Keeps
  <2>3. CASE Moves(c, "remove") /\ excused' = excused /\ c # Doctor /\ ~Loads(proc[c].key)
    <3>1. Touches(c) /\ Keeps(c)
      BY <2>1, <2>3 DEF Moves, Recalls, Keeps
    <3> QED
      BY <2>3, <3>1, OthersKeep
  <2>4. CASE Finish(c) /\ Touches(c) /\ Loads(proc[c].key)
    <3>1. proc'[c].at # "remove"
      BY <2>4, FinishMoves
    <3> QED
      BY <2>1, <2>4, <3>1 DEF Sees, At
  <2> QED
    BY <1>5, <2>2, <2>3, <2>4, LookMoves
<1>6. ASSUME NEW c \in Processes, FollowReferences(c) \/ HashInputs(c) \/ Identify(c)
      PROVE  excused \subseteq excused' /\ \A d \in Processes : Keeps(d)
  <2>1. excused' = excused /\ proc[c].at # "failed"
    BY <1>6 DEF FollowReferences, HashInputs, Identify, At
  <2>2. CASE Fails(c)
    BY <2>1, <2>2, OthersKeep DEF Fails, Keeps
  <2>3. CASE /\ Touches(c) /\ proc'[c].at # "remove"
             /\ proc'[c].ready = proc[c].ready /\ proc'[c].pages = proc[c].pages
    BY <2>1, <2>3, OthersKeep DEF Keeps
  <2> QED
    BY <1>6, <2>2, <2>3, FollowReferencesMoves, HashInputsMoves, IdentifyMoves
<1>7. ASSUME StartCheck
      PROVE  excused \subseteq excused' /\ \A d \in Processes : Keeps(d)
  <2>1. excused' = excused /\ At(Doctor, "start")
    BY <1>7 DEF StartCheck
  <2>2. Touches(Doctor) /\ Keeps(Doctor)
    BY <1>7, <2>1, StartCheckStarts DEF Keeps, At
  <2> QED
    BY <2>1, <2>2, OthersKeep
<1>8. ASSUME NEW k \in DOMAIN artifacts, PlayerLoads(k) \/ Damage(k)
      PROVE  excused \subseteq excused' /\ \A d \in Processes : Keeps(d)
  BY <1>8 DEF PlayerLoads, Damage, Keeps, At
<1>9. ASSUME NEW f \in LocalFiles, Edit(f)
      PROVE  excused \subseteq excused' /\ \A d \in Processes : Keeps(d)
  <2>1. excused' = excused /\ artifacts' = artifacts
    BY <1>9 DEF Edit
  <2> QED
    BY <1>9, <2>1, EditLeaves DEF Keeps, At
<1> QED
  BY <1>1, <1>2, <1>3, <1>4, <1>5, <1>6, <1>7, <1>8, <1>9 DEF Next

LEMMA OnlyPlayersLoad ==
    ASSUME [Next]_vars, manual' # manual
    PROVE  \E k \in DOMAIN artifacts : PlayerLoads(k)
BY DEF Next, vars, Plan, LookForClone, ResetAndClone, EndClone, FetchCommit, RestoreBatch,
   DownloadOfficial, RemoveIncomplete, RemoveDirectory, FlattenFrames, PrintPages, Publish,
   LoadCompiled, Break, FollowReferences, HashInputs, Identify, Look, StartCheck, Damage, Edit

LEMMA InitSeen == Init => SeenInv
<1> SUFFICES ASSUME Init
             PROVE  SeenInv
  OBVIOUS
<1>1. DOMAIN proc = Processes /\ \A c \in Processes : proc[c] = Idle
  BY DEF Init
<1>2. StoreInv
  BY InitStore
<1>3. DOMAIN artifacts = {}
  BY DEF Init
<1>4. \A c \in Processes : proc[c].at = "start" /\ proc[c].ready = {}
  BY <1>1 DEF Idle
<1> QED
  BY <1>2, <1>3, <1>4 DEF SeenInv, RivalsKnow, SeenReadyIsReady, DoctorKnows, At,
     Processes

\* What is taken away from those who saw it is excused.
LEMMA TakenAwayIsExcused ==
    ASSUME SeenInv, [Next]_vars, NEW k, Loads(k), ~Loads(k)'
    PROVE  Processes \X {k} \subseteq excused'
<1>1. ASSUME NEW c \in Compilers, RemoveIncomplete(c), k = proc[c].key
      PROVE  Processes \X {k} \subseteq excused'
  <2>1. k \in DOMAIN artifacts /\ c \in artifacts[k].rivals
    BY <1>1 DEF SeenInv, RivalsKnow, RemoveIncomplete, Loads
  <2> QED
    BY <1>1, <2>1 DEF RemoveIncomplete
<1>2. CASE Damage(k)
  BY <1>2 DEF Damage
<1> QED
  BY <1>1, <1>2, WhatLoads DEF SeenInv, StoreInv

\* No directory changes under c: its step saw that the one at hand loads.
LEMMA SeeingKeepsSeen ==
    ASSUME SeenInv, NEW c \in Processes, Sees(c)
    PROVE  RivalsKnow' /\ SeenReadyIsReady' /\ DoctorKnows'
<1> DEFINE k == proc[c].key
<1>1. /\ proc'[c].ready = proc[c].ready \union {k}
      /\ excused' = excused \ {<<c, k>>}
      /\ c = Doctor => proc'[c].pages = [x \in {k} |-> artifacts[k].pages] ++ proc[c].pages
  BY FinishMoves DEF Sees, SeenInv, StoreInv
<1>2. /\ artifacts' = artifacts /\ Loads(k)
      /\ \A d \in Processes : d # c => proc'[d] = proc[d]
      /\ proc[c].at # "failed" /\ proc'[c].at # "remove"
  BY DEF Sees, Touches
<1> HIDE DEF k
<1>3. \A x : Loads(x)' = Loads(x)
  BY <1>2 DEF Loads
<1>4. RivalsKnow'
  BY <1>2 DEF SeenInv, RivalsKnow, At, Loads, Processes
<1>5. SeenReadyIsReady'
  <2>1. ASSUME NEW d \in Processes, NEW x \in proc'[d].ready
        PROVE  Loads(x) \/ <<d, x>> \in excused'
    <3>1. CASE d = c /\ x = k
      BY <1>2, <3>1
    <3>2. CASE d # c \/ x # k
      <4>1. x \in proc[d].ready
        BY <1>1, <1>2, <2>1, <3>2
      <4>2. Loads(x) \/ <<d, x>> \in excused
        BY <4>1 DEF SeenInv, SeenReadyIsReady
      <4> QED
        BY <1>1, <3>2, <4>2
    <3> QED
      BY <3>1, <3>2
  <2> QED
    BY <1>3, <2>1 DEF SeenReadyIsReady
<1>6. DoctorKnows'
  <2>1. CASE c # Doctor
    <3>1. proc'[Doctor] = proc[Doctor]
      BY <1>2, <2>1 DEF Processes
    <3>2. \A x : <<Doctor, x>> \in excused' <=> <<Doctor, x>> \in excused
      BY <1>1, <2>1
    <3> QED
      BY <1>2, <1>3, <3>1, <3>2 DEF SeenInv, DoctorKnows, At
  <2>2. CASE c = Doctor
    <3>1. ASSUME NEW x \in proc'[c].ready
          PROVE  /\ x \in DOMAIN proc'[c].pages
                 /\ Loads(x) /\ <<c, x>> \notin excused' =>
                        artifacts[x].pages = proc'[c].pages[x]
      <4>1. CASE x = k
        BY <1>1, <2>2, <4>1 DEF ++
      <4>2. CASE x # k
        <5>1. x \in proc[c].ready /\ (<<c, x>> \in excused' <=> <<c, x>> \in excused)
          BY <1>1, <3>1, <4>2
        <5>2. /\ x \in DOMAIN proc[c].pages
              /\ Loads(x) /\ <<c, x>> \notin excused => artifacts[x].pages = proc[c].pages[x]
          BY <1>2, <2>2, <5>1 DEF SeenInv, DoctorKnows, At
        <5>3. x \in DOMAIN proc'[c].pages /\ proc'[c].pages[x] = proc[c].pages[x]
          BY <1>1, <2>2, <4>2, <5>2 DEF ++
        <5> QED
          BY <5>1, <5>2, <5>3
      <4> QED
        BY <4>1, <4>2
    <3> QED
      BY <1>2, <1>3, <2>2, <3>1 DEF DoctorKnows
  <2> QED
    BY <2>1, <2>2
<1> QED
  BY <1>4, <1>5, <1>6

LEMMA SeenStep == SeenInv /\ [Next]_vars => SeenInv'
<1> SUFFICES ASSUME SeenInv, [Next]_vars
             PROVE  SeenInv'
  OBVIOUS
<1>1. StoreInv' /\ Shape /\ Directories
  BY StoreStep DEF SeenInv, StoreInv
<1>2. ASSUME NEW c \in Processes, Sees(c)
      PROVE  SeenInv'
  BY <1>1, <1>2, SeeingKeepsSeen DEF SeenInv
<1>3. ASSUME excused \subseteq excused', \A d \in Processes : Keeps(d)
      PROVE  SeenInv'
  <2>1. RivalsKnow'
    <3>1. SUFFICES ASSUME NEW c \in Compilers, proc'[c].at = "remove",
                          NEW k, k = proc'[c].key, Loads(k)'
                   PROVE  c \in artifacts'[k].rivals
      BY DEF RivalsKnow, At, Loads
    <3>2. /\ c \in Processes /\ c # Doctor
          /\ k = proc[c].key
          /\ At(c, "remove") \/ (~Loads(k) /\ artifacts' = artifacts)
      BY <1>3, <3>1, CommandsAssumption DEF Keeps, Processes
    <3>3. At(c, "remove")
      BY <3>1, <3>2 DEF Loads
    <3>4. CASE Stays(k)
      BY <3>2, <3>3, <3>4 DEF Stays, SeenInv, RivalsKnow
    <3>5. ASSUME NEW x \in Compilers, Published(x, k)
          PROVE  c \in artifacts'[k].rivals
      <4>1. At(x, "publish") /\ UnderWay(c)
        BY <3>3, <3>5 DEF Published, Publish, At, UnderWay, Ended
      <4>2. c # x
        BY <3>3, <4>1 DEF At
      <4> QED
        BY <3>5, <4>1, <4>2 DEF Published
    <3> QED
      BY <1>1, <3>1, <3>4, <3>5, WhatLoads
  <2>2. SeenReadyIsReady'
    <3>1. ASSUME NEW d \in Processes, NEW k \in proc'[d].ready
          PROVE  Loads(k)' \/ <<d, k>> \in excused'
      <4>1. Loads(k) \/ <<d, k>> \in excused
        BY <1>3, <3>1 DEF Keeps, SeenInv, SeenReadyIsReady
      <4> QED
        BY <1>3, <4>1, TakenAwayIsExcused
    <3> QED
      BY <3>1 DEF SeenReadyIsReady
  <2>3. DoctorKnows'
    <3>1. SUFFICES ASSUME proc'[Doctor].at # "failed", NEW k \in proc'[Doctor].ready
                   PROVE  /\ k \in DOMAIN proc'[Doctor].pages
                          /\ Loads(k)' /\ <<Doctor, k>> \notin excused' =>
                                 artifacts'[k].pages = proc'[Doctor].pages[k]
      BY DEF DoctorKnows, At
    <3>2. /\ Doctor \in Processes /\ proc[Doctor].at # "failed" /\ k \in proc[Doctor].ready
          /\ proc'[Doctor].pages = proc[Doctor].pages
      BY <1>3, <3>1 DEF Keeps, Processes
    <3>3. /\ k \in DOMAIN proc[Doctor].pages
          /\ Loads(k) /\ <<Doctor, k>> \notin excused =>
                 artifacts[k].pages = proc[Doctor].pages[k]
          /\ Loads(k) \/ <<Doctor, k>> \in excused
      BY <3>2 DEF SeenInv, DoctorKnows, SeenReadyIsReady, At
    <3>4. ASSUME Loads(k)', <<Doctor, k>> \notin excused'
          PROVE  artifacts'[k].pages = proc'[Doctor].pages[k]
      <4>1. Loads(k) /\ <<Doctor, k>> \notin excused
        BY <1>3, <3>3, <3>4
      <4>2. \A x \in Compilers : ~Published(x, k)
        BY <4>1 DEF Published, Loads
      <4>3. Stays(k)
        BY <1>1, <3>4, <4>2, WhatLoads
      <4> QED
        BY <3>2, <3>3, <4>1, <4>3 DEF Stays
    <3> QED
      BY <3>2, <3>3, <3>4
  <2> QED
    BY <1>1, <2>1, <2>2, <2>3 DEF SeenInv
<1> QED
  BY <1>1, <1>2, <1>3, SeenCases

\* Whoever saw a requirement ready finds it so until its directory is damaged or taken
\* away by a compile that was under way when it came: however many compiles, checks,
\* requirements and failures there are.
THEOREM SeenStaysReady == Spec => []SeenReadyIsReady
<1>1. SeenInv => SeenReadyIsReady
  BY DEF SeenInv
<1> QED
  BY <1>1, InitSeen, SeenStep, PTL DEF Spec

\* The pages a player loads by their path are those the check before the run saw.
THEOREM PlayersGetThem == Spec => PlayersGetWhatWasChecked
<1> DEFINE Checked == manual' # manual =>
                          \A k : k = manual'[1] =>
                              manual'[2] = proc[Doctor].pages[k] \/ <<Doctor, k>> \in excused
<1>1. ASSUME SeenInv, [Next]_vars
      PROVE  [Checked]_vars
  <2>1. SUFFICES ASSUME manual' # manual
                 PROVE  Checked
    OBVIOUS
  <2>2. PICK k \in DOMAIN artifacts : PlayerLoads(k)
    BY <1>1, <2>1, OnlyPlayersLoad
  <2>3. /\ Doctor \in Processes /\ proc[Doctor].at = "done" /\ k \in proc[Doctor].ready
        /\ manual' = <<k, IF Loads(k) THEN artifacts[k].pages ELSE <<>>>>
    BY <2>2 DEF PlayerLoads, At, Processes
  <2>4. Loads(k) \/ <<Doctor, k>> \in excused
    BY <1>1, <2>3 DEF SeenInv, SeenReadyIsReady
  <2>5. Loads(k) /\ <<Doctor, k>> \notin excused => artifacts[k].pages = proc[Doctor].pages[k]
    BY <1>1, <2>3 DEF SeenInv, DoctorKnows, At
  <2>6. manual'[1] = k /\ manual'[2] = IF Loads(k) THEN artifacts[k].pages ELSE <<>>
    BY <2>3
  <2> QED
    BY <2>4, <2>5, <2>6
<1>2. [Checked]_vars => [manual' # manual =>
          LET k == manual'[1] IN
          \/ manual'[2] = proc[Doctor].pages[k]
          \/ <<Doctor, k>> \in excused]_vars
  OBVIOUS
<1> HIDE DEF Checked
<1> QED
  BY <1>1, <1>2, InitSeen, SeenStep, PTL DEF Spec, PlayersGetWhatWasChecked
============================================================================
