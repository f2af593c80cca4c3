------------------------------- MODULE Lemmas -------------------------------
(***************************************************************************)
(* Induction over numbers and sequences, for statements given as sets, and *)
(* what Keep does.                                                         *)
(***************************************************************************)
EXTENDS Filtering, SequencesExt, WellFoundedInduction, TLAPS

\* A set of numbers that is not empty has a least element.
LEMMA NatMin ==
  ASSUME NEW T, T \subseteq Nat, T # {}
  PROVE  \E x \in T : \A y \in T : x <= y
<1> DEFINE R == OpToRel(<, Nat)
<1>1. IsWellFoundedOn(R, Nat)
  BY NatLessThanWellFounded
<1> HIDE DEF R
<1>2. PICK x \in T : \A y \in T : ~(<<y, x>> \in R)
  BY <1>1, WFMin
<1>3. \A y \in T : y < x => <<y, x>> \in R
  BY DEF R, OpToRel
<1>4. \A y \in T : ~(y < x)
  BY <1>2, <1>3
<1>5. \A y \in T : y \in Nat /\ x \in Nat
  OBVIOUS
<1> QED
  BY <1>4, <1>5

\* Induction: the statement is that a number is in P.
LEMMA NatInduct ==
  ASSUME NEW P, 0 \in P, \A n \in Nat : n \in P => n + 1 \in P
  PROVE  Nat \subseteq P
<1> SUFFICES ASSUME Nat \ P # {} PROVE FALSE
  OBVIOUS
<1>1. PICK x \in Nat \ P : \A y \in Nat \ P : x <= y
  BY NatMin
<1>2. x # 0 /\ x - 1 \in Nat
  OBVIOUS
<1>3. x - 1 \in P
  BY <1>1, <1>2
<1> QED
  BY <1>2, <1>3

\* f is the run of n steps, the k-th of them F[k], that starts at x.
IsRun(f, n, D, x, F) ==
  /\ f \in [0 .. n -> D]
  /\ f[0] = x
  /\ \A k \in 1 .. n : f[k] = F[k][f[k - 1]]

\* Every sequence of steps has a run: what recursive definitions rest on.
LEMMA RunExists ==
  ASSUME NEW n \in Nat, NEW D, NEW x \in D, NEW F \in [1 .. n -> [D -> D]]
  PROVE  \E f : IsRun(f, n, D, x, F)
<1> DEFINE Good(m) == \E f : IsRun(f, m, D, x, F)
           P == {m \in Nat : m <= n => Good(m)}
<1>1. 0 \in P
  <2> DEFINE f == [k \in 0 .. 0 |-> x]
  <2>1. f \in [0 .. 0 -> D] /\ f[0] = x /\ \A k \in 1 .. 0 : f[k] = F[k][f[k - 1]]
    OBVIOUS
  <2>2. IsRun(f, 0, D, x, F)
    BY <2>1 DEF IsRun
  <2> QED
    BY <2>2
<1>2. ASSUME NEW m \in Nat, m \in P PROVE m + 1 \in P
  <2> SUFFICES ASSUME m + 1 <= n PROVE Good(m + 1)
    OBVIOUS
  <2>1. PICK f : IsRun(f, m, D, x, F)
    BY <1>2
  <2>2. f \in [0 .. m -> D] /\ f[0] = x /\ \A k \in 1 .. m : f[k] = F[k][f[k - 1]]
    BY <2>1 DEF IsRun
  <2> DEFINE g == [k \in 0 .. m + 1 |-> IF k = m + 1 THEN F[m + 1][f[m]] ELSE f[k]]
  <2>3. m + 1 \in 1 .. n /\ f[m] \in D
    BY <2>2
  <2>4. F[m + 1] \in [D -> D]
    BY <2>3
  <2>5. F[m + 1][f[m]] \in D
    BY <2>3, <2>4
  <2>6. g \in [0 .. m + 1 -> D]
    BY <2>2, <2>5
  <2>7. g[0] = x
    BY <2>2
  <2>8. ASSUME NEW k \in 1 .. m + 1 PROVE g[k] = F[k][g[k - 1]]
    BY <2>2
  <2>9. IsRun(g, m + 1, D, x, F)
    BY <2>6, <2>7, <2>8 DEF IsRun
  <2> QED
    BY <2>9
<1> HIDE DEF P
<1>3. n \in P
  BY <1>1, <1>2, NatInduct
<1> QED
  BY <1>3 DEF P

\* Induction over sequences: the statement is that a sequence is in P.
LEMMA SeqInduct ==
  ASSUME NEW E, NEW P, <<>> \in P,
         \A s \in Seq(E), x \in E : s \in P => Append(s, x) \in P
  PROVE  Seq(E) \subseteq P
<1> DEFINE Q == {n \in Nat : \A s \in Seq(E) : Len(s) = n => s \in P}
<1>1. 0 \in Q
  <2>1. \A s \in Seq(E) : Len(s) = 0 => s = <<>>
    OBVIOUS
  <2> QED
    BY <2>1
<1>2. ASSUME NEW n \in Nat, n \in Q PROVE n + 1 \in Q
  <2> SUFFICES ASSUME NEW s \in Seq(E), Len(s) = n + 1 PROVE s \in P
    OBVIOUS
  <2> DEFINE r == SubSeq(s, 1, n)
  <2>1. r \in Seq(E) /\ Len(r) = n /\ s[n + 1] \in E
    OBVIOUS
  <2>2. s = Append(r, s[n + 1])
    BY <2>1
  <2>3. r \in P
    BY <1>2, <2>1
  <2> QED
    BY <2>1, <2>2, <2>3
<1> HIDE DEF Q
<1>3. Nat \subseteq Q
  BY <1>1, <1>2, NatInduct
<1>4. ASSUME NEW s \in Seq(E) PROVE s \in P
  <2>1. Len(s) \in Q
    BY <1>3
  <2> QED
    BY <2>1 DEF Q
<1> QED
  BY <1>4

-----------------------------------------------------------------------------
\* The defining equations of KeptOf.
LEMMA KeptOfDef ==
  ASSUME NEW E, NEW s \in Seq(E), NEW S
  PROVE  /\ KeptOf(s, S) \in [0 .. Len(s) -> Seq(E)]
         /\ KeptOf(s, S)[0] = <<>>
         /\ \A i \in 1 .. Len(s) :
              KeptOf(s, S)[i] = IF s[i] \in S THEN Append(KeptOf(s, S)[i - 1], s[i])
                                ELSE KeptOf(s, S)[i - 1]
<1> DEFINE n == Len(s)
           D == Seq(E)
           F == [i \in 1 .. n |-> [r \in D |-> IF s[i] \in S THEN Append(r, s[i]) ELSE r]]
           Body(f, i) == IF i = 0 THEN <<>>
                         ELSE IF s[i] \in S THEN Append(f[i - 1], s[i]) ELSE f[i - 1]
<1>1. n \in Nat /\ <<>> \in D /\ F \in [1 .. n -> [D -> D]]
  OBVIOUS
<1>2. \A i \in 1 .. n : \A r \in D : F[i][r] = IF s[i] \in S THEN Append(r, s[i]) ELSE r
  OBVIOUS
<1> HIDE DEF F, D, n
<1>3. PICK f : IsRun(f, n, D, <<>>, F)
  BY <1>1, RunExists
<1>4. f \in [0 .. n -> D] /\ f[0] = <<>> /\ \A i \in 1 .. n : f[i] = F[i][f[i - 1]]
  BY <1>3 DEF IsRun
<1>5. ASSUME NEW i \in 1 .. n PROVE f[i] = Body(f, i)
  <2>1. i - 1 \in 0 .. n /\ i # 0
    BY <1>1
  <2>2. f[i - 1] \in D
    BY <1>4, <2>1
  <2> QED
    BY <1>2, <1>4, <2>1, <2>2
<1>6. f = [i \in 0 .. n |-> Body(f, i)]
  <2>1. \A i \in 0 .. n : i = 0 \/ i \in 1 .. n
    BY <1>1
  <2>2. ASSUME NEW i \in 0 .. n PROVE f[i] = Body(f, i)
    BY <1>4, <1>5, <2>1
  <2> HIDE DEF Body
  <2> QED
    BY <1>4, <2>2
<1>7. KeptOf(s, S) = [i \in 0 .. n |-> Body(KeptOf(s, S), i)]
  BY <1>6 DEF KeptOf, n
<1> DEFINE K == KeptOf(s, S)
<1> HIDE DEF K
<1>8. K = [i \in 0 .. n |-> Body(K, i)]
  BY <1>7 DEF K
<1>9. K[0] = <<>> /\ \A i \in 1 .. n : K[i] = IF s[i] \in S THEN Append(K[i - 1], s[i]) ELSE K[i - 1]
  <2>1. 0 \in 0 .. n /\ \A i \in 1 .. n : i \in 0 .. n /\ i # 0
    BY <1>1
  <2>2. \A i \in 0 .. n : K[i] = Body(K, i)
    <3> HIDE DEF Body
    <3> QED
      BY <1>8
  <2> QED
    BY <2>1, <2>2
<1>10. ASSUME NEW i \in 0 .. n PROVE K[i] \in D
  <2> DEFINE P == {j \in Nat : j <= n => K[j] \in D}
  <2>1. 0 \in P
    BY <1>1, <1>9
  <2>2. ASSUME NEW j \in Nat, j \in P PROVE j + 1 \in P
    <3> SUFFICES ASSUME j + 1 <= n PROVE K[j + 1] \in D
      OBVIOUS
    <3>1. j + 1 \in 1 .. n /\ (j + 1) - 1 = j /\ K[j] \in D
      BY <1>1, <2>2
    <3>2. K[j + 1] = IF s[j + 1] \in S THEN Append(K[j], s[j + 1]) ELSE K[j]
      BY <1>9, <3>1
    <3>3. s[j + 1] \in E
      BY <3>1 DEF n
    <3> QED
      BY <3>1, <3>2, <3>3 DEF D
  <2> HIDE DEF P
  <2>3. i \in P
    BY <1>1, <2>1, <2>2, NatInduct
  <2> QED
    BY <1>1, <2>3 DEF P
<1>11. K \in [0 .. n -> D]
  BY <1>8, <1>10
<1> QED
  BY <1>9, <1>11 DEF K, n, D

\* Nothing is kept of nothing.
LEMMA KeepEmpty == ASSUME NEW S PROVE Keep(<<>>, S) = <<>>
<1>1. <<>> \in Seq({}) /\ Len(<<>>) = 0
  OBVIOUS
<1>2. \A E, s : s \in Seq(E) => KeptOf(s, S)[0] = <<>>
  BY KeptOfDef
<1>3. KeptOf(<<>>, S)[0] = <<>>
  BY <1>1, <1>2, Zenon
<1> QED
  BY <1>1, <1>3 DEF Keep

\* What is kept is a sequence of the same elements.
LEMMA KeepType ==
  ASSUME NEW E, NEW s \in Seq(E), NEW S
  PROVE  Keep(s, S) \in Seq(E)
<1>1. Len(s) \in 0 .. Len(s)
  OBVIOUS
<1> QED
  BY <1>1, KeptOfDef DEF Keep

\* An element is added at the end, or left out.
LEMMA KeepAppend ==
  ASSUME NEW E, NEW s \in Seq(E), NEW x \in E, NEW S
  PROVE  Keep(Append(s, x), S) = IF x \in S THEN Append(Keep(s, S), x) ELSE Keep(s, S)
<1> DEFINE n == Len(s)
           a == Append(s, x)
           K == KeptOf(s, S)
           L == KeptOf(a, S)
           P == {i \in Nat : i <= n => L[i] = K[i]}
<1>1. n \in Nat /\ a \in Seq(E) /\ Len(a) = n + 1 /\ a[n + 1] = x /\ \A i \in 1 .. n : a[i] = s[i]
  OBVIOUS
<1> HIDE DEF a, n
<1>2. /\ K[0] = <<>>
      /\ \A i \in 1 .. n : K[i] = IF s[i] \in S THEN Append(K[i - 1], s[i]) ELSE K[i - 1]
  BY KeptOfDef DEF n
<1>3. /\ L[0] = <<>>
      /\ \A i \in 1 .. n + 1 : L[i] = IF a[i] \in S THEN Append(L[i - 1], a[i]) ELSE L[i - 1]
  BY <1>1, KeptOfDef
<1> HIDE DEF K, L
<1>4. 0 \in P
  BY <1>2, <1>3
<1>5. ASSUME NEW i \in Nat, i \in P PROVE i + 1 \in P
  <2> SUFFICES ASSUME i + 1 <= n PROVE L[i + 1] = K[i + 1]
    OBVIOUS
  <2>1. i + 1 \in 1 .. n /\ i + 1 \in 1 .. n + 1 /\ (i + 1) - 1 = i /\ L[i] = K[i]
    BY <1>1, <1>5
  <2> QED
    BY <1>1, <1>2, <1>3, <2>1
<1> HIDE DEF P
<1>6. n \in P
  BY <1>1, <1>4, <1>5, NatInduct
<1>7. L[n] = K[n]
  BY <1>1, <1>6 DEF P
<1>8. n + 1 \in 1 .. n + 1 /\ (n + 1) - 1 = n
  BY <1>1
<1>9. L[n + 1] = IF x \in S THEN Append(K[n], x) ELSE K[n]
  BY <1>1, <1>3, <1>7, <1>8
<1> QED
  BY <1>1, <1>9 DEF Keep, K, L, a, n

-----------------------------------------------------------------------------
\* The elements of an appended, a joined and a reversed sequence.
LEMMA ToSetEmpty == ToSet(<<>>) = {}
BY DEF ToSet

\* Append adds one element, ...
LEMMA ToSetAppend ==
  ASSUME NEW E, NEW s \in Seq(E), NEW x \in E
  PROVE  ToSet(Append(s, x)) = ToSet(s) \cup {x}
<1> DEFINE a == Append(s, x)
           n == Len(s)
<1>1. n \in Nat /\ DOMAIN s = 1 .. n /\ DOMAIN a = 1 .. n + 1 /\ a[n + 1] = x /\ \A i \in 1 .. n : a[i] = s[i]
  OBVIOUS
<1> HIDE DEF a, n
<1>2. \A y : y \in ToSet(s) <=> \E i \in 1 .. n : y = s[i]
  BY <1>1 DEF ToSet
<1>3. \A y : y \in ToSet(a) <=> \E i \in 1 .. n + 1 : y = a[i]
  BY <1>1 DEF ToSet
<1>4. \A i \in 1 .. n + 1 : i \in 1 .. n \/ i = n + 1
  BY <1>1
<1>5. n + 1 \in 1 .. n + 1 /\ \A i \in 1 .. n : i \in 1 .. n + 1
  BY <1>1
<1>6. ASSUME NEW y PROVE y \in ToSet(a) <=> y \in ToSet(s) \cup {x}
  BY <1>1, <1>2, <1>3, <1>4, <1>5
<1> QED
  BY <1>6 DEF a

\* ... and concatenation those of both sequences.
LEMMA ToSetCat ==
  ASSUME NEW E, NEW s \in Seq(E), NEW u \in Seq(E)
  PROVE  ToSet(s \o u) = ToSet(s) \cup ToSet(u)
<1> DEFINE P == {v \in Seq(E) : ToSet(s \o v) = ToSet(s) \cup ToSet(v)}
<1>1. <<>> \in P
  <2>1. s \o <<>> = s /\ <<>> \in Seq(E)
    OBVIOUS
  <2> QED
    BY <2>1, ToSetEmpty
<1>2. ASSUME NEW v \in Seq(E), NEW x \in E, v \in P PROVE Append(v, x) \in P
  <2>1. s \o Append(v, x) = Append(s \o v, x) /\ s \o v \in Seq(E) /\ Append(v, x) \in Seq(E)
    OBVIOUS
  <2> DEFINE w == s \o v
  <2> HIDE DEF w
  <2>2. w \in Seq(E)
    BY <2>1 DEF w
  <2>3. ToSet(Append(w, x)) = ToSet(w) \cup {x}
    BY <2>2, ToSetAppend
  <2>4. ToSet(Append(v, x)) = ToSet(v) \cup {x}
    BY ToSetAppend
  <2> QED
    BY <1>2, <2>1, <2>3, <2>4 DEF w
<1> HIDE DEF P
<1>3. u \in P
  BY <1>1, <1>2, SeqInduct
<1> QED
  BY <1>3 DEF P

\* A reversed sequence has the same elements.
LEMMA ReverseType ==
  ASSUME NEW E, NEW s \in Seq(E)
  PROVE  Reverse(s) \in Seq(E) /\ ToSet(Reverse(s)) = ToSet(s)
<1> DEFINE n == Len(s)
           r == Reverse(s)
<1>1. n \in Nat /\ DOMAIN s = 1 .. n /\ r = [i \in 1 .. n |-> s[(n - i) + 1]]
  BY DEF Reverse
<1>2. r \in Seq(E)
  BY DEF Reverse
<1> HIDE DEF n, r
<1>3. \A i \in 1 .. n : (n - i) + 1 \in 1 .. n /\ (n - ((n - i) + 1)) + 1 = i
  BY <1>1
<1>4. DOMAIN r = 1 .. n /\ \A i \in 1 .. n : r[i] = s[(n - i) + 1]
  BY <1>1
<1>5. \A y : y \in ToSet(s) <=> \E i \in 1 .. n : y = s[i]
  BY <1>1 DEF ToSet
<1>6. \A y : y \in ToSet(r) <=> \E i \in 1 .. n : y = r[i]
  BY <1>4 DEF ToSet
<1>7. ASSUME NEW y PROVE y \in ToSet(r) <=> y \in ToSet(s)
  BY <1>3, <1>4, <1>5, <1>6
<1> QED
  BY <1>2, <1>7 DEF r

\* A list with a new first element, reversed, has it last.
LEMMA ReversePush ==
  ASSUME NEW E, NEW s \in Seq(E), NEW x \in E
  PROVE  Reverse(<<x>> \o s) = Append(Reverse(s), x)
<1> DEFINE n == Len(s)
           p == <<x>> \o s
<1>1. n \in Nat /\ p \in Seq(E) /\ Len(p) = n + 1 /\ p[1] = x /\ \A i \in 1 .. n : p[i + 1] = s[i]
  OBVIOUS
<1>2. Reverse(p) = [i \in 1 .. n + 1 |-> p[((n + 1) - i) + 1]]
  BY <1>1 DEF Reverse
<1>3. Reverse(s) = [i \in 1 .. n |-> s[(n - i) + 1]] /\ Reverse(s) \in Seq(E)
  BY ReverseType DEF Reverse
<1>4. Len(Reverse(s)) = n
  BY <1>1, <1>3
<1>5. Append(Reverse(s), x) = [i \in 1 .. n + 1 |-> IF i = n + 1 THEN x ELSE Reverse(s)[i]]
  BY <1>3, <1>4
<1> HIDE DEF p, n
<1>6. ASSUME NEW i \in 1 .. n + 1
      PROVE  p[((n + 1) - i) + 1] = IF i = n + 1 THEN x ELSE Reverse(s)[i]
  <2>1. CASE i = n + 1
    BY <1>1, <2>1
  <2>2. CASE i # n + 1
    <3>1. i \in 1 .. n /\ (n - i) + 1 \in 1 .. n /\ ((n + 1) - i) + 1 = ((n - i) + 1) + 1
      BY <1>1, <2>2
    <3> QED
      BY <1>1, <1>3, <2>2, <3>1
  <2> QED
    BY <2>1, <2>2
<1> QED
  BY <1>2, <1>5, <1>6 DEF p

-----------------------------------------------------------------------------
\* Keep is taken apart at the seam of two sequences.
LEMMA KeepCat ==
  ASSUME NEW E, NEW s \in Seq(E), NEW u \in Seq(E), NEW S
  PROVE  Keep(s \o u, S) = Keep(s, S) \o Keep(u, S)
<1> DEFINE P == {v \in Seq(E) : Keep(s \o v, S) = Keep(s, S) \o Keep(v, S)}
<1>0. Keep(s, S) \in Seq(E)
  BY KeepType
<1>1. <<>> \in P
  <2>1. s \o <<>> = s /\ <<>> \in Seq(E) /\ Keep(s, S) \o <<>> = Keep(s, S)
    BY <1>0
  <2> QED
    BY <2>1, KeepEmpty
<1>2. ASSUME NEW v \in Seq(E), NEW x \in E, v \in P PROVE Append(v, x) \in P
  <2>1. s \o Append(v, x) = Append(s \o v, x) /\ s \o v \in Seq(E) /\ Append(v, x) \in Seq(E)
    OBVIOUS
  <2>2. Keep(v, S) \in Seq(E)
    BY KeepType
  <2>3. Keep(s, S) \o Append(Keep(v, S), x) = Append(Keep(s, S) \o Keep(v, S), x)
    BY <1>0, <2>2
  <2>4. Keep(Append(s \o v, x), S) = IF x \in S THEN Append(Keep(s \o v, S), x) ELSE Keep(s \o v, S)
    BY <2>1, KeepAppend
  <2>5. Keep(Append(v, x), S) = IF x \in S THEN Append(Keep(v, S), x) ELSE Keep(v, S)
    BY KeepAppend
  <2> QED
    BY <1>2, <2>1, <2>3, <2>4, <2>5
<1> HIDE DEF P
<1>3. u \in P
  BY <1>1, <1>2, SeqInduct
<1> QED
  BY <1>3 DEF P

\* What is kept depends only on which of the elements are in the set.
LEMMA KeepSame ==
  ASSUME NEW E, NEW s \in Seq(E), NEW S, NEW T, ToSet(s) \cap S = ToSet(s) \cap T
  PROVE  Keep(s, S) = Keep(s, T)
<1> DEFINE P == {v \in Seq(E) : ToSet(v) \cap S = ToSet(v) \cap T => Keep(v, S) = Keep(v, T)}
<1>1. <<>> \in P
  BY KeepEmpty
<1>2. ASSUME NEW v \in Seq(E), NEW x \in E, v \in P PROVE Append(v, x) \in P
  <2>1. Append(v, x) \in Seq(E)
    OBVIOUS
  <2>2. ToSet(Append(v, x)) = ToSet(v) \cup {x}
    BY ToSetAppend
  <2>3. Keep(Append(v, x), S) = IF x \in S THEN Append(Keep(v, S), x) ELSE Keep(v, S)
    BY KeepAppend
  <2>4. Keep(Append(v, x), T) = IF x \in T THEN Append(Keep(v, T), x) ELSE Keep(v, T)
    BY KeepAppend
  <2>5. ASSUME ToSet(Append(v, x)) \cap S = ToSet(Append(v, x)) \cap T
        PROVE  (x \in S <=> x \in T) /\ ToSet(v) \cap S = ToSet(v) \cap T
    BY <2>2, <2>5
  <2>6. ASSUME ToSet(Append(v, x)) \cap S = ToSet(Append(v, x)) \cap T
        PROVE  Keep(Append(v, x), S) = Keep(Append(v, x), T)
    BY <1>2, <2>3, <2>4, <2>5, <2>6
  <2> QED
    BY <2>1, <2>6
<1> HIDE DEF P
<1>3. s \in P
  BY <1>1, <1>2, SeqInduct
<1> QED
  BY <1>3 DEF P

\* The elements that are kept.
LEMMA KeepSet ==
  ASSUME NEW E, NEW s \in Seq(E), NEW S
  PROVE  ToSet(Keep(s, S)) = ToSet(s) \cap S
<1> DEFINE P == {v \in Seq(E) : ToSet(Keep(v, S)) = ToSet(v) \cap S}
<1>1. <<>> \in P
  BY KeepEmpty, ToSetEmpty
<1>2. ASSUME NEW v \in Seq(E), NEW x \in E, v \in P PROVE Append(v, x) \in P
  <2>1. Append(v, x) \in Seq(E) /\ Keep(v, S) \in Seq(E)
    BY KeepType
  <2>2. ToSet(Append(v, x)) = ToSet(v) \cup {x}
    BY ToSetAppend
  <2>3. Keep(Append(v, x), S) = IF x \in S THEN Append(Keep(v, S), x) ELSE Keep(v, S)
    BY KeepAppend
  <2>4. ToSet(Append(Keep(v, S), x)) = ToSet(Keep(v, S)) \cup {x}
    BY <2>1, ToSetAppend
  <2> QED
    BY <1>2, <2>1, <2>2, <2>3, <2>4
<1> HIDE DEF P
<1>3. s \in P
  BY <1>1, <1>2, SeqInduct
<1> QED
  BY <1>3 DEF P

\* Keeping twice is keeping what is in both sets.
LEMMA KeepTwice ==
  ASSUME NEW E, NEW s \in Seq(E), NEW S, NEW T
  PROVE  Keep(Keep(s, S), T) = Keep(s, S \cap T)
<1> DEFINE P == {v \in Seq(E) : Keep(Keep(v, S), T) = Keep(v, S \cap T)}
<1>1. <<>> \in P
  BY KeepEmpty
<1>2. ASSUME NEW v \in Seq(E), NEW x \in E, v \in P PROVE Append(v, x) \in P
  <2>1. Append(v, x) \in Seq(E) /\ Keep(v, S) \in Seq(E)
    BY KeepType
  <2>3. Keep(Append(v, x), S) = IF x \in S THEN Append(Keep(v, S), x) ELSE Keep(v, S)
    BY KeepAppend
  <2>4. Keep(Append(v, x), S \cap T)
          = IF x \in S \cap T THEN Append(Keep(v, S \cap T), x) ELSE Keep(v, S \cap T)
    BY KeepAppend
  <2>5. Keep(Append(Keep(v, S), x), T)
          = IF x \in T THEN Append(Keep(Keep(v, S), T), x) ELSE Keep(Keep(v, S), T)
    BY <2>1, KeepAppend
  <2>6. Keep(Keep(v, S), T) = Keep(v, S \cap T)
    BY <1>2
  <2>7. CASE x \notin S
    <3>1. Keep(Append(v, x), S) = Keep(v, S) /\ Keep(Append(v, x), S \cap T) = Keep(v, S \cap T)
      BY <2>3, <2>4, <2>7
    <3> QED
      BY <2>1, <2>6, <3>1
  <2>8. CASE x \in S
    <3>1. Keep(Append(v, x), S) = Append(Keep(v, S), x)
      BY <2>3, <2>8
    <3>2. Keep(Append(v, x), S \cap T)
            = IF x \in T THEN Append(Keep(v, S \cap T), x) ELSE Keep(v, S \cap T)
      BY <2>4, <2>8
    <3>3. Keep(Keep(Append(v, x), S), T) = Keep(Append(v, x), S \cap T)
      BY <2>5, <2>6, <3>1, <3>2, Zenon
    <3> QED
      BY <2>1, <3>3
  <2> QED
    BY <2>7, <2>8
<1> HIDE DEF P
<1>3. s \in P
  BY <1>1, <1>2, SeqInduct
<1> QED
  BY <1>3 DEF P

\* Everything is kept if everything is in the set.
LEMMA KeepAll ==
  ASSUME NEW E, NEW s \in Seq(E), NEW S, ToSet(s) \subseteq S
  PROVE  Keep(s, S) = s
<1> DEFINE P == {v \in Seq(E) : ToSet(v) \subseteq S => Keep(v, S) = v}
<1>1. <<>> \in P
  BY KeepEmpty
<1>2. ASSUME NEW v \in Seq(E), NEW x \in E, v \in P PROVE Append(v, x) \in P
  <2>1. Append(v, x) \in Seq(E)
    OBVIOUS
  <2>2. ToSet(Append(v, x)) = ToSet(v) \cup {x}
    BY ToSetAppend
  <2>3. Keep(Append(v, x), S) = IF x \in S THEN Append(Keep(v, S), x) ELSE Keep(v, S)
    BY KeepAppend
  <2> QED
    BY <1>2, <2>1, <2>2, <2>3
<1> HIDE DEF P
<1>3. s \in P
  BY <1>1, <1>2, SeqInduct
<1> QED
  BY <1>3 DEF P

-----------------------------------------------------------------------------
\* An element appended to a sequence without duplicates.
LEMMA InjectiveAppend ==
  ASSUME NEW E, NEW s \in Seq(E), NEW x \in E
  PROVE  IsInjective(Append(s, x)) <=> IsInjective(s) /\ x \notin ToSet(s)
<1> DEFINE a == Append(s, x)
           n == Len(s)
<1>1. n \in Nat /\ DOMAIN s = 1 .. n /\ DOMAIN a = 1 .. n + 1 /\ a[n + 1] = x /\ \A i \in 1 .. n : a[i] = s[i]
  OBVIOUS
<1> HIDE DEF a, n
<1>2. n + 1 \notin 1 .. n /\ \A i \in 1 .. n + 1 : i \in 1 .. n \/ i = n + 1
  BY <1>1
<1>3. n + 1 \in 1 .. n + 1 /\ \A i \in 1 .. n : i \in 1 .. n + 1
  BY <1>1
<1>4. \A y : y \in ToSet(s) <=> \E i \in 1 .. n : y = s[i]
  BY <1>1 DEF ToSet
<1>5. ASSUME IsInjective(a) PROVE IsInjective(s) /\ x \notin ToSet(s)
  BY <1>1, <1>2, <1>3, <1>4, <1>5 DEF IsInjective
<1>6. ASSUME IsInjective(s), x \notin ToSet(s) PROVE IsInjective(a)
  BY <1>1, <1>2, <1>3, <1>4, <1>6 DEF IsInjective
<1> QED
  BY <1>5, <1>6 DEF a

\* What is kept of a sequence without duplicates has none.
LEMMA InjectiveKeep ==
  ASSUME NEW E, NEW s \in Seq(E), NEW S, IsInjective(s)
  PROVE  IsInjective(Keep(s, S))
<1> DEFINE P == {v \in Seq(E) : IsInjective(v) => IsInjective(Keep(v, S))}
<1>1. <<>> \in P
  BY KeepEmpty
<1>2. ASSUME NEW v \in Seq(E), NEW x \in E, v \in P PROVE Append(v, x) \in P
  <2>1. Append(v, x) \in Seq(E) /\ Keep(v, S) \in Seq(E)
    BY KeepType
  <2>2. Keep(Append(v, x), S) = IF x \in S THEN Append(Keep(v, S), x) ELSE Keep(v, S)
    BY KeepAppend
  <2>3. ToSet(Keep(v, S)) = ToSet(v) \cap S
    BY KeepSet
  <2>4. IsInjective(Append(v, x)) <=> IsInjective(v) /\ x \notin ToSet(v)
    BY InjectiveAppend
  <2>5. IsInjective(Append(Keep(v, S), x)) <=> IsInjective(Keep(v, S)) /\ x \notin ToSet(Keep(v, S))
    BY <2>1, InjectiveAppend
  <2>6. ASSUME IsInjective(Append(v, x)) PROVE IsInjective(Keep(Append(v, x), S))
    BY <1>2, <2>2, <2>3, <2>4, <2>5, <2>6
  <2> QED
    BY <2>1, <2>6
<1> HIDE DEF P
<1>3. s \in P
  BY <1>1, <1>2, SeqInduct
<1> QED
  BY <1>3 DEF P

\* The first element of a sequence without duplicates is not in the rest.
LEMMA InjectiveTail ==
  ASSUME NEW E, NEW s \in Seq(E), s # <<>>
  PROVE  /\ Head(s) \in E /\ Tail(s) \in Seq(E) /\ s = <<Head(s)>> \o Tail(s)
         /\ ToSet(s) = {Head(s)} \cup ToSet(Tail(s))
         /\ IsInjective(s) => IsInjective(Tail(s)) /\ Head(s) \notin ToSet(Tail(s))
<1> DEFINE n == Len(s)
           t == Tail(s)
<1>1. n \in Nat \ {0} /\ DOMAIN s = 1 .. n /\ DOMAIN t = 1 .. n - 1 /\ \A i \in 1 .. n - 1 : t[i] = s[i + 1]
  OBVIOUS
<1>2. Head(s) \in E /\ t \in Seq(E) /\ s = <<Head(s)>> \o t /\ Head(s) = s[1]
  OBVIOUS
<1> HIDE DEF t, n
<1>3. \A y : y \in ToSet(t) <=> \E i \in 1 .. n - 1 : y = t[i]
  BY <1>1 DEF ToSet
<1>4. \A y : y \in ToSet(s) <=> \E i \in 1 .. n : y = s[i]
  BY <1>1 DEF ToSet
<1>5. 1 \in 1 .. n /\ \A i \in 1 .. n - 1 : i + 1 \in 1 .. n /\ i + 1 # 1
  BY <1>1
<1>6. \A i \in 1 .. n : i = 1 \/ (i - 1 \in 1 .. n - 1 /\ (i - 1) + 1 = i)
  BY <1>1
<1>7. \A y : y \in ToSet(s) <=> y \in {Head(s)} \cup ToSet(t)
  BY <1>1, <1>2, <1>3, <1>4, <1>5, <1>6
<1>8. ASSUME IsInjective(s) PROVE IsInjective(t) /\ Head(s) \notin ToSet(t)
  <2>1. \A i, j \in 1 .. n : s[i] = s[j] => i = j
    BY <1>1, <1>8 DEF IsInjective
  <2>2. ASSUME NEW i \in 1 .. n - 1, NEW j \in 1 .. n - 1, t[i] = t[j] PROVE i = j
    <3>1. i + 1 = j + 1
      BY <1>1, <1>5, <2>1, <2>2
    <3> QED
      BY <3>1
  <2>3. IsInjective(t)
    BY <1>1, <2>2 DEF IsInjective
  <2>4. ASSUME NEW i \in 1 .. n - 1, t[i] = s[1] PROVE FALSE
    BY <1>1, <1>5, <2>1, <2>4
  <2> QED
    BY <1>2, <1>3, <2>3, <2>4
<1>9. ToSet(s) = {Head(s)} \cup ToSet(t)
  BY <1>7
<1> QED
  BY <1>2, <1>8, <1>9 DEF t

\* Two sequences without duplicates and without a common element.
LEMMA InjectiveCat ==
  ASSUME NEW E, NEW s \in Seq(E), NEW u \in Seq(E), IsInjective(s), IsInjective(u),
         ToSet(s) \cap ToSet(u) = {}
  PROVE  IsInjective(s \o u)
<1> DEFINE P == {v \in Seq(E) : IsInjective(v) /\ ToSet(s) \cap ToSet(v) = {} => IsInjective(s \o v)}
<1>1. <<>> \in P
  <2>1. s \o <<>> = s
    OBVIOUS
  <2> QED
    BY <2>1
<1>2. ASSUME NEW v \in Seq(E), NEW x \in E, v \in P PROVE Append(v, x) \in P
  <2> DEFINE w == s \o v
  <2>1. s \o Append(v, x) = Append(w, x) /\ w \in Seq(E) /\ Append(v, x) \in Seq(E)
    OBVIOUS
  <2>2. ToSet(w) = ToSet(s) \cup ToSet(v)
    BY ToSetCat
  <2> HIDE DEF w
  <2>3. ToSet(Append(v, x)) = ToSet(v) \cup {x}
    BY ToSetAppend
  <2>4. IsInjective(Append(v, x)) <=> IsInjective(v) /\ x \notin ToSet(v)
    BY InjectiveAppend
  <2>5. IsInjective(Append(w, x)) <=> IsInjective(w) /\ x \notin ToSet(w)
    BY <2>1, InjectiveAppend
  <2>6. ASSUME IsInjective(Append(v, x)), ToSet(s) \cap ToSet(Append(v, x)) = {}
        PROVE  IsInjective(Append(w, x))
    <3>1. IsInjective(v) /\ ToSet(s) \cap ToSet(v) = {} /\ x \notin ToSet(v) /\ x \notin ToSet(s)
      BY <2>3, <2>4, <2>6
    <3> QED
      BY <1>2, <2>2, <2>5, <3>1 DEF w
  <2> QED
    BY <2>1, <2>6
<1> HIDE DEF P
<1>3. u \in P
  BY <1>1, <1>2, SeqInduct
<1> QED
  BY <1>3 DEF P

\* An element put first.
LEMMA ToSetPush ==
  ASSUME NEW E, NEW x \in E, NEW s \in Seq(E)
  PROVE  ToSet(<<x>> \o s) = ToSet(s) \cup {x}
<1> DEFINE f == <<x>>
<1>1. f \in Seq(E) /\ ToSet(f) = {x}
  BY DEF ToSet
<1> HIDE DEF f
<1>2. ToSet(f \o s) = ToSet(f) \cup ToSet(s)
  BY <1>1, ToSetCat
<1> QED
  BY <1>1, <1>2 DEF f

\* Keep from the front: the first element is kept or not, the rest as before.
LEMMA KeepPush ==
  ASSUME NEW E, NEW x \in E, NEW s \in Seq(E), NEW S
  PROVE  Keep(<<x>> \o s, S) = IF x \in S THEN <<x>> \o Keep(s, S) ELSE Keep(s, S)
<1> DEFINE f == <<x>>
           e == <<>>
           k == Keep(s, S)
<1>1. f \in Seq(E) /\ e \in Seq(E) /\ f = Append(e, x)
  OBVIOUS
<1>2. k \in Seq(E)
  BY KeepType
<1>3. e \o k = k /\ Append(e, x) \o k = f \o k
  BY <1>2
<1>4. Keep(e, S) = e
  BY KeepEmpty
<1> HIDE DEF f, e, k
<1>5. Keep(f, S) = IF x \in S THEN Append(e, x) ELSE e
  BY <1>1, <1>4, KeepAppend
<1>6. Keep(f \o s, S) = Keep(f, S) \o Keep(s, S)
  <2>1. f \in Seq(E)
    BY <1>1
  <2> QED
    BY <2>1, KeepCat
<1> QED
  BY <1>3, <1>5, <1>6 DEF f, k

\* Appending to the end of two joined sequences.
LEMMA CatAppend ==
  ASSUME NEW E, NEW s \in Seq(E), NEW u \in Seq(E), NEW x \in E
  PROVE  s \o Append(u, x) = Append(s \o u, x)
OBVIOUS

\* Concatenation and an element put in front.
LEMMA CatPush ==
  ASSUME NEW E, NEW x \in E, NEW s \in Seq(E), NEW u \in Seq(E)
  PROVE  (<<x>> \o s) \o u = <<x>> \o (s \o u)
OBVIOUS

\* The elements of a sequence are of its kind.
LEMMA ToSetType == ASSUME NEW E, NEW s \in Seq(E) PROVE ToSet(s) \subseteq E
BY DEF ToSet
=============================================================================
