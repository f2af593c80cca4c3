----------------------------- MODULE AIOProofs ------------------------------
(***************************************************************************)
(* Proofs about AIO, for any numbers of callers, descriptors, threads and  *)
(* requests.                                                               *)
(***************************************************************************)
EXTENDS AIO, Lemmas, SequenceTheorems, FiniteSetTheorems

-----------------------------------------------------------------------------
(* The queues of an entry                                                  *)

\* What the loops of aio_insert rely on: the queue is sorted, and the other one
\* has http requests only.
SortedSeq(s) == \A j, k \in DOMAIN s : j < k => PrioOf[s[j]] >= PrioOf[s[k]]
Queues == [todo : Seq(Ops), http : Seq(Ops)]
Good(q) == SortedSeq(q.todo) /\ \A o \in ToSet(q.http) : PrioOf[o] = 0

\* The requests of priority p in both queues, in order.
Line(q, p) == Keep(q.todo \o q.http, OfPrio(p))

\* Nothing is kept if nothing is in the set.
LEMMA KeepNone ==
  ASSUME NEW E, NEW s \in Seq(E), NEW S, ToSet(s) \cap S = {}
  PROVE  Keep(s, S) = <<>>
<1> DEFINE k == Keep(s, S)
<1>1. k \in Seq(E) /\ ToSet(k) = {}
  BY KeepType, KeepSet
<1> HIDE DEF k
<1>2. k = <<>>
  <2> SUFFICES ASSUME k # <<>> PROVE FALSE
    OBVIOUS
  <2>1. k[1] \in ToSet(k)
    BY <1>1 DEF ToSet
  <2> QED
    BY <1>1, <2>1
<1> QED
  BY <1>2 DEF k

\* The place that the walk from the tail finds: behind the last request of no
\* lower priority.
LEMMA WalkEnds ==
  ASSUME NEW q \in Seq(Ops), NEW o \in Ops
  PROVE  \E k \in 0 .. Len(q) :
           /\ k = 0 \/ PrioOf[q[k]] >= PrioOf[o]
           /\ \A j \in k + 1 .. Len(q) : PrioOf[q[j]] < PrioOf[o]
<1> DEFINE T == {n \in 0 .. Len(q) : n = Len(q) \/ PrioOf[q[Len(q) - n]] >= PrioOf[o]}
<1>1. Len(q) \in Nat /\ Len(q) \in T /\ T \subseteq Nat
  OBVIOUS
<1>2. PICK n \in T : \A m \in T : n <= m
  <2> HIDE DEF T
  <2>1. T # {}
    BY <1>1
  <2> QED
    BY <1>1, <2>1, NatMin
<1> DEFINE k == Len(q) - n
<1>3. k \in 0 .. Len(q) /\ (k = 0 \/ PrioOf[q[k]] >= PrioOf[o])
  BY <1>1
<1>4. ASSUME NEW j \in k + 1 .. Len(q) PROVE PrioOf[q[j]] < PrioOf[o]
  <2> DEFINE m == Len(q) - j
  <2>1. m \in 0 .. Len(q) /\ m < n /\ Len(q) - m = j /\ j \in DOMAIN q
    BY <1>1, <1>3
  <2>2. m \notin T
    <3> HIDE DEF T, m
    <3>1. n \in Nat /\ m \in Nat
      BY <1>1, <2>1
    <3> QED
      BY <1>2, <2>1, <3>1
  <2>3. ~(PrioOf[q[j]] >= PrioOf[o])
    BY <2>1, <2>2
  <2>4. PrioOf[q[j]] \in Int /\ PrioOf[o] \in Int
    BY <2>1, ConstantsOK
  <2> QED
    BY <2>3, <2>4
<1> QED
  BY <1>3, <1>4

\* A request is inserted behind those that have its priority.
LEMMA InsertSortedKeeps ==
  ASSUME NEW q \in Seq(Ops), NEW o \in Ops, SortedSeq(q)
  PROVE  /\ InsertSorted(q, o) \in Seq(Ops)
         /\ SortedSeq(InsertSorted(q, o))
         /\ \A p : Keep(InsertSorted(q, o), OfPrio(p)) = Keep(Append(q, o), OfPrio(p))
<1> DEFINE P(k) == /\ k = 0 \/ PrioOf[q[k]] >= PrioOf[o]
                   /\ \A j \in k + 1 .. Len(q) : PrioOf[q[j]] < PrioOf[o]
           k == CHOOSE k \in 0 .. Len(q) : P(k)
           A == SubSeq(q, 1, k)
           B == SubSeq(q, k + 1, Len(q))
           r == (A \o <<o>>) \o B
<1>1. k \in 0 .. Len(q) /\ P(k)
  <2>1. \E j \in 0 .. Len(q) : P(j)
    BY WalkEnds
  <2> QED
    BY <2>1
<1>2. InsertSorted(q, o) = r
  <2>1. (k + 1) - 1 = k
    BY <1>1
  <2> QED
    BY <2>1 DEF InsertSorted, InsertAt
<1> HIDE DEF k
<1>3. /\ A \in Seq(Ops) /\ Len(A) = k /\ \A j \in 1 .. k : A[j] = q[j]
      /\ B \in Seq(Ops) /\ Len(B) = Len(q) - k /\ \A j \in 1 .. Len(q) - k : B[j] = q[k + j]
  BY <1>1
<1>4. A \o B = q
  <2> DEFINE u == A \o B
  <2> HIDE DEF A, B
  <2>0. k \in Nat /\ Len(q) \in Nat /\ k <= Len(q) /\ A \in Seq(Ops) /\ B \in Seq(Ops)
    BY <1>1, <1>3
  <2>1. u \in Seq(Ops) /\ Len(u) = Len(q)
    <3>1. Len(u) = Len(A) + Len(B)
      BY <2>0
    <3> QED
      BY <1>3, <2>0, <3>1
  <2>2. \A j \in 1 .. Len(q) : u[j] = q[j]
    <3> SUFFICES ASSUME NEW j \in 1 .. Len(q) PROVE u[j] = q[j]
      OBVIOUS
    <3>1. CASE j <= k
      BY <1>1, <1>3, <3>1
    <3>2. CASE j > k
      <4>1. u[j] = B[j - k] /\ j - k \in 1 .. Len(q) - k /\ k + (j - k) = j
        BY <1>1, <1>3, <3>2
      <4> QED
        BY <1>3, <4>1
    <3>3. j <= k \/ j > k
      BY <2>0
    <3> QED
      BY <3>1, <3>2, <3>3
  <2> HIDE DEF u
  <2>3. u = q
    BY <2>1, <2>2
  <2> QED
    BY <2>3 DEF u
<1>5. \A j \in 1 .. Len(B) : PrioOf[B[j]] < PrioOf[o]
  <2> SUFFICES ASSUME NEW j \in 1 .. Len(B) PROVE PrioOf[B[j]] < PrioOf[o]
    OBVIOUS
  <2>1. B[j] = q[k + j] /\ k + j \in k + 1 .. Len(q)
    BY <1>1, <1>3
  <2> HIDE DEF B
  <2> QED
    BY <1>1, <2>1
<1>6. \A j \in 1 .. Len(q) : PrioOf[q[j]] \in Int
  BY ConstantsOK
<1>7. PrioOf[o] \in Int
  BY ConstantsOK
<1>8. \A j \in 1 .. k : PrioOf[q[j]] >= PrioOf[o]
  <2> SUFFICES ASSUME NEW j \in 1 .. k PROVE PrioOf[q[j]] >= PrioOf[o]
    OBVIOUS
  <2>1. k # 0 /\ k \in 1 .. Len(q) /\ j \in 1 .. Len(q)
    BY <1>1
  <2>2. PrioOf[q[k]] >= PrioOf[o]
    BY <1>1, <2>1
  <2>3. PrioOf[q[j]] >= PrioOf[q[k]]
    <3>1. CASE j = k
      BY <1>6, <2>1, <3>1
    <3>2. CASE j < k
      BY <2>1, <3>2 DEF SortedSeq
    <3> QED
      BY <1>1, <2>1, <3>1, <3>2
  <2> QED
    BY <1>6, <1>7, <2>1, <2>2, <2>3
<1> HIDE DEF A, B
<1>9. /\ r \in Seq(Ops) /\ Len(r) = Len(q) + 1
      /\ \A j \in 1 .. k : r[j] = q[j]
      /\ r[k + 1] = o
      /\ \A j \in k + 2 .. Len(q) + 1 : r[j] = q[j - 1]
  <2> DEFINE u == Append(A, o)
  <2>1. u \in Seq(Ops) /\ Len(u) = k + 1 /\ u[k + 1] = o /\ \A j \in 1 .. k : u[j] = A[j]
    BY <1>1, <1>3
  <2>2. r = u \o B
    BY <1>3
  <2> HIDE DEF u, r
  <2>3. r \in Seq(Ops) /\ Len(r) = Len(q) + 1
    BY <1>1, <1>3, <2>1, <2>2
  <2>4. \A j \in 1 .. k + 1 : r[j] = u[j]
    BY <1>1, <1>3, <2>1, <2>2
  <2>5. \A j \in k + 2 .. Len(q) + 1 : r[j] = B[j - (k + 1)]
    BY <1>1, <1>3, <2>1, <2>2
  <2>6. \A j \in k + 2 .. Len(q) + 1 : j - (k + 1) \in 1 .. Len(q) - k /\ k + (j - (k + 1)) = j - 1
    BY <1>1
  <2>7. \A j \in 1 .. k : j \in 1 .. k + 1
    BY <1>1
  <2>8. k + 1 \in 1 .. k + 1
    BY <1>1
  <2> QED
    BY <1>3, <2>1, <2>3, <2>4, <2>5, <2>6, <2>7, <2>8
<1> HIDE DEF r
<1>10. SortedSeq(r)
  <2> SUFFICES ASSUME NEW i \in 1 .. Len(q) + 1, NEW j \in 1 .. Len(q) + 1, i < j
               PROVE  PrioOf[r[i]] >= PrioOf[r[j]]
    BY <1>9 DEF SortedSeq
  <2>0. k \in Nat /\ Len(q) \in Nat
    BY <1>1
  <2>1. CASE j <= k
    <3>1. r[i] = q[i] /\ r[j] = q[j] /\ i \in DOMAIN q /\ j \in DOMAIN q
      BY <1>1, <1>9, <2>0, <2>1
    <3> QED
      BY <3>1 DEF SortedSeq
  <2>2. CASE j = k + 1
    <3>1. r[i] = q[i] /\ r[j] = o /\ i \in 1 .. k
      BY <1>1, <1>9, <2>0, <2>2
    <3> QED
      BY <1>8, <3>1
  <2>3. CASE j > k + 1 /\ i <= k
    <3>1. r[i] = q[i] /\ r[j] = q[j - 1] /\ i \in DOMAIN q /\ j - 1 \in DOMAIN q /\ i < j - 1
      BY <1>1, <1>9, <2>0, <2>3
    <3> QED
      BY <3>1 DEF SortedSeq
  <2>4. CASE j > k + 1 /\ i = k + 1
    <3>1. r[i] = o /\ r[j] = q[j - 1] /\ j - 1 \in k + 1 .. Len(q) /\ j - 1 \in 1 .. Len(q)
      BY <1>1, <1>9, <2>0, <2>4
    <3>2. PrioOf[q[j - 1]] < PrioOf[o]
      BY <1>1, <3>1
    <3> QED
      BY <1>6, <1>7, <3>1, <3>2
  <2>5. CASE i > k + 1
    <3>1. r[i] = q[i - 1] /\ r[j] = q[j - 1] /\ i - 1 \in DOMAIN q /\ j - 1 \in DOMAIN q /\ i - 1 < j - 1
      BY <1>1, <1>9, <2>0, <2>5
    <3> QED
      BY <3>1 DEF SortedSeq
  <2> QED
    BY <2>0, <2>1, <2>2, <2>3, <2>4, <2>5
<1>11. ASSUME NEW p PROVE Keep(r, OfPrio(p)) = Keep(Append(q, o), OfPrio(p))
  <2> DEFINE S == OfPrio(p)
             Ao == Append(A, o)
             KA == Keep(A, S)
             KB == Keep(B, S)
             z == Append(q, o)
  <2>0. A \in Seq(Ops) /\ B \in Seq(Ops) /\ o \in S => ToSet(B) \cap S = {}
    <3>1. \A x \in ToSet(B) : \E j \in 1 .. Len(B) : x = B[j]
      BY <1>3 DEF ToSet
    <3> QED
      BY <1>3, <1>5, <1>7, <3>1 DEF OfPrio
  <2> HIDE DEF S
  <2>1. A \in Seq(Ops) /\ B \in Seq(Ops)
    BY <1>3
  <2>2. KA \in Seq(Ops) /\ KB \in Seq(Ops)
    BY <2>1, KeepType
  <2>3. Ao \in Seq(Ops) /\ Keep(Ao, S) = IF o \in S THEN Append(KA, o) ELSE KA
    BY <2>1, KeepAppend
  <2>4. r = Ao \o B
    BY <2>1 DEF r
  <2>5. Keep(z, S) = IF o \in S THEN Append(Keep(q, S), o) ELSE Keep(q, S)
    BY KeepAppend
  <2>6. Keep(A \o B, S) = KA \o KB
    BY <2>1, KeepCat
  <2>7. o \in S => KB = <<>>
    BY <2>0, <2>1, KeepNone
  <2> HIDE DEF Ao, KA, KB, z
  <2>8. Keep(Ao \o B, S) = Keep(Ao, S) \o Keep(B, S)
    <3>1. Ao \in Seq(Ops) /\ B \in Seq(Ops)
      BY <2>1, <2>3
    <3> QED
      BY <3>1, KeepCat
  <2>9. Keep(r, S) = Keep(Ao, S) \o KB /\ Keep(q, S) = KA \o KB
    BY <1>4, <2>4, <2>6, <2>8 DEF KB
  <2>10. CASE o \in S
    <3>1. Append(KA, o) \o <<>> = Append(KA, o) /\ KA \o <<>> = KA
      BY <2>2
    <3> QED
      BY <2>3, <2>5, <2>7, <2>9, <2>10, <3>1 DEF z, S
  <2>11. CASE o \notin S
    BY <2>3, <2>5, <2>9, <2>11 DEF z, S
  <2> QED
    BY <2>10, <2>11
<1> QED
  BY <1>2, <1>9, <1>10, <1>11

\* aio_insert keeps the queues good, and puts a request last in its priority.
LEMMA InsertKeeps ==
  ASSUME NEW q \in Queues, Good(q), NEW o \in Ops
  PROVE  /\ aio_insert(q, o) \in Queues
         /\ Good(aio_insert(q, o))
         /\ \A p : Line(aio_insert(q, o), p)
                     = IF o \in OfPrio(p) THEN Append(Line(q, p), o) ELSE Line(q, p)
<1> DEFINE a == q.todo
           h == q.http
           r == aio_insert(q, o)
<1>1. a \in Seq(Ops) /\ h \in Seq(Ops) /\ q = [todo |-> a, http |-> h]
  BY DEF Queues
<1>2. SortedSeq(a) /\ \A x \in ToSet(h) : PrioOf[x] = 0
  BY DEF Good
<1> HIDE DEF a, h
<1>3. CASE PrioOf[o] = 0
  <2> DEFINE g == Append(h, o)
  <2>1. r = [todo |-> a, http |-> g] /\ g \in Seq(Ops)
    <3>1. r = [q EXCEPT !.http = g]
      BY <1>3 DEF aio_insert, h
    <3>2. g \in Seq(Ops)
      BY <1>1
    <3> HIDE DEF g, r
    <3> QED
      BY <1>1, <3>1, <3>2
  <2>2. ToSet(g) = ToSet(h) \cup {o}
    <3>1. h \in Seq(Ops)
      BY <1>1
    <3> QED
      BY <3>1, ToSetAppend
  <2> HIDE DEF g, r
  <2>3. r \in Queues /\ Good(r)
    BY <1>1, <1>2, <1>3, <2>1, <2>2 DEF Queues, Good
  <2>4. ASSUME NEW p PROVE Line(r, p) = IF o \in OfPrio(p) THEN Append(Line(q, p), o) ELSE Line(q, p)
    <3> DEFINE u == a \o h
    <3>1. u \in Seq(Ops) /\ a \o g = Append(u, o)
      BY <1>1, CatAppend DEF g
    <3>2. Line(r, p) = Keep(a \o g, OfPrio(p)) /\ Line(q, p) = Keep(u, OfPrio(p))
      BY <2>1 DEF Line, a, h
    <3> HIDE DEF u
    <3>3. Keep(Append(u, o), OfPrio(p)) = IF o \in OfPrio(p) THEN Append(Keep(u, OfPrio(p)), o) ELSE Keep(u, OfPrio(p))
      BY <3>1, KeepAppend
    <3> QED
      BY <3>1, <3>2, <3>3
  <2> QED
    BY <2>3, <2>4 DEF r
<1>4. CASE PrioOf[o] # 0
  <2> DEFINE b == InsertSorted(a, o)
  <2>1. r = [todo |-> b, http |-> h]
    BY <1>1, <1>4 DEF aio_insert
  <2>2. b \in Seq(Ops) /\ SortedSeq(b) /\ \A p : Keep(b, OfPrio(p)) = Keep(Append(a, o), OfPrio(p))
    BY <1>1, <1>2, InsertSortedKeeps
  <2> HIDE DEF b, r
  <2>3. r \in Queues /\ Good(r)
    BY <1>1, <1>2, <2>1, <2>2 DEF Queues, Good
  <2>4. ASSUME NEW p PROVE Line(r, p) = IF o \in OfPrio(p) THEN Append(Line(q, p), o) ELSE Line(q, p)
    <3> DEFINE S == OfPrio(p)
               Ka == Keep(a, S)
               Kh == Keep(h, S)
    <3>1. o \in S => ToSet(h) \cap S = {}
      BY <1>2, <1>4 DEF OfPrio
    <3>2. Line(r, p) = Keep(b \o h, S) /\ Line(q, p) = Keep(a \o h, S)
      BY <2>1 DEF Line, a, h
    <3>3. Keep(b, S) = Keep(Append(a, o), S)
      BY <2>2
    <3> HIDE DEF S
    <3>4. Keep(b \o h, S) = Keep(b, S) \o Kh /\ Keep(a \o h, S) = Ka \o Kh
      BY <1>1, <2>2, KeepCat
    <3>5. Keep(Append(a, o), S) = IF o \in S THEN Append(Ka, o) ELSE Ka
      BY <1>1, KeepAppend
    <3>6. o \in S => Kh = <<>>
      BY <1>1, <3>1, KeepNone
    <3>7. Ka \in Seq(Ops)
      BY <1>1, KeepType
    <3> HIDE DEF Ka, Kh
    <3>8. Append(Ka, o) \o <<>> = Append(Ka, o) /\ Ka \o <<>> = Ka
      BY <3>7
    <3>9. CASE o \in S
      <4>1. Line(r, p) = Append(Ka, o) /\ Line(q, p) = Ka
        BY <3>2, <3>3, <3>4, <3>5, <3>6, <3>8, <3>9
      <4> QED
        BY <3>9, <4>1 DEF S
    <3>10. CASE o \notin S
      <4>1. Line(r, p) = Line(q, p)
        BY <3>2, <3>3, <3>4, <3>5, <3>10
      <4> QED
        BY <3>10, <4>1 DEF S
    <3> QED
      BY <3>9, <3>10
  <2> QED
    BY <2>3, <2>4 DEF r
<1> QED
  BY <1>3, <1>4

\* The rounds of the loop of aio_move.
LEMMA MovedDef ==
  ASSUME NEW q \in Queues, Good(q), NEW s \in Seq(Ops)
  PROVE  /\ Moved(q, s)[0] = q
         /\ \A k \in 1 .. Len(s) : Moved(q, s)[k] = aio_insert(Moved(q, s)[k - 1], s[k])
<1> DEFINE n == Len(s)
           D == {r \in Queues : Good(r)}
           F == [k \in 1 .. n |-> [r \in D |-> aio_insert(r, s[k])]]
           Body(f, k) == IF k = 0 THEN q ELSE aio_insert(f[k - 1], s[k])
<1>1. n \in Nat /\ q \in D
  OBVIOUS
<1>2. \A k \in 1 .. n : \A r \in D : aio_insert(r, s[k]) \in D
  <2>1. \A k \in 1 .. n : s[k] \in Ops
    OBVIOUS
  <2> QED
    BY <2>1, InsertKeeps
<1>3. F \in [1 .. n -> [D -> D]]
  BY <1>2
<1>4. \A k \in 1 .. n : \A r \in D : F[k][r] = aio_insert(r, s[k])
  OBVIOUS
<1> HIDE DEF D, F
<1>5. PICK f : IsRun(f, n, D, q, F)
  BY <1>1, <1>3, RunExists
<1>6. f \in [0 .. n -> D] /\ f[0] = q /\ \A k \in 1 .. n : f[k] = F[k][f[k - 1]]
  BY <1>5 DEF IsRun
<1>7. ASSUME NEW k \in 1 .. n PROVE f[k] = aio_insert(f[k - 1], s[k])
  <2>1. k - 1 \in 0 .. n
    BY <1>1
  <2>2. f[k - 1] \in D
    BY <1>6, <2>1
  <2> QED
    BY <1>4, <1>6, <2>2
<1>8. \A k \in 0 .. n : k = 0 \/ (k \in 1 .. n /\ k # 0)
  BY <1>1
<1>9. f = [k \in 0 .. n |-> Body(f, k)]
  <2>1. ASSUME NEW k \in 0 .. n PROVE f[k] = Body(f, k)
    BY <1>6, <1>7, <1>8
  <2> HIDE DEF Body
  <2> QED
    BY <1>6, <2>1
<1>10. Moved(q, s) = [k \in 0 .. n |-> Body(Moved(q, s), k)]
  BY <1>9 DEF Moved
<1> DEFINE K == Moved(q, s)
<1> HIDE DEF K
<1>11. \A k \in 0 .. n : K[k] = Body(K, k)
  <2>1. K = [k \in 0 .. n |-> Body(K, k)]
    BY <1>10 DEF K
  <2> HIDE DEF Body
  <2> QED
    BY <2>1
<1>12. 0 \in 0 .. n /\ \A k \in 1 .. n : k \in 0 .. n /\ k # 0
  BY <1>1
<1> QED
  BY <1>11, <1>12 DEF K

\* aio_move puts the requests of the list, one by one, behind those that are in
\* the queues.
LEMMA MoveKeeps ==
  ASSUME NEW q \in Queues, Good(q), NEW s \in Seq(Ops)
  PROVE  /\ Moved(q, s)[Len(s)] \in Queues
         /\ Good(Moved(q, s)[Len(s)])
         /\ \A p : Line(Moved(q, s)[Len(s)], p) = Line(q, p) \o Keep(s, OfPrio(p))
<1> DEFINE M == Moved(q, s)
           n == Len(s)
           z(k) == SubSeq(s, 1, k)
           OK(k) == /\ M[k] \in Queues /\ Good(M[k])
                    /\ \A p : Line(M[k], p) = Line(q, p) \o Keep(z(k), OfPrio(p))
           P == {k \in Nat : k <= n => OK(k)}
<1>1. n \in Nat /\ M[0] = q /\ \A k \in 1 .. n : M[k] = aio_insert(M[k - 1], s[k])
  BY MovedDef
<1> HIDE DEF M
<1>2. ASSUME NEW p PROVE Line(q, p) \in Seq(Ops)
  <2>1. q.todo \o q.http \in Seq(Ops)
    BY DEF Queues
  <2> QED
    BY <2>1, KeepType DEF Line
<1>3. z(0) = <<>> /\ z(n) = s
  <2>1. z(n) = s
    BY SubSeqFull
  <2> QED
    BY <2>1
<1>4. OK(0)
  <2>1. ASSUME NEW p PROVE Line(q, p) \o Keep(z(0), OfPrio(p)) = Line(q, p)
    <3>1. Keep(z(0), OfPrio(p)) = <<>>
      BY <1>3, KeepEmpty
    <3> QED
      BY <1>2, <3>1
  <2> QED
    BY <1>1, <2>1
<1>5. ASSUME NEW k \in Nat, k \in P PROVE k + 1 \in P
  <2> SUFFICES ASSUME k + 1 <= n PROVE OK(k + 1)
    OBVIOUS
  <2> DEFINE x == s[k + 1]
             m == M[k]
             y == z(k)
             r == M[k + 1]
  <2>1. k + 1 \in 1 .. n /\ (k + 1) - 1 = k /\ OK(k) /\ x \in Ops
    BY <1>1, <1>5
  <2>2. y \in Seq(Ops) /\ z(k + 1) = Append(y, x)
    <3>1. y \in Seq(Ops)
      BY <1>1, <2>1
    <3>2. z(k + 1) = SubSeq(s, 1, (k + 1) - 1) \o << s[k + 1] >>
      BY <1>1, <2>1, SubSeqRecursiveSecond
    <3> QED
      BY <2>1, <3>1, <3>2
  <2>3. r = aio_insert(m, x) /\ m \in Queues /\ Good(m) /\ \A p : Line(m, p) = Line(q, p) \o Keep(y, OfPrio(p))
    BY <1>1, <2>1
  <2> HIDE DEF z, x, m, y, r
  <2>4. /\ r \in Queues /\ Good(r)
        /\ \A p : Line(r, p) = IF x \in OfPrio(p) THEN Append(Line(m, p), x) ELSE Line(m, p)
    BY <2>1, <2>3, InsertKeeps
  <2>5. ASSUME NEW p PROVE Line(r, p) = Line(q, p) \o Keep(Append(y, x), OfPrio(p))
    <3> DEFINE S == OfPrio(p)
               L == Line(q, p)
               K == Keep(y, S)
    <3>1. L \in Seq(Ops)
      BY <1>2
    <3>2. K \in Seq(Ops)
      BY <2>2, KeepType
    <3>3. Keep(Append(y, x), S) = IF x \in S THEN Append(K, x) ELSE K
      BY <2>1, <2>2, KeepAppend
    <3>4. Line(m, p) = L \o K /\ Line(r, p) = IF x \in S THEN Append(Line(m, p), x) ELSE Line(m, p)
      BY <2>3, <2>4
    <3> HIDE DEF L, K, S
    <3>5. L \o Append(K, x) = Append(L \o K, x)
      BY <2>1, <3>1, <3>2, CatAppend
    <3>6. Line(r, p) = L \o Keep(Append(y, x), S)
      BY <3>3, <3>4, <3>5
    <3> QED
      BY <3>6 DEF L, S
  <2> QED
    BY <2>2, <2>4, <2>5 DEF r
<1>6. n \in P
  <2>1. 0 \in P
    BY <1>4
  <2> HIDE DEF P
  <2> QED
    BY <1>1, <1>5, <2>1, NatInduct
<1>7. OK(n)
  BY <1>1, <1>6
<1> QED
  BY <1>3, <1>7 DEF M

\* An entry with the queues q, the atomic list t and the requests r that wait for
\* it in the order of their arrival: in every priority the queues come first, then
\* the list, oldest first.
Prios == {PrioOf[o] : o \in Ops}
EntryOK(q, t, r) ==
  /\ Good(q) /\ IsInjective(r)
  /\ \A p \in Prios : Line(q, p) \o Keep(Reverse(t), OfPrio(p)) = Keep(r, OfPrio(p))

\* The requests of a priority in the queues are a sequence of requests.
LEMMA LineType == ASSUME NEW q \in Queues, NEW p PROVE Line(q, p) \in Seq(Ops)
<1>1. q.todo \o q.http \in Seq(Ops)
  BY DEF Queues
<1> QED
  BY <1>1, KeepType DEF Line

\* An entry whose atomic list is empty.
LEMMA EntryNoTemp ==
  ASSUME NEW q \in Queues, NEW r
  PROVE  EntryOK(q, <<>>, r) <=> /\ Good(q) /\ IsInjective(r)
                                 /\ \A p \in Prios : Line(q, p) = Keep(r, OfPrio(p))
<1>1. Reverse(<<>>) = <<>>
  BY DEF Reverse
<1>2. ASSUME NEW p PROVE Line(q, p) \o Keep(Reverse(<<>>), OfPrio(p)) = Line(q, p)
  <2>1. Keep(Reverse(<<>>), OfPrio(p)) = <<>>
    BY <1>1, KeepEmpty
  <2> QED
    BY <2>1, LineType
<1> QED
  BY <1>2 DEF EntryOK

\* A request is left on the atomic list.
LEMMA EntryPush ==
  ASSUME NEW q \in Queues, NEW t \in Seq(Ops), NEW r \in Seq(Ops), NEW x \in Ops,
         x \notin ToSet(r), EntryOK(q, t, r)
  PROVE  EntryOK(q, <<x>> \o t, Append(r, x))
<1> DEFINE R == Reverse(t)
<1>1. R \in Seq(Ops) /\ Reverse(<<x>> \o t) = Append(R, x)
  BY ReverseType, ReversePush
<1>2. IsInjective(Append(r, x))
  BY InjectiveAppend DEF EntryOK
<1> HIDE DEF R
<1>3. ASSUME NEW p \in Prios
      PROVE  Line(q, p) \o Keep(Append(R, x), OfPrio(p)) = Keep(Append(r, x), OfPrio(p))
  <2> DEFINE S == OfPrio(p)
             L == Line(q, p)
             K == Keep(R, S)
  <2>1. L \in Seq(Ops)
    BY LineType
  <2>2. K \in Seq(Ops)
    BY <1>1, KeepType
  <2>3. Keep(Append(R, x), S) = IF x \in S THEN Append(K, x) ELSE K
    <3>1. R \in Seq(Ops)
      BY <1>1
    <3> QED
      BY <3>1, KeepAppend
  <2>4. Keep(Append(r, x), S) = IF x \in S THEN Append(Keep(r, S), x) ELSE Keep(r, S)
    BY KeepAppend
  <2>5. L \o K = Keep(r, S)
    BY DEF EntryOK, R
  <2> HIDE DEF L, K, S
  <2>6. L \o Append(K, x) = Append(L \o K, x)
    BY <2>1, <2>2, CatAppend
  <2>7. L \o Keep(Append(R, x), S) = Keep(Append(r, x), S)
    BY <2>3, <2>4, <2>5, <2>6
  <2> QED
    BY <2>7 DEF L, S
<1> QED
  BY <1>1, <1>2, <1>3 DEF EntryOK

\* aio_move empties the atomic list.
LEMMA EntryMove ==
  ASSUME NEW q \in Queues, NEW t \in Seq(Ops), NEW r \in Seq(Ops), NEW m, EntryOK(q, t, r),
         m = Moved(q, Reverse(t))[Len(Reverse(t))]
  PROVE  /\ m \in Queues /\ EntryOK(m, <<>>, r)
         /\ m.todo = <<>> /\ m.http = <<>> => q.todo = <<>> /\ q.http = <<>>
<1> DEFINE s == Reverse(t)
<1>1. s \in Seq(Ops) /\ Good(q)
  BY ReverseType DEF EntryOK
<1>2. m \in Queues /\ Good(m) /\ \A p : Line(m, p) = Line(q, p) \o Keep(s, OfPrio(p))
  <2>1. m = Moved(q, s)[Len(s)]
    OBVIOUS
  <2> HIDE DEF s
  <2> QED
    BY <1>1, <2>1, MoveKeeps
<1>3. EntryOK(m, <<>>, r)
  <2>1. IsInjective(r) /\ \A p \in Prios : Line(q, p) \o Keep(s, OfPrio(p)) = Keep(r, OfPrio(p))
    BY DEF EntryOK
  <2> HIDE DEF s
  <2>2. \A p \in Prios : Line(m, p) = Keep(r, OfPrio(p))
    BY <1>2, <2>1
  <2> QED
    BY <1>2, <2>1, <2>2, EntryNoTemp
<1>4. ASSUME m.todo = <<>>, m.http = <<>> PROVE q.todo = <<>> /\ q.http = <<>>
  <2> DEFINE u == q.todo \o q.http
  <2>1. q.todo \in Seq(Ops) /\ q.http \in Seq(Ops) /\ u \in Seq(Ops)
    BY DEF Queues
  <2>2. \A p : Line(m, p) = <<>>
    <3>1. <<>> \o <<>> = <<>>
      OBVIOUS
    <3> QED
      BY <1>4, <3>1, KeepEmpty DEF Line
  <2>3. \A p : Line(q, p) = <<>>
    <3> SUFFICES ASSUME NEW p PROVE Line(q, p) = <<>>
      OBVIOUS
    <3> DEFINE K == Keep(s, OfPrio(p))
               L == Line(q, p)
    <3>1. L \in Seq(Ops)
      BY LineType
    <3>2. K \in Seq(Ops)
      <4> HIDE DEF s
      <4> QED
        BY <1>1, KeepType
    <3>3. L \o K = <<>>
      BY <1>2, <2>2
    <3> HIDE DEF L, K
    <3>4. Len(L) + Len(K) = 0
      <4>1. Len(L \o K) = Len(L) + Len(K)
        BY <3>1, <3>2
      <4> QED
        BY <3>3, <4>1
    <3>5. L = <<>>
      BY <3>1, <3>2, <3>4
    <3> QED
      BY <3>5 DEF L
  <2>4. ToSet(u) = {}
    <3> HIDE DEF u
    <3>1. ASSUME NEW x \in ToSet(u) PROVE FALSE
      <4> DEFINE p == PrioOf[x]
      <4>1. x \in Ops
        BY <2>1, ToSetType
      <4>2. ToSet(Keep(u, OfPrio(p))) = ToSet(u) \cap OfPrio(p)
        BY <2>1, KeepSet
      <4>3. x \in ToSet(Line(q, p))
        BY <4>1, <4>2 DEF Line, u, OfPrio
      <4>4. ToSet(<<>>) = {}
        BY ToSetEmpty
      <4> QED
        BY <2>3, <4>3, <4>4
    <3> QED
      BY <3>1
  <2>5. ToSet(u) = ToSet(q.todo) \cup ToSet(q.http)
    BY <2>1, ToSetCat
  <2>6. ASSUME NEW v \in Seq(Ops), ToSet(v) = {} PROVE v = <<>>
    <3>1. v # <<>> => v[1] \in ToSet(v)
      BY DEF ToSet
    <3> QED
      BY <2>6, <3>1
  <2> QED
    BY <2>1, <2>4, <2>5, <2>6
<1> QED
  BY <1>2, <1>3, <1>4

\* A request is put in its queue.
LEMMA EntryInsert ==
  ASSUME NEW q \in Queues, NEW r \in Seq(Ops), NEW x \in Ops, x \notin ToSet(r), EntryOK(q, <<>>, r)
  PROVE  /\ aio_insert(q, x) \in Queues
         /\ EntryOK(aio_insert(q, x), <<>>, Append(r, x))
<1> DEFINE m == aio_insert(q, x)
<1>1. Good(q) /\ IsInjective(r) /\ \A p \in Prios : Line(q, p) = Keep(r, OfPrio(p))
  BY EntryNoTemp
<1>2. /\ m \in Queues /\ Good(m)
      /\ \A p : Line(m, p) = IF x \in OfPrio(p) THEN Append(Line(q, p), x) ELSE Line(q, p)
  BY <1>1, InsertKeeps
<1>3. IsInjective(Append(r, x))
  BY <1>1, InjectiveAppend
<1>4. ASSUME NEW p \in Prios PROVE Line(m, p) = Keep(Append(r, x), OfPrio(p))
  <2>1. Keep(Append(r, x), OfPrio(p)) = IF x \in OfPrio(p) THEN Append(Keep(r, OfPrio(p)), x) ELSE Keep(r, OfPrio(p))
    BY KeepAppend
  <2> QED
    BY <1>1, <1>2, <2>1
<1> HIDE DEF m
<1>5. EntryOK(m, <<>>, Append(r, x))
  BY <1>2, <1>3, <1>4, EntryNoTemp
<1> QED
  BY <1>2, <1>5 DEF m

\* The rest of a sorted queue is sorted.
LEMMA SortedTail == ASSUME NEW s \in Seq(Ops), SortedSeq(s), s # <<>> PROVE SortedSeq(Tail(s))
<1> SUFFICES ASSUME NEW j \in DOMAIN Tail(s), NEW k \in DOMAIN Tail(s), j < k
             PROVE  PrioOf[Tail(s)[j]] >= PrioOf[Tail(s)[k]]
  BY DEF SortedSeq
<1>1. /\ Tail(s)[j] = s[j + 1] /\ Tail(s)[k] = s[k + 1]
      /\ j + 1 \in DOMAIN s /\ k + 1 \in DOMAIN s /\ j + 1 < k + 1
  OBVIOUS
<1> QED
  BY <1>1 DEF SortedSeq

\* The first request of the first queue that has one is taken.
LEMMA EntryTake ==
  ASSUME NEW q \in Queues, NEW r \in Seq(Ops), EntryOK(q, <<>>, r), NEW n \in Queues, NEW o,
         \/ q.todo # <<>> /\ o = Head(q.todo) /\ n = [todo |-> Tail(q.todo), http |-> q.http]
         \/ q.todo = <<>> /\ q.http # <<>> /\ o = Head(q.http) /\ n = [todo |-> <<>>, http |-> Tail(q.http)]
  PROVE  /\ o \in ToSet(r) /\ o \in Ops
         /\ EntryOK(n, <<>>, Keep(r, Ops \ {o}))
<1> DEFINE u == q.todo \o q.http
           v == n.todo \o n.http
           T == Ops \ {o}
<1>1. Good(q) /\ IsInjective(r) /\ \A p \in Prios : Line(q, p) = Keep(r, OfPrio(p))
  BY EntryNoTemp
<1>2. q.todo \in Seq(Ops) /\ q.http \in Seq(Ops)
  BY DEF Queues
<1>3. o \in Ops /\ v \in Seq(Ops) /\ u = <<o>> \o v /\ Good(n)
  <2>1. CASE q.todo # <<>> /\ o = Head(q.todo) /\ n = [todo |-> Tail(q.todo), http |-> q.http]
    <3> DEFINE a == Tail(q.todo)
    <3>1. o \in Ops /\ a \in Seq(Ops) /\ q.todo = <<o>> \o a
      BY <1>2, <2>1, InjectiveTail
    <3>2. SortedSeq(a)
      BY <1>1, <1>2, <2>1, SortedTail DEF Good
    <3>3. n.todo = a /\ n.http = q.http
      BY <2>1
    <3> DEFINE h == q.http
    <3>4. h \in Seq(Ops) /\ o \in Ops /\ a \in Seq(Ops)
      BY <1>2, <3>1
    <3> HIDE DEF a, h
    <3>5. (<<o>> \o a) \o h = <<o>> \o (a \o h) /\ a \o h \in Seq(Ops)
      BY <3>4, CatPush
    <3>6. Good(n)
      BY <1>1, <3>2, <3>3 DEF Good
    <3>7. u = (<<o>> \o a) \o h /\ v = a \o h
      BY <3>1, <3>3, Zenon DEF h
    <3> QED
      BY <3>4, <3>5, <3>6, <3>7
  <2>2. CASE q.todo = <<>> /\ q.http # <<>> /\ o = Head(q.http) /\ n = [todo |-> <<>>, http |-> Tail(q.http)]
    <3> DEFINE b == Tail(q.http)
    <3>1. o \in Ops /\ b \in Seq(Ops) /\ q.http = <<o>> \o b /\ ToSet(q.http) = {o} \cup ToSet(b)
      BY <1>2, <2>2, InjectiveTail
    <3>2. n.todo = <<>> /\ n.http = b
      BY <2>2
    <3> HIDE DEF b
    <3>3. <<>> \o b = b /\ <<>> \o q.http = q.http
      BY <1>2, <3>1
    <3>4. Good(n)
      BY <1>1, <2>2, <3>1, <3>2 DEF Good
    <3> QED
      BY <2>2, <3>1, <3>2, <3>3, <3>4
  <2> QED
    BY <2>1, <2>2
<1> HIDE DEF u, v
<1>4. ASSUME NEW p \in Prios
      PROVE  /\ Line(n, p) = Keep(Keep(r, T), OfPrio(p))
             /\ o \in OfPrio(p) => o \in ToSet(r)
  <2> DEFINE S == OfPrio(p)
             K == Keep(r, S)
             L == Line(n, p)
  <2>1. L \in Seq(Ops)
    BY LineType
  <2>2. K \in Seq(Ops) /\ ToSet(K) = ToSet(r) \cap S /\ IsInjective(K)
    BY <1>1, KeepType, KeepSet, InjectiveKeep
  <2>3. K = IF o \in S THEN <<o>> \o L ELSE L
    <3>1. L = Keep(v, S) /\ Line(q, p) = Keep(u, S)
      BY DEF Line, u, v
    <3>2. Keep(<<o>> \o v, S) = IF o \in S THEN <<o>> \o Keep(v, S) ELSE Keep(v, S)
      BY <1>3, KeepPush
    <3> QED
      BY <1>1, <1>3, <3>1, <3>2
  <2>4. Keep(Keep(r, T), S) = Keep(K, T)
    <3>1. Keep(Keep(r, T), S) = Keep(r, T \cap S) /\ Keep(Keep(r, S), T) = Keep(r, S \cap T)
      BY KeepTwice
    <3>2. S \cap T = T \cap S
      OBVIOUS
    <3> QED
      BY <3>1, <3>2
  <2>5. ToSet(r) \subseteq Ops
    BY ToSetType
  <2>6. ToSet(L) \subseteq Ops
    BY <2>1, ToSetType
  <2> HIDE DEF S, K, L, T
  <2>7. CASE o \in S
    <3> DEFINE w == <<o>> \o L
    <3>1. w \in Seq(Ops) /\ w # <<>> /\ Head(w) = o /\ Tail(w) = L
      BY <1>3, <2>1
    <3>2. K = w
      BY <2>3, <2>7
    <3> HIDE DEF w
    <3>3. o \notin ToSet(L) /\ o \in ToSet(w)
      BY <2>2, <3>1, <3>2, InjectiveTail
    <3>4. Keep(L, T) = L
      <4>1. ToSet(L) \subseteq T
        BY <2>6, <3>3 DEF T
      <4> QED
        BY <2>1, <4>1, KeepAll
    <3>5. Keep(<<o>> \o L, T) = Keep(L, T)
      <4>1. o \notin T
        BY DEF T
      <4> QED
        BY <1>3, <2>1, <4>1, KeepPush
    <3>6. Keep(K, T) = L
      BY <3>2, <3>4, <3>5 DEF w
    <3>7. o \in ToSet(r)
      BY <2>2, <3>2, <3>3
    <3> QED
      BY <2>4, <3>6, <3>7 DEF L, S, T
  <2>8. CASE o \notin S
    <3>1. K = L
      BY <2>3, <2>8
    <3>2. ToSet(K) \subseteq T
      BY <2>2, <2>5, <2>8 DEF T
    <3>3. Keep(K, T) = K
      BY <2>2, <3>2, KeepAll
    <3> QED
      BY <2>4, <2>8, <3>1, <3>3 DEF L, S, T
  <2> QED
    BY <2>7, <2>8
<1>5. o \in ToSet(r)
  <2>1. PrioOf[o] \in Prios /\ o \in OfPrio(PrioOf[o])
    BY <1>3 DEF Prios, OfPrio
  <2> QED
    BY <1>4, <2>1
<1>6. IsInjective(Keep(r, T))
  BY <1>1, InjectiveKeep
<1>7. EntryOK(n, <<>>, Keep(r, T))
  <2> HIDE DEF T
  <2> QED
    BY <1>3, <1>4, <1>6, EntryNoTemp
<1> QED
  BY <1>3, <1>5, <1>7

-----------------------------------------------------------------------------
(* The invariant                                                           *)

Pending(c) == cpc[c] \notin {"idle", "signal"}
Inserting(c) == cpc[c] \in {"recheck", "create", "publish"}

\* The table: what is below num_filedes is filled in, what is above is not, and
\* the entry at num_filedes is filled in while its maker is about to publish it.
\* The threads of an entry are there once it is.
TableInv ==
  /\ aio_reqs[0] \in {NULL, API}
  /\ \A i \in Entries : i # 0 => aio_reqs[i] \in Fds \cup {NULL}
  /\ \A i \in Entries : i # 0 /\ i < num_filedes => aio_reqs[i] # NULL
  /\ \A i \in Entries : i > num_filedes => aio_reqs[i] = NULL
  /\ aio_reqs[num_filedes] # NULL =>
       \E c \in Callers : cpc[c] = "publish" /\ aio_req[cop[c]] = num_filedes
  /\ \A i \in Entries : aio_reqs[i] # NULL => i <= Cardinality(Fds)
  /\ \A w \in Workers : wpc[w] = "off" <=> aio_reqs[w[1]] = NULL

\* A caller on its way through the table.
CallerInv(c) ==
  /\ cpc[c] # "idle" => cop[c] \in Ops
  /\ insert_mutex = c <=> Inserting(c)
  /\ cpc[c] = "search" => Fd(c) # API
  /\ cpc[c] \in {"search", "insert", "recheck"} /\ Fd(c) # API =>
       /\ ndx[c] \in 1 .. num_filedes
       /\ \A i \in Entries : i # 0 /\ i < ndx[c] => aio_reqs[i] # Fd(c)
  /\ cpc[c] = "create" =>
       IF Fd(c) = API THEN aio_reqs[0] = NULL
       ELSE \A i \in Entries : i # 0 /\ i < num_filedes => aio_reqs[i] # Fd(c)
  /\ cpc[c] = "publish" => aio_req[cop[c]] = IF Fd(c) = API THEN 0 ELSE num_filedes
  /\ cpc[c] \in {"count", "try", "push", "fill", "signal"} => aio_req[cop[c]] # NULL

CallersOK == \A c \in Callers : CallerInv(c)

\* A request is in one place: with a caller, waiting on its entry, or with a
\* thread.
OpsInv ==
  /\ \A c, d \in Callers : Pending(c) /\ Pending(d) /\ cop[c] = cop[d] => c = d
  /\ \A c \in Callers : Pending(c) => status[cop[c]] = "issued"
  /\ \A c \in Callers, i \in Entries : Pending(c) => cop[c] \notin ToSet(arrival[i])
  /\ \A c \in Callers, w \in Workers : Pending(c) => wop[w] # cop[c]
  /\ \A i \in Entries : \A o \in ToSet(arrival[i]) :
       status[o] = "issued" /\ aio_req[o] = i /\ \A w \in Workers : wop[w] # o
  /\ \A w \in Workers : wop[w] # NULL => status[wop[w]] = "issued"
  /\ \A v, w \in Workers : wop[v] # NULL /\ wop[v] = wop[w] => v = w
  /\ \A w \in Workers : wpc[w] \in {"io", "call"} <=> wop[w] # NULL
  /\ \A c \in Callers : cpc[c] = "signal" => cop[c] \in ToSet(arrival[Entry(c)])

\* Who has the mutex of an entry, and what a thread knows that found no request.
MutexInv ==
  /\ \A c \in Callers : cpc[c] \in {"fill", "signal"} => aio_mutex[Entry(c)] = c
  /\ \A w \in Workers : wpc[w] \in {"check", "empty"} => aio_mutex[w[1]] = w
  /\ \A w \in Workers : wpc[w] = "empty" => aio_todo[w[1]] = <<>> /\ http_aio_todo[w[1]] = <<>>

QueuesOf(i) == [todo |-> aio_todo[i], http |-> http_aio_todo[i]]
QueuesInv == \A i \in Entries : EntryOK(QueuesOf(i), aio_temp_list[i], arrival[i])

Inv == TypeOK /\ TableInv /\ OneEntryPerFd /\ CallersOK /\ OpsInv /\ MutexInv /\ QueuesInv /\ NoneLeftWaiting

\* Where callers and threads can be.
CallerPlaces == {"idle", "search", "insert", "recheck", "create", "publish",
                 "count", "try", "push", "fill", "signal"}
WorkerPlaces == {"off", "relock", "check", "io", "call", "empty", "wait"}

\* The parts of the type invariant, before ...
LEMMA ListTypes ==
  TypeOK <=>
    /\ aio_reqs \in [Entries -> Fds \cup {API, NULL}]
    /\ num_filedes \in 1 .. Cardinality(Fds) + 1
    /\ insert_mutex \in Callers \cup {NULL}
    /\ aio_mutex \in [Entries -> Callers \cup Workers \cup {NULL}]
    /\ aio_temp_list \in [Entries -> Seq(Ops)] /\ aio_todo \in [Entries -> Seq(Ops)]
    /\ http_aio_todo \in [Entries -> Seq(Ops)] /\ arrival \in [Entries -> Seq(Ops)]
    /\ requests_queued \in [Entries -> Int]
    /\ aio_req \in [Ops -> Entries \cup {NULL}]
    /\ issues \in [Ops -> Nat]
    /\ status \in [Ops -> {"idle", "issued", "done"}]
    /\ cpc \in [Callers -> CallerPlaces]
    /\ cop \in [Callers -> Ops \cup {NULL}]
    /\ ndx \in [Callers -> 0 .. Cardinality(Fds) + 1]
    /\ wpc \in [Workers -> WorkerPlaces]
    /\ wop \in [Workers -> Ops \cup {NULL}]
BY DEF TypeOK, CallerPlaces, WorkerPlaces

\* ... and after a step.
LEMMA ListTypesNext ==
  TypeOK' <=>
    /\ aio_reqs' \in [Entries -> Fds \cup {API, NULL}]
    /\ num_filedes' \in 1 .. Cardinality(Fds) + 1
    /\ insert_mutex' \in Callers \cup {NULL}
    /\ aio_mutex' \in [Entries -> Callers \cup Workers \cup {NULL}]
    /\ aio_temp_list' \in [Entries -> Seq(Ops)] /\ aio_todo' \in [Entries -> Seq(Ops)]
    /\ http_aio_todo' \in [Entries -> Seq(Ops)] /\ arrival' \in [Entries -> Seq(Ops)]
    /\ requests_queued' \in [Entries -> Int]
    /\ aio_req' \in [Ops -> Entries \cup {NULL}]
    /\ issues' \in [Ops -> Nat]
    /\ status' \in [Ops -> {"idle", "issued", "done"}]
    /\ cpc' \in [Callers -> CallerPlaces]
    /\ cop' \in [Callers -> Ops \cup {NULL}]
    /\ ndx' \in [Callers -> 0 .. Cardinality(Fds) + 1]
    /\ wpc' \in [Workers -> WorkerPlaces]
    /\ wop' \in [Workers -> Ops \cup {NULL}]
BY DEF TypeOK, CallerPlaces, WorkerPlaces

\* The numbers of the entries.
LEMMA EntryNumbers ==
  /\ Cardinality(Fds) \in Nat /\ Entries = 0 .. Cardinality(Fds) + 1
  /\ \A w \in Workers : w[1] \in 0 .. Cardinality(Fds) /\ w[1] \in Entries
  /\ \A i \in 0 .. Cardinality(Fds) : i \in Entries /\ <<i, 1>> \in Workers
<1>1. Cardinality(Fds) \in Nat
  BY ConstantsOK, FS_CardinalityType
<1>2. NThreads \in Nat /\ NThreads # 0
  BY ConstantsOK
<1> QED
  BY <1>1, <1>2 DEF Entries, Workers

\* The table has room for a new descriptor: there are not more entries than
\* descriptors.
LEMMA RoomForEntry ==
  ASSUME TypeOK, TableInv, OneEntryPerFd, CallersOK, NEW c \in Callers,
         cpc[c] = "create", Fd(c) # API
  PROVE  num_filedes \in 1 .. Cardinality(Fds)
<1> DEFINE n == num_filedes
           f == [k \in 1 .. n |-> IF k < n THEN aio_reqs[k] ELSE Fd(c)]
<1>0. Cardinality(Fds) \in Nat /\ Entries = 0 .. Cardinality(Fds) + 1 /\ IsFiniteSet(Fds)
  BY ConstantsOK, EntryNumbers
<1>1. n \in 1 .. Cardinality(Fds) + 1 /\ aio_reqs \in [Entries -> Fds \cup {API, NULL}]
  BY ListTypes
<1>2. CallerInv(c)
  BY DEF CallersOK
<1>3. Fd(c) \in Fds
  BY <1>2, ConstantsOK DEF CallerInv, Fd
<1>4. \A k \in 1 .. n : k < n => k \in Entries /\ k # 0 /\ aio_reqs[k] \in Fds /\ aio_reqs[k] # Fd(c)
  BY <1>0, <1>1, <1>2 DEF CallerInv, TableInv
<1>5. f \in [1 .. n -> Fds]
  BY <1>3, <1>4
<1>6. ASSUME NEW x \in 1 .. n, NEW y \in 1 .. n, x # y PROVE f[x] # f[y]
  <2>1. f[x] = (IF x < n THEN aio_reqs[x] ELSE Fd(c)) /\ f[y] = (IF y < n THEN aio_reqs[y] ELSE Fd(c))
    OBVIOUS
  <2>2. x < n \/ y < n
    BY <1>1, <1>6
  <2>3. CASE x < n /\ y < n
    BY <1>4, <1>6, <2>1, <2>3, ConstantsOK DEF OneEntryPerFd
  <2>4. CASE ~(x < n /\ y < n)
    <3> HIDE DEF f
    <3> QED
      BY <1>4, <2>1, <2>2, <2>4
  <2> QED
    BY <2>3, <2>4
<1> HIDE DEF f
<1>7. IsFiniteSet(1 .. n) /\ Cardinality(1 .. n) = n
  BY <1>1, FS_Interval
<1>8. ~(Cardinality(Fds) < Cardinality(1 .. n))
  <2> SUFFICES ASSUME Cardinality(Fds) < Cardinality(1 .. n) PROVE FALSE
    OBVIOUS
  <2>1. \E x, y \in 1 .. n : x # y /\ f[x] = f[y]
    BY <1>0, <1>5, <1>7, FS_PigeonHole
  <2> QED
    BY <1>6, <2>1
<1> QED
  BY <1>0, <1>1, <1>7, <1>8

\* aio_move and what a caller or a thread then does to the queues of an entry.
LEMMA MoveIsGood ==
  ASSUME TypeOK, QueuesInv, NEW i \in Entries
  PROVE  /\ aio_move(i) \in Queues /\ EntryOK(aio_move(i), <<>>, arrival[i])
         /\ aio_move(i).todo = <<>> /\ aio_move(i).http = <<>> => aio_todo[i] = <<>> /\ http_aio_todo[i] = <<>>
<1> DEFINE q == QueuesOf(i)
           t == aio_temp_list[i]
           r == arrival[i]
           m == Moved(q, Reverse(t))[Len(Reverse(t))]
<1>1. t \in Seq(Ops) /\ r \in Seq(Ops) /\ aio_todo[i] \in Seq(Ops) /\ http_aio_todo[i] \in Seq(Ops)
  BY ListTypes
<1>2. q \in Queues /\ q.todo = aio_todo[i] /\ q.http = http_aio_todo[i] /\ EntryOK(q, t, r)
  BY <1>1 DEF QueuesInv, QueuesOf, Queues
<1>3. aio_move(i) = m
  BY DEF aio_move, Flip, QueuesOf
<1> HIDE DEF q, t, r
<1>4. m \in Queues /\ EntryOK(m, <<>>, r) /\ (m.todo = <<>> /\ m.http = <<>> => q.todo = <<>> /\ q.http = <<>>)
  BY <1>1, <1>2, EntryMove
<1> QED
  BY <1>2, <1>3, <1>4 DEF r

\* The lists of one entry change.
ListsTyped ==
  /\ aio_temp_list \in [Entries -> Seq(Ops)] /\ aio_todo \in [Entries -> Seq(Ops)]
  /\ http_aio_todo \in [Entries -> Seq(Ops)] /\ arrival \in [Entries -> Seq(Ops)]

OthersKept(i) ==
  \A j \in Entries : j # i =>
    /\ aio_temp_list'[j] = aio_temp_list[j] /\ aio_todo'[j] = aio_todo[j]
    /\ http_aio_todo'[j] = http_aio_todo[j] /\ arrival'[j] = arrival[j]

QueuesNext(i) == [todo |-> aio_todo'[i], http |-> http_aio_todo'[i]]

\* What Fill does to the lists.
LEMMA FillEffect ==
  ASSUME TypeOK, QueuesInv, NEW c \in Callers, Fill(c), cop[c] \in Ops, Entry(c) \in Entries,
         cop[c] \notin ToSet(arrival[Entry(c)])
  PROVE  /\ ListsTyped' /\ OthersKept(Entry(c))
         /\ EntryOK(QueuesNext(Entry(c)), aio_temp_list'[Entry(c)], arrival'[Entry(c)])
         /\ ToSet(arrival'[Entry(c)]) = ToSet(arrival[Entry(c)]) \cup {cop[c]}
<1> DEFINE i == Entry(c)
           o == cop[c]
           m == aio_move(i)
           n == aio_insert(m, o)
           r == arrival[i]
<1>1. r \in Seq(Ops) /\ o \in Ops /\ i \in Entries /\ o \notin ToSet(r) /\ ListsTyped
  BY ListTypes DEF ListsTyped
<1>2. m \in Queues /\ EntryOK(m, <<>>, r)
  BY MoveIsGood
<1>3. /\ aio_temp_list' = [aio_temp_list EXCEPT ![i] = <<>>]
      /\ aio_todo' = [aio_todo EXCEPT ![i] = n.todo]
      /\ http_aio_todo' = [http_aio_todo EXCEPT ![i] = n.http]
      /\ arrival' = [arrival EXCEPT ![i] = Append(r, o)]
  BY DEF Fill, SetQueues
<1> HIDE DEF i, o, m, r
<1>4. n \in Queues /\ EntryOK(n, <<>>, Append(r, o))
  BY <1>1, <1>2, EntryInsert
<1>5. ToSet(Append(r, o)) = ToSet(r) \cup {o} /\ Append(r, o) \in Seq(Ops)
  BY <1>1, ToSetAppend
<1>6. n.todo \in Seq(Ops) /\ n.http \in Seq(Ops) /\ n = [todo |-> n.todo, http |-> n.http]
  BY <1>4 DEF Queues
<1> HIDE DEF n
<1>7. ListsTyped' /\ OthersKept(i)
  BY <1>1, <1>3, <1>5, <1>6 DEF ListsTyped, OthersKept
<1>8. /\ aio_temp_list'[i] = <<>> /\ arrival'[i] = Append(r, o)
      /\ aio_todo'[i] = n.todo /\ http_aio_todo'[i] = n.http
  BY <1>1, <1>3 DEF ListsTyped
<1>9. [todo |-> aio_todo'[i], http |-> http_aio_todo'[i]] = n
  BY <1>6, <1>8
<1> QED
  BY <1>4, <1>5, <1>7, <1>8, <1>9 DEF QueuesNext, i, r, o

\* What Check does if it finds nothing, ...
LEMMA CheckNothing ==
  ASSUME TypeOK, QueuesInv, NEW w \in Workers, Check(w),
         aio_move(w[1]).todo = <<>>, aio_move(w[1]).http = <<>>
  PROVE  /\ UNCHANGED <<lists, aio_mutex, wop>> /\ WGoto(w, "empty")
         /\ aio_todo[w[1]] = <<>> /\ http_aio_todo[w[1]] = <<>>
<1>1. w[1] \in Entries
  BY EntryNumbers
<1> QED
  BY <1>1, MoveIsGood DEF Check

\* ... and if it takes a request.
LEMMA CheckTakes ==
  ASSUME TypeOK, QueuesInv, NEW w \in Workers, Check(w),
         ~(aio_move(w[1]).todo = <<>> /\ aio_move(w[1]).http = <<>>)
  PROVE  /\ ListsTyped' /\ OthersKept(w[1])
         /\ EntryOK(QueuesNext(w[1]), aio_temp_list'[w[1]], arrival'[w[1]])
         /\ \E o \in ToSet(arrival[w[1]]) :
              /\ o \in Ops /\ wop' = [wop EXCEPT ![w] = o]
              /\ ToSet(arrival'[w[1]]) = ToSet(arrival[w[1]]) \ {o}
         /\ aio_mutex' = [aio_mutex EXCEPT ![w[1]] = NULL] /\ WGoto(w, "io")
<1> DEFINE i == w[1]
           q == aio_move(i)
           r == arrival[i]
           f == IF q.todo # <<>> THEN "todo" ELSE "http"
           o == Head(q[f])
           n == [q EXCEPT ![f] = Tail(@)]
           s == Keep(r, Ops \ {o})
<1>1. i \in Entries /\ r \in Seq(Ops) /\ ListsTyped
  BY ListTypes, EntryNumbers DEF ListsTyped
<1>2. q \in Queues /\ EntryOK(q, <<>>, r)
  BY <1>1, MoveIsGood
<1>3. /\ SetQueues(i, n) /\ arrival' = [arrival EXCEPT ![i] = s]
      /\ wop' = [wop EXCEPT ![w] = o] /\ aio_mutex' = [aio_mutex EXCEPT ![i] = NULL] /\ WGoto(w, "io")
  BY DEF Check
<1>4. ~(q.todo = <<>> /\ q.http = <<>>)
  OBVIOUS
<1> HIDE DEF i, q, r
<1>5. q.todo \in Seq(Ops) /\ q.http \in Seq(Ops) /\ q = [todo |-> q.todo, http |-> q.http]
  BY <1>2 DEF Queues
<1>6. \/ q.todo # <<>> /\ o = Head(q.todo) /\ n = [todo |-> Tail(q.todo), http |-> q.http]
      \/ q.todo = <<>> /\ q.http # <<>> /\ o = Head(q.http) /\ n = [todo |-> <<>>, http |-> Tail(q.http)]
  <2>1. CASE q.todo # <<>>
    <3>1. o = Head(q.todo) /\ n = [q EXCEPT !.todo = Tail(@)]
      BY <2>1
    <3> HIDE DEF o, n
    <3> QED
      BY <1>5, <2>1, <3>1
  <2>2. CASE q.todo = <<>>
    <3>1. o = Head(q.http) /\ n = [q EXCEPT !.http = Tail(@)]
      BY <2>2
    <3> HIDE DEF o, n
    <3> QED
      BY <1>4, <1>5, <2>2, <3>1
  <2> QED
    BY <2>1, <2>2
<1> HIDE DEF f, o, n
<1>7. n \in Queues
  <2>1. q.todo # <<>> => Tail(q.todo) \in Seq(Ops)
    BY <1>5
  <2>2. q.http # <<>> => Tail(q.http) \in Seq(Ops)
    BY <1>5
  <2>3. \A x, y \in Seq(Ops) : [todo |-> x, http |-> y] \in Queues
    BY DEF Queues
  <2>4. <<>> \in Seq(Ops)
    OBVIOUS
  <2> QED
    BY <1>5, <1>6, <2>1, <2>2, <2>3, <2>4, Zenon
<1>8. o \in ToSet(r) /\ o \in Ops /\ EntryOK(n, <<>>, s)
  BY <1>1, <1>2, <1>6, <1>7, EntryTake
<1>9. s \in Seq(Ops) /\ ToSet(s) = ToSet(r) \ {o}
  <2> DEFINE T == Ops \ {o}
  <2>1. ToSet(Keep(r, T)) = ToSet(r) \cap T /\ Keep(r, T) \in Seq(Ops)
    BY <1>1, KeepSet, KeepType
  <2>2. ToSet(r) \subseteq Ops
    BY <1>1, ToSetType
  <2> QED
    BY <2>1, <2>2
<1>10. n.todo \in Seq(Ops) /\ n.http \in Seq(Ops) /\ n = [todo |-> n.todo, http |-> n.http]
  BY <1>7 DEF Queues
<1> HIDE DEF s
<1>11. ListsTyped' /\ OthersKept(i)
  BY <1>1, <1>3, <1>9, <1>10 DEF ListsTyped, OthersKept, SetQueues
<1>12. /\ aio_temp_list'[i] = <<>> /\ arrival'[i] = s
       /\ aio_todo'[i] = n.todo /\ http_aio_todo'[i] = n.http
  BY <1>1, <1>3 DEF ListsTyped, SetQueues
<1>13. [todo |-> aio_todo'[i], http |-> http_aio_todo'[i]] = n
  BY <1>10, <1>12
<1>14. EntryOK(QueuesNext(i), aio_temp_list'[i], arrival'[i])
  BY <1>8, <1>12, <1>13 DEF QueuesNext
<1>15. \E x \in ToSet(r) : x \in Ops /\ wop' = [wop EXCEPT ![w] = x] /\ ToSet(arrival'[i]) = ToSet(r) \ {x}
  BY <1>3, <1>8, <1>9, <1>12
<1> QED
  BY <1>3, <1>11, <1>14, <1>15 DEF i, r

\* What a caller that leaves its request on the atomic list does to it.
LEMMA PushEffect ==
  ASSUME TypeOK, QueuesInv, NEW c \in Callers, PushTemp(c), cop[c] \in Ops, Entry(c) \in Entries,
         cop[c] \notin ToSet(arrival[Entry(c)])
  PROVE  /\ ListsTyped' /\ OthersKept(Entry(c))
         /\ EntryOK(QueuesNext(Entry(c)), aio_temp_list'[Entry(c)], arrival'[Entry(c)])
         /\ ToSet(arrival'[Entry(c)]) = ToSet(arrival[Entry(c)]) \cup {cop[c]}
<1> DEFINE i == Entry(c)
           o == cop[c]
           r == arrival[i]
           t == aio_temp_list[i]
           q == QueuesOf(i)
           u == <<o>> \o t
           s == Append(r, o)
<1>1. /\ r \in Seq(Ops) /\ t \in Seq(Ops) /\ o \in Ops /\ i \in Entries /\ o \notin ToSet(r)
      /\ ListsTyped /\ aio_todo[i] \in Seq(Ops) /\ http_aio_todo[i] \in Seq(Ops)
  BY ListTypes DEF ListsTyped
<1>2. q \in Queues /\ EntryOK(q, t, r)
  BY <1>1 DEF QueuesInv, QueuesOf, Queues
<1>3. /\ aio_temp_list' = [aio_temp_list EXCEPT ![i] = u]
      /\ arrival' = [arrival EXCEPT ![i] = s]
      /\ UNCHANGED <<aio_todo, http_aio_todo>>
  BY DEF PushTemp
<1>4. QueuesNext(i) = q
  BY <1>3 DEF QueuesOf, QueuesNext
<1> HIDE DEF i, o, r, t, q
<1>5. EntryOK(q, u, s)
  BY <1>1, <1>2, EntryPush
<1>6. u \in Seq(Ops) /\ s \in Seq(Ops) /\ ToSet(s) = ToSet(r) \cup {o}
  BY <1>1, ToSetAppend
<1> HIDE DEF u, s
<1>7. ListsTyped' /\ OthersKept(i)
  BY <1>1, <1>3, <1>6 DEF ListsTyped, OthersKept
<1>8. aio_temp_list'[i] = u /\ arrival'[i] = s
  BY <1>1, <1>3 DEF ListsTyped
<1> QED
  BY <1>4, <1>5, <1>6, <1>7, <1>8 DEF i, r, o

\* What the invariant says of a caller that has a request.
LEMMA CallerFacts ==
  ASSUME Inv, NEW c \in Callers, cpc[c] # "idle"
  PROVE  /\ cop[c] \in Ops /\ FdOf[cop[c]] \in Fds \cup {API} /\ FdOf[cop[c]] # NULL
         /\ cpc[c] \in {"count", "try", "push", "fill", "signal"} =>
              /\ Entry(c) \in Entries /\ <<Entry(c), 1>> \in Workers
              /\ aio_reqs[Entry(c)] = FdOf[cop[c]] /\ Entry(c) # NULL
<1>1. CallerInv(c) /\ TypeOK /\ OneEntryPerFd /\ TableInv
  BY DEF Inv, CallersOK
<1>2. cop[c] \in Ops /\ FdOf[cop[c]] \in Fds \cup {API} /\ FdOf[cop[c]] # NULL
  BY <1>1, ConstantsOK DEF CallerInv
<1>3. ASSUME cpc[c] \in {"count", "try", "push", "fill", "signal"}
      PROVE  /\ Entry(c) \in Entries /\ <<Entry(c), 1>> \in Workers
             /\ aio_reqs[Entry(c)] = FdOf[cop[c]] /\ Entry(c) # NULL
  <2>1. Entry(c) # NULL /\ Entry(c) \in Entries
    BY <1>1, <1>2, <1>3, ListTypes DEF CallerInv, Entry
  <2>2. aio_reqs[Entry(c)] = FdOf[cop[c]]
    BY <1>1, <1>2, <2>1 DEF OneEntryPerFd, Entry
  <2>3. Entry(c) \in 0 .. Cardinality(Fds)
    BY <1>1, <1>2, <2>1, <2>2, EntryNumbers DEF TableInv
  <2> QED
    BY <2>1, <2>2, <2>3, EntryNumbers
<1> QED
  BY <1>2, <1>3

\* The callers with a request have different ones from one that has not queued
\* its request yet.
LEMMA OpsDiffer ==
  ASSUME OpsInv, CallersOK, NEW c \in Callers, NEW d \in Callers, c # d, Pending(c), cpc[d] # "idle",
         cpc[d] = "signal" => Entry(d) \in Entries
  PROVE  cop[c] # cop[d]
<1>1. CASE Pending(d)
  BY <1>1 DEF OpsInv
<1>2. CASE cpc[d] = "signal"
  BY <1>2 DEF OpsInv
<1> QED
  BY <1>1, <1>2 DEF Pending

\* Types are kept by the steps of a caller in the table, ...
LEMMA TableTypes ==
  ASSUME Inv, NEW c \in Callers,
         \/ \E o \in Ops : Issue(c, o)
         \/ Search(c) \/ InsertLock(c) \/ Recheck(c) \/ Create(c) \/ Publish(c)
  PROVE  TypeOK'
<1> USE DEF table, lists, ops, caller, worker, CGoto, CallerPlaces, Found
<1>0. TypeOK /\ CallerInv(c) /\ TableInv /\ OneEntryPerFd /\ CallersOK
  BY DEF Inv, CallersOK
<1>1. Cardinality(Fds) \in Nat /\ Entries = 0 .. Cardinality(Fds) + 1
  BY EntryNumbers
<1>2. cpc[c] # "idle" => cop[c] \in Ops /\ FdOf[cop[c]] \in Fds \cup {API}
  BY CallerFacts
<1>3. ASSUME NEW o \in Ops, Issue(c, o) PROVE TypeOK'
  <2>1. issues[o] \in Nat /\ issues[o] > 0
    BY <1>0, <1>3, ListTypes DEF Issue
  <2>2. issues[o] - 1 \in Nat
    BY <2>1
  <2>3. 1 \in 0 .. Cardinality(Fds) + 1
    BY <1>1
  <2> QED
    BY <1>0, <1>3, <2>2, <2>3, ListTypes, ListTypesNext DEF Issue
<1>4. CASE Search(c)
  <2>1. ndx[c] \in 0 .. Cardinality(Fds) + 1 /\ num_filedes \in 1 .. Cardinality(Fds) + 1
    BY <1>0, ListTypes
  <2>2. ndx[c] < num_filedes => ndx[c] \in Entries /\ ndx[c] + 1 \in 0 .. Cardinality(Fds) + 1
    BY <1>1, <2>1
  <2> QED
    BY <1>0, <1>4, <2>2, ListTypes, ListTypesNext DEF Search
<1>5. CASE InsertLock(c)
  BY <1>0, <1>5, ListTypes, ListTypesNext DEF InsertLock
<1>6. CASE Recheck(c)
  <2>1. \A i \in Matches(c) : i \in Entries
    BY <1>0, <1>1, ListTypes DEF Matches
  <2> QED
    BY <1>0, <1>6, <2>1, ListTypes, ListTypesNext DEF Recheck
<1>7. CASE Create(c)
  <2> DEFINE i == IF Fd(c) = API THEN 0 ELSE num_filedes
  <2>1. i \in Entries /\ Fd(c) \in Fds \cup {API}
    BY <1>0, <1>1, <1>2, <1>7, ListTypes DEF Create, Fd
  <2>2. /\ aio_reqs' = [aio_reqs EXCEPT ![i] = Fd(c)]
        /\ wpc' = [w \in Workers |-> IF w[1] = i THEN "relock" ELSE wpc[w]]
        /\ aio_req' = [aio_req EXCEPT ![cop[c]] = i]
    BY <1>7 DEF Create
  <2> HIDE DEF i
  <2>3. wpc' \in [Workers -> WorkerPlaces]
    BY <1>0, <2>2, ListTypes DEF WorkerPlaces
  <2>4. aio_reqs' \in [Entries -> Fds \cup {API, NULL}] /\ aio_req' \in [Ops -> Entries \cup {NULL}]
    BY <1>0, <2>1, <2>2, ListTypes
  <2>5. cpc' \in [Callers -> CallerPlaces]
    BY <1>0, <1>7, ListTypes DEF Create
  <2>6. UNCHANGED <<num_filedes, insert_mutex, aio_mutex, lists, requests_queued, issues, status, cop, ndx, wop>>
    BY <1>7 DEF Create
  <2> QED
    BY <1>0, <2>3, <2>4, <2>5, <2>6, ListTypes, ListTypesNext
<1>8. CASE Publish(c)
  <2>1. num_filedes' \in 1 .. Cardinality(Fds) + 1
    <3>1. CASE Fd(c) = API
      BY <1>0, <1>8, <3>1, ListTypes DEF Publish
    <3>2. CASE Fd(c) # API
      <4>1. aio_req[cop[c]] = num_filedes /\ cop[c] \in Ops /\ num_filedes \in 1 .. Cardinality(Fds) + 1
        BY <1>0, <1>2, <1>8, <3>2, ListTypes DEF Publish, CallerInv
      <4>2. aio_reqs[num_filedes] = FdOf[cop[c]] /\ num_filedes \in Entries
        BY <1>0, <1>1, <4>1, ConstantsOK DEF OneEntryPerFd
      <4>3. num_filedes <= Cardinality(Fds)
        BY <1>0, <1>2, <1>8, <4>2, ConstantsOK DEF TableInv, Publish
      <4> QED
        BY <1>1, <1>8, <3>2, <4>1, <4>3 DEF Publish
    <3> QED
      BY <3>1, <3>2
  <2> QED
    BY <1>0, <1>8, <2>1, ListTypes, ListTypesNext DEF Publish
<1> QED
  BY <1>3, <1>4, <1>5, <1>6, <1>7, <1>8

\* ... by those of a caller that queues its request ...
LEMMA QueueTypes ==
  ASSUME Inv, NEW c \in Callers, Count(c) \/ TryLock(c) \/ PushTemp(c) \/ Fill(c) \/ Signal(c)
  PROVE  TypeOK'
<1> USE DEF table, ops, caller, worker, CGoto, CallerPlaces, CallerDone
<1>0. TypeOK /\ CallerInv(c) /\ QueuesInv /\ OpsInv
  BY DEF Inv, CallersOK
<1>1. Cardinality(Fds) \in Nat /\ 0 \in 0 .. Cardinality(Fds) + 1
  BY EntryNumbers
<1>2. cpc[c] \in {"count", "try", "push", "fill", "signal"}
  BY DEF Count, TryLock, PushTemp, Fill, Signal
<1>3. cop[c] \in Ops /\ Entry(c) \in Entries
  BY <1>2, CallerFacts
<1>4. cpc[c] # "signal" => cop[c] \notin ToSet(arrival[Entry(c)])
  BY <1>0, <1>2, <1>3 DEF OpsInv, Pending
<1>5. CASE Count(c)
  <2>1. requests_queued[Entry(c)] + 1 \in Int
    BY <1>0, <1>3, ListTypes
  <2> QED
    BY <1>0, <1>3, <1>5, <2>1, ListTypes, ListTypesNext DEF Count, lists
<1>6. CASE TryLock(c)
  BY <1>0, <1>3, <1>6, ListTypes, ListTypesNext DEF TryLock, lists
<1>7. CASE PushTemp(c)
  <2>1. ListsTyped'
    BY <1>0, <1>3, <1>4, <1>7, PushEffect DEF PushTemp
  <2> QED
    BY <1>0, <1>1, <1>7, <2>1, ListTypes, ListTypesNext DEF PushTemp, ListsTyped
<1>8. CASE Fill(c)
  <2>1. ListsTyped'
    BY <1>0, <1>3, <1>4, <1>8, FillEffect DEF Fill
  <2> QED
    BY <1>0, <1>8, <2>1, ListTypes, ListTypesNext DEF Fill, ListsTyped
<1>9. CASE Signal(c)
  <2>1. wpc' \in [Workers -> WorkerPlaces]
    <3>1. wpc \in [Workers -> WorkerPlaces]
      BY <1>0, ListTypes
    <3>2. wpc' = wpc \/ \E w \in Workers : WGoto(w, "relock")
      BY <1>9 DEF Signal, Wakeable
    <3> QED
      BY <3>1, <3>2 DEF WGoto, WorkerPlaces
  <2> QED
    BY <1>0, <1>1, <1>3, <1>9, <2>1, ListTypes, ListTypesNext DEF Signal, lists
<1> QED
  BY <1>5, <1>6, <1>7, <1>8, <1>9

\* ... and by those of the threads.
LEMMA WorkerTypes ==
  ASSUME Inv, NEW w \in Workers, WorkerStep(w)
  PROVE  TypeOK'
<1> USE DEF table, ops, caller, worker, WGoto, WorkerPlaces
<1>0. TypeOK /\ QueuesInv /\ OpsInv
  BY DEF Inv
<1>1. w[1] \in Entries
  BY EntryNumbers
<1>2. CASE Relock(w)
  BY <1>0, <1>1, <1>2, ListTypes, ListTypesNext DEF Relock, lists
<1>3. CASE Check(w)
  <2>1. CASE aio_move(w[1]).todo = <<>> /\ aio_move(w[1]).http = <<>>
    <3>1. UNCHANGED <<lists, aio_mutex, wop>> /\ WGoto(w, "empty")
      BY <1>0, <1>3, <2>1, CheckNothing
    <3> QED
      BY <1>0, <1>3, <3>1, ListTypes, ListTypesNext DEF Check, lists
  <2>2. CASE ~(aio_move(w[1]).todo = <<>> /\ aio_move(w[1]).http = <<>>)
    <3>1. /\ ListsTyped' /\ aio_mutex' = [aio_mutex EXCEPT ![w[1]] = NULL] /\ WGoto(w, "io")
          /\ \E o \in Ops : wop' = [wop EXCEPT ![w] = o]
      BY <1>0, <1>3, <2>2, CheckTakes
    <3> QED
      BY <1>0, <1>3, <3>1, ListTypes, ListTypesNext DEF Check, ListsTyped
  <2> QED
    BY <2>1, <2>2
<1>4. CASE CacheOp(w)
  <2>1. requests_queued[w[1]] - 1 \in Int
    BY <1>0, <1>1, ListTypes
  <2> QED
    BY <1>0, <1>1, <1>4, <2>1, ListTypes, ListTypesNext DEF CacheOp, lists
<1>5. CASE CallBack(w)
  BY <1>0, <1>5, ListTypes, ListTypesNext DEF CallBack, lists
<1>6. CASE Wait(w)
  BY <1>0, <1>1, <1>6, ListTypes, ListTypesNext DEF Wait, lists
<1>7. CASE Timeout(w)
  BY <1>0, <1>1, <1>7, ListTypes, ListTypesNext DEF Timeout, lists
<1> QED
  BY <1>2, <1>3, <1>4, <1>5, <1>6, <1>7 DEF WorkerStep

-----------------------------------------------------------------------------
(* The table of entries                                                    *)

\* A caller that does not write to the table moves, and every other one stays.
LEMMA TableFrame ==
  ASSUME Inv, TypeOK', UNCHANGED <<aio_reqs, num_filedes>>, NEW c \in Callers,
         cpc[c] # "publish", cpc'[c] # "publish",
         \A d \in Callers : d # c =>
           /\ cpc'[d] = cpc[d] /\ cop'[d] = cop[d] /\ ndx'[d] = ndx[d]
           /\ insert_mutex' = d <=> insert_mutex = d
           /\ cpc[d] # "idle" => aio_req'[cop[d]] = aio_req[cop[d]],
         \A o \in Ops : aio_req'[o] # NULL => aio_reqs[aio_req'[o]] = FdOf[o],
         \A w \in Workers : wpc'[w] = "off" <=> wpc[w] = "off",
         CallerInv(c)'
  PROVE  TableInv' /\ OneEntryPerFd' /\ CallersOK'
<1>0. TypeOK /\ TableInv /\ OneEntryPerFd /\ CallersOK
  BY DEF Inv
<1>1. TableInv'
  <2>1. ASSUME NEW d \in Callers, cpc[d] = "publish", aio_req[cop[d]] = num_filedes
        PROVE  cpc'[d] = "publish" /\ aio_req'[cop'[d]] = num_filedes
    BY <2>1
  <2>2. aio_reqs[num_filedes] # NULL => \E d \in Callers : cpc'[d] = "publish" /\ aio_req'[cop'[d]] = num_filedes
    BY <1>0, <2>1 DEF TableInv
  <2> QED
    BY <1>0, <2>2 DEF TableInv
<1>2. OneEntryPerFd'
  BY <1>0 DEF OneEntryPerFd
<1>3. ASSUME NEW d \in Callers PROVE CallerInv(d)'
  <2>1. CASE d # c
    <3>1. CallerInv(d)
      BY <1>0 DEF CallersOK
    <3> QED
      BY <2>1, <3>1 DEF CallerInv, Inserting, Fd
  <2> QED
    BY <2>1
<1> QED
  BY <1>1, <1>2, <1>3 DEF CallersOK

\* A caller that looks for the entry of its request.
LEMMA SearchTable ==
  ASSUME Inv, TypeOK', NEW c \in Callers,
         (\E o \in Ops : Issue(c, o)) \/ Search(c) \/ InsertLock(c) \/ Recheck(c)
  PROVE  TableInv' /\ OneEntryPerFd' /\ CallersOK'
<1> USE DEF table, lists, ops, caller, worker, CGoto, Found
<1>0. TypeOK /\ TableInv /\ OneEntryPerFd /\ CallersOK /\ CallerInv(c) /\ OpsInv
  BY DEF Inv, CallersOK
<1>1. /\ cpc \in [Callers -> CallerPlaces] /\ cop \in [Callers -> Ops \cup {NULL}]
      /\ ndx \in [Callers -> 0 .. Cardinality(Fds) + 1] /\ num_filedes \in 1 .. Cardinality(Fds) + 1
      /\ aio_req \in [Ops -> Entries \cup {NULL}] /\ Entries = 0 .. Cardinality(Fds) + 1
      /\ Cardinality(Fds) \in Nat /\ NULL \notin Callers
  BY <1>0, ListTypes, EntryNumbers, ConstantsOK
<1>2. \A o \in Ops : aio_req[o] # NULL => aio_reqs[aio_req[o]] = FdOf[o]
  BY <1>0 DEF OneEntryPerFd
<1>3. cpc[c] # "idle" => cop[c] \in Ops /\ FdOf[cop[c]] \in Fds \cup {API}
  BY CallerFacts
<1>4. ASSUME NEW d \in Callers, d # c, Pending(c), cpc[d] # "idle" PROVE cop[c] # cop[d] /\ cop[d] \in Ops
  BY <1>0, <1>4, CallerFacts, OpsDiffer
<1>5. ASSUME NEW o \in Ops, Issue(c, o) PROVE TableInv' /\ OneEntryPerFd' /\ CallersOK'
  <2>1. /\ cop'[c] = o /\ ndx'[c] = 1 /\ cpc[c] = "idle"
        /\ cpc'[c] = IF aio_req[o] # NULL THEN "count" ELSE IF FdOf[o] = API THEN "insert" ELSE "search"
        /\ \A d \in Callers : d # c => cpc'[d] = cpc[d] /\ cop'[d] = cop[d] /\ ndx'[d] = ndx[d]
        /\ UNCHANGED <<aio_reqs, num_filedes, insert_mutex, aio_req, wpc>>
    BY <1>1, <1>5 DEF Issue
  <2>2. CallerInv(c)'
    BY <1>0, <1>1, <2>1 DEF CallerInv, Inserting, Fd
  <2> QED
    BY <1>2, <2>1, <2>2, TableFrame
<1>6. CASE Search(c)
  <2>1. /\ cpc[c] = "search" /\ cop' = cop /\ cpc'[c] \in {"search", "count", "insert"}
        /\ \A d \in Callers : d # c => cpc'[d] = cpc[d] /\ ndx'[d] = ndx[d]
        /\ UNCHANGED <<aio_reqs, num_filedes, insert_mutex, wpc>>
    BY <1>1, <1>6 DEF Search
  <2>2. \/ /\ ndx[c] < num_filedes /\ aio_reqs[ndx[c]] = Fd(c) /\ ndx' = ndx
           /\ cpc'[c] = "count" /\ aio_req' = [aio_req EXCEPT ![cop[c]] = ndx[c]]
        \/ /\ ndx[c] < num_filedes /\ aio_reqs[ndx[c]] # Fd(c) /\ ndx'[c] = ndx[c] + 1
           /\ cpc'[c] = "search" /\ aio_req' = aio_req
        \/ /\ ndx[c] >= num_filedes /\ cpc'[c] = "insert" /\ aio_req' = aio_req /\ ndx' = ndx
    BY <1>1, <1>6 DEF Search
  <2>3. /\ ndx[c] \in 1 .. num_filedes /\ Fd(c) # API /\ ndx[c] # NULL
        /\ \A i \in Entries : i # 0 /\ i < ndx[c] => aio_reqs[i] # Fd(c)
    <3>1. NULL \notin Entries
      BY ConstantsOK
    <3> QED
      BY <1>0, <1>1, <2>1, <3>1 DEF CallerInv
  <2>4. Pending(c) /\ cop[c] \in Ops
    BY <1>3, <2>1 DEF Pending
  <2>5. /\ \A d \in Callers : d # c /\ cpc[d] # "idle" => aio_req'[cop[d]] = aio_req[cop[d]]
        /\ \A o \in Ops : aio_req'[o] # NULL => aio_reqs[aio_req'[o]] = FdOf[o]
        /\ cpc'[c] = "count" => aio_req'[cop[c]] # NULL
    <3>1. CASE aio_req' = aio_req
      BY <1>2, <2>2, <2>4, <3>1, <2>3, <1>1
    <3>2. CASE aio_req' = [aio_req EXCEPT ![cop[c]] = ndx[c]] /\ aio_reqs[ndx[c]] = Fd(c)
      BY <1>1, <1>2, <1>4, <2>3, <2>4, <3>2 DEF Fd
    <3> QED
      BY <2>2, <3>1, <3>2
  <2>6. CallerInv(c)'
    <3>1. \A i \in Entries : i # 0 /\ i < ndx'[c] => aio_reqs[i] # Fd(c) \/ cpc'[c] = "count"
      BY <1>1, <2>2, <2>3
    <3>2. cpc'[c] # "count" => ndx'[c] \in 1 .. num_filedes
      BY <1>1, <2>2, <2>3
    <3> QED
      BY <1>0, <2>1, <2>3, <2>4, <2>5, <3>1, <3>2 DEF CallerInv, Inserting, Fd
  <2> QED
    BY <2>1, <2>5, <2>6, TableFrame
<1>7. CASE InsertLock(c)
  <2>1. /\ cpc[c] = "insert" /\ cpc'[c] = "recheck" /\ insert_mutex = NULL /\ insert_mutex' = c
        /\ \A d \in Callers : d # c => cpc'[d] = cpc[d]
        /\ UNCHANGED <<aio_reqs, num_filedes, aio_req, cop, ndx, wpc>>
    BY <1>1, <1>7 DEF InsertLock
  <2>2. CallerInv(c)'
    BY <1>0, <2>1 DEF CallerInv, Inserting, Fd
  <2> QED
    BY <1>1, <1>2, <2>1, <2>2, TableFrame
<1>8. CASE Recheck(c)
  <2>1. /\ cpc[c] = "recheck" /\ cpc'[c] \in {"create", "count"}
        /\ \A d \in Callers : d # c => cpc'[d] = cpc[d]
        /\ UNCHANGED <<aio_reqs, num_filedes, cop, ndx, wpc>>
    BY <1>1, <1>8 DEF Recheck
  <2>2. Pending(c) /\ cop[c] \in Ops /\ insert_mutex = c
    BY <1>0, <1>3, <2>1 DEF Pending, CallerInv, Inserting
  <2>3. CASE Matches(c) = {}
    <3>1. cpc'[c] = "create" /\ UNCHANGED <<insert_mutex, aio_req>>
      BY <1>1, <1>8, <2>3 DEF Recheck
    <3>2. IF Fd(c) = API THEN aio_reqs[0] = NULL
          ELSE \A i \in Entries : i # 0 /\ i < num_filedes => aio_reqs[i] # Fd(c)
      <4>1. CASE Fd(c) = API
        BY <2>3, <4>1 DEF Matches
      <4>2. CASE Fd(c) # API /\ ndx[c] = num_filedes
        BY <1>0, <2>1, <4>2 DEF CallerInv
      <4>3. CASE Fd(c) # API /\ ndx[c] # num_filedes
        BY <1>1, <2>3, <4>3 DEF Matches
      <4> QED
        BY <4>1, <4>2, <4>3
    <3>3. CallerInv(c)'
      BY <1>0, <2>1, <2>2, <3>1, <3>2 DEF CallerInv, Inserting, Fd
    <3> QED
      BY <1>2, <2>1, <3>1, <3>3, TableFrame
  <2>4. CASE Matches(c) # {}
    <3>1. PICK i \in Matches(c) : aio_req' = [aio_req EXCEPT ![cop[c]] = i] /\ cpc'[c] = "count"
      BY <1>1, <1>8, <2>4 DEF Recheck
    <3>2. insert_mutex' = NULL
      BY <1>8, <2>4 DEF Recheck
    <3>3. i \in Entries /\ i # NULL /\ aio_reqs[i] = Fd(c)
      <4>1. NULL \notin Entries
        BY ConstantsOK
      <4>2. aio_reqs[0] \in {NULL, API}
        BY <1>0 DEF TableInv
      <4> QED
        BY <1>1, <4>1, <4>2 DEF Matches
    <3>4. /\ \A d \in Callers : d # c /\ cpc[d] # "idle" => aio_req'[cop[d]] = aio_req[cop[d]]
          /\ \A o \in Ops : aio_req'[o] # NULL => aio_reqs[aio_req'[o]] = FdOf[o]
          /\ aio_req'[cop[c]] # NULL
      BY <1>1, <1>2, <1>4, <2>2, <3>1, <3>3 DEF Fd
    <3>5. CallerInv(c)'
      BY <1>0, <1>1, <2>1, <2>2, <3>1, <3>2, <3>4 DEF CallerInv, Inserting, Fd
    <3> QED
      BY <1>1, <2>1, <2>2, <3>2, <3>4, <3>5, TableFrame
  <2> QED
    BY <2>3, <2>4
<1> QED
  BY <1>5, <1>6, <1>7, <1>8

\* A caller that queues its request.
LEMMA QueueTable ==
  ASSUME Inv, TypeOK', NEW c \in Callers, Count(c) \/ TryLock(c) \/ PushTemp(c) \/ Fill(c) \/ Signal(c)
  PROVE  TableInv' /\ OneEntryPerFd' /\ CallersOK'
<1> USE DEF table, lists, ops, caller, worker, CGoto, CallerDone
<1>0. TypeOK /\ TableInv /\ OneEntryPerFd /\ CallersOK /\ CallerInv(c)
  BY DEF Inv, CallersOK
<1>1. /\ cpc \in [Callers -> CallerPlaces] /\ cop \in [Callers -> Ops \cup {NULL}]
      /\ ndx \in [Callers -> 0 .. Cardinality(Fds) + 1] /\ wpc \in [Workers -> WorkerPlaces]
  BY <1>0, ListTypes
<1>2. \A o \in Ops : aio_req[o] # NULL => aio_reqs[aio_req[o]] = FdOf[o]
  BY <1>0 DEF OneEntryPerFd
<1>3. /\ cpc[c] \in {"count", "try", "push", "fill", "signal"}
      /\ \A d \in Callers : d # c => cpc'[d] = cpc[d] /\ cop'[d] = cop[d] /\ ndx'[d] = ndx[d]
      /\ UNCHANGED <<aio_reqs, num_filedes, insert_mutex, aio_req>>
      /\ \/ cpc'[c] = "idle"
         \/ cpc'[c] \in {"try", "push", "fill", "signal"} /\ cop'[c] = cop[c]
  BY <1>1 DEF Count, TryLock, PushTemp, Fill, Signal
<1>4. \A w \in Workers : wpc'[w] = "off" <=> wpc[w] = "off"
  BY <1>1 DEF Count, TryLock, PushTemp, Fill, Signal, Wakeable, WGoto
<1>5. CallerInv(c)'
  BY <1>0, <1>3 DEF CallerInv, Inserting, Fd
<1> QED
  BY <1>2, <1>3, <1>4, <1>5, TableFrame

\* Only the caller that has insert_mutex can have filled in the entry that is
\* not published.
LEMMA NothingUnpublished ==
  ASSUME TableInv, CallersOK, NEW c \in Callers, Inserting(c),
         cpc[c] = "publish" => aio_req[cop[c]] # num_filedes
  PROVE  aio_reqs[num_filedes] = NULL
<1> SUFFICES ASSUME aio_reqs[num_filedes] # NULL PROVE FALSE
  OBVIOUS
<1>1. PICK d \in Callers : cpc[d] = "publish" /\ aio_req[cop[d]] = num_filedes
  BY DEF TableInv
<1>2. insert_mutex = c /\ insert_mutex = d
  BY <1>1 DEF CallersOK, CallerInv, Inserting
<1> QED
  BY <1>1, <1>2

\* A caller that makes an entry.
LEMMA CreateTable ==
  ASSUME Inv, TypeOK', NEW c \in Callers, Create(c)
  PROVE  TableInv' /\ OneEntryPerFd' /\ CallersOK'
<1> DEFINE i == IF Fd(c) = API THEN 0 ELSE num_filedes
<1>0. TypeOK /\ TableInv /\ OneEntryPerFd /\ CallersOK /\ CallerInv(c) /\ OpsInv /\ cpc[c] = "create"
  BY DEF Inv, CallersOK, Create
<1>1. /\ cpc \in [Callers -> CallerPlaces] /\ cop \in [Callers -> Ops \cup {NULL}]
      /\ num_filedes \in 1 .. Cardinality(Fds) + 1
      /\ aio_reqs \in [Entries -> Fds \cup {API, NULL}]
      /\ aio_req \in [Ops -> Entries \cup {NULL}] /\ Entries = 0 .. Cardinality(Fds) + 1
      /\ Cardinality(Fds) \in Nat /\ NULL \notin Entries /\ NULL \notin Fds /\ API # NULL /\ API \notin Fds
  BY <1>0, ListTypes, EntryNumbers, ConstantsOK
<1>2. cop[c] \in Ops /\ Fd(c) \in Fds \cup {API} /\ Fd(c) # NULL
  BY <1>0, CallerFacts DEF Fd
<1>3. i \in 0 .. Cardinality(Fds) /\ i \in Entries
  BY <1>0, <1>1, RoomForEntry
<1>4. aio_reqs[num_filedes] = NULL /\ aio_reqs[i] = NULL
  BY <1>0, NothingUnpublished DEF Inserting, CallerInv
<1>5. /\ aio_reqs' = [aio_reqs EXCEPT ![i] = Fd(c)]
      /\ wpc' = [w \in Workers |-> IF w[1] = i THEN "relock" ELSE wpc[w]]
      /\ aio_req' = [aio_req EXCEPT ![cop[c]] = i]
      /\ cpc' = [cpc EXCEPT ![c] = "publish"]
      /\ UNCHANGED <<num_filedes, insert_mutex, cop, ndx>>
  BY DEF Create, CGoto
<1>6. /\ aio_reqs'[i] = Fd(c) /\ \A j \in Entries : j # i => aio_reqs'[j] = aio_reqs[j]
      /\ aio_req'[cop[c]] = i /\ \A o \in Ops : o # cop[c] => aio_req'[o] = aio_req[o]
      /\ cpc'[c] = "publish" /\ \A d \in Callers : d # c => cpc'[d] = cpc[d]
      /\ \A w \in Workers : wpc'[w] = IF w[1] = i THEN "relock" ELSE wpc[w]
  BY <1>1, <1>2, <1>3, <1>5
<1>7. ASSUME NEW d \in Callers, d # c
      PROVE  ~Inserting(d) /\ (cpc[d] # "idle" => cop[d] \in Ops /\ aio_req'[cop[d]] = aio_req[cop[d]])
  <2>1. cpc[d] # "idle" => cop[c] # cop[d] /\ cop[d] \in Ops
    BY <1>0, <1>7, CallerFacts, OpsDiffer DEF Pending
  <2>2. insert_mutex = c /\ (Inserting(d) => insert_mutex = d)
    BY <1>0 DEF CallersOK, CallerInv, Inserting
  <2> QED
    BY <1>6, <1>7, <2>1, <2>2
<1>8. /\ Fd(c) = API => i = 0
      /\ Fd(c) # API => i = num_filedes /\ i # 0 /\ Fd(c) \in Fds
  BY <1>1, <1>2
<1>9. \A j \in Entries : aio_reqs[j] # Fd(c)
  <2>1. CASE Fd(c) = API
    BY <1>0, <1>1, <2>1 DEF CallerInv, TableInv
  <2>2. CASE Fd(c) # API
    <3> SUFFICES ASSUME NEW j \in Entries PROVE aio_reqs[j] # Fd(c)
      OBVIOUS
    <3>1. j = 0 \/ (j # 0 /\ j < num_filedes) \/ j = num_filedes \/ j > num_filedes
      BY <1>1
    <3> QED
      BY <1>0, <1>1, <1>2, <1>4, <2>2, <3>1 DEF CallerInv, TableInv
  <2> QED
    BY <2>1, <2>2
<1> HIDE DEF i
<1>10. TableInv'
  <2>1. aio_reqs'[0] \in {NULL, API}
    BY <1>0, <1>1, <1>6, <1>8 DEF TableInv
  <2>2. \A j \in Entries : j # 0 => aio_reqs'[j] \in Fds \cup {NULL}
    BY <1>0, <1>6, <1>8 DEF TableInv
  <2>3. \A j \in Entries : j # 0 /\ j < num_filedes => aio_reqs'[j] # NULL
    BY <1>0, <1>2, <1>6 DEF TableInv
  <2>4. \A j \in Entries : j > num_filedes => aio_reqs'[j] = NULL
    BY <1>0, <1>1, <1>6, <1>8 DEF TableInv
  <2>5. aio_reqs'[num_filedes] # NULL => cpc'[c] = "publish" /\ aio_req'[cop[c]] = num_filedes
    BY <1>1, <1>4, <1>6, <1>8
  <2>6. \A j \in Entries : aio_reqs'[j] # NULL => j <= Cardinality(Fds)
    BY <1>0, <1>1, <1>3, <1>6 DEF TableInv
  <2>7. \A w \in Workers : wpc'[w] = "off" <=> aio_reqs'[w[1]] = NULL
    BY <1>0, <1>2, <1>6, EntryNumbers DEF TableInv
  <2> QED
    BY <1>5, <2>1, <2>2, <2>3, <2>4, <2>5, <2>6, <2>7 DEF TableInv
<1>11. OneEntryPerFd'
  <2>1. \A j, k \in Entries : j # k /\ aio_reqs'[j] # NULL => aio_reqs'[j] # aio_reqs'[k]
    BY <1>0, <1>2, <1>6, <1>9 DEF OneEntryPerFd
  <2>2. \A o \in Ops : aio_req'[o] # NULL => aio_reqs'[aio_req'[o]] = FdOf[o]
    <3> SUFFICES ASSUME NEW o \in Ops, aio_req'[o] # NULL PROVE aio_reqs'[aio_req'[o]] = FdOf[o]
      OBVIOUS
    <3>1. CASE o = cop[c]
      BY <1>6, <3>1 DEF Fd
    <3>2. CASE o # cop[c]
      <4>1. aio_req'[o] = aio_req[o] /\ aio_req[o] \in Entries /\ aio_reqs[aio_req[o]] = FdOf[o]
        BY <1>0, <1>1, <1>6, <3>2 DEF OneEntryPerFd
      <4>2. FdOf[o] # NULL
        BY <1>1, ConstantsOK
      <4> QED
        BY <1>4, <1>6, <4>1, <4>2
    <3> QED
      BY <3>1, <3>2
  <2> QED
    BY <2>1, <2>2 DEF OneEntryPerFd
<1>12. ASSUME NEW d \in Callers PROVE CallerInv(d)'
  <2>0. CallerInv(d)
    BY <1>0 DEF CallersOK
  <2>1. CASE d = c
    BY <1>0, <1>2, <1>5, <1>6, <1>8, <2>1 DEF CallerInv, Inserting, Fd
  <2>2. CASE d # c
    <3>1. cpc[d] \in {"search", "insert"} /\ Fd(d) # API =>
            /\ ndx[d] \in 1 .. num_filedes
            /\ \A j \in Entries : j # 0 /\ j < ndx[d] => aio_reqs'[j] # Fd(d)
      BY <1>1, <1>6, <1>8, <2>0 DEF CallerInv
    <3> QED
      BY <1>5, <1>6, <1>7, <2>0, <2>2, <3>1 DEF CallerInv, Inserting, Fd
  <2> QED
    BY <2>1, <2>2
<1> QED
  BY <1>10, <1>11, <1>12 DEF CallersOK

\* A caller that publishes its entry.
LEMMA PublishTable ==
  ASSUME Inv, TypeOK', NEW c \in Callers, Publish(c)
  PROVE  TableInv' /\ OneEntryPerFd' /\ CallersOK'
<1>0. TypeOK /\ TableInv /\ OneEntryPerFd /\ CallersOK /\ CallerInv(c) /\ cpc[c] = "publish"
  BY DEF Inv, CallersOK, Publish
<1>1. /\ cpc \in [Callers -> CallerPlaces] /\ num_filedes \in 1 .. Cardinality(Fds) + 1
      /\ num_filedes' \in 1 .. Cardinality(Fds) + 1
      /\ Cardinality(Fds) \in Nat /\ Entries = 0 .. Cardinality(Fds) + 1 /\ NULL \notin Entries /\ NULL \notin Callers
  BY <1>0, ListTypes, ListTypesNext, EntryNumbers, ConstantsOK
<1>2. /\ cpc'[c] = "count" /\ \A d \in Callers : d # c => cpc'[d] = cpc[d]
      /\ insert_mutex' = NULL /\ UNCHANGED <<aio_reqs, aio_req, cop, ndx, wpc>>
      /\ num_filedes' = IF Fd(c) = API THEN num_filedes ELSE num_filedes + 1
  BY <1>1 DEF Publish, CGoto, ops, worker
<1>3. cop[c] \in Ops /\ FdOf[cop[c]] # NULL /\ Fd(c) = FdOf[cop[c]]
  BY <1>0, CallerFacts DEF Fd
<1>4. aio_req[cop[c]] = (IF Fd(c) = API THEN 0 ELSE num_filedes) /\ aio_req[cop[c]] # NULL
  BY <1>0, <1>1 DEF CallerInv
<1>5. aio_reqs[aio_req[cop[c]]] = FdOf[cop[c]]
  BY <1>0, <1>3, <1>4 DEF OneEntryPerFd
<1>6. Fd(c) = API => aio_reqs[num_filedes] = NULL
  BY <1>0, <1>1, <1>4, NothingUnpublished DEF Inserting
<1>7. ASSUME NEW d \in Callers, d # c PROVE ~Inserting(d)
  BY <1>0, <1>7 DEF CallersOK, CallerInv, Inserting
<1>8. /\ num_filedes' \in Entries
      /\ aio_reqs[num_filedes'] = NULL
      /\ \A i \in Entries : i > num_filedes' => aio_reqs[i] = NULL
      /\ \A i \in Entries : i # 0 /\ i < num_filedes' => aio_reqs[i] # NULL
  <2>1. CASE Fd(c) = API
    BY <1>0, <1>1, <1>2, <1>6, <2>1 DEF TableInv
  <2>2. CASE Fd(c) # API
    <3>1. num_filedes' = num_filedes + 1 /\ aio_reqs[num_filedes] # NULL
      BY <1>2, <1>3, <1>4, <1>5, <2>2
    <3>2. num_filedes' \in Entries /\ num_filedes' > num_filedes
      BY <1>1, <3>1
    <3>3. \A i \in Entries : i < num_filedes' => i < num_filedes \/ i = num_filedes
      BY <1>1, <3>1
    <3>4. \A i \in Entries : i > num_filedes' => i > num_filedes
      BY <1>1, <3>1
    <3> QED
      BY <1>0, <3>1, <3>2, <3>3, <3>4 DEF TableInv
  <2> QED
    BY <2>1, <2>2
<1>9. TableInv'
  BY <1>0, <1>2, <1>8 DEF TableInv
<1>10. OneEntryPerFd'
  BY <1>0, <1>2 DEF OneEntryPerFd
<1>11. ASSUME NEW d \in Callers PROVE CallerInv(d)'
  <2>0. CallerInv(d)
    BY <1>0 DEF CallersOK
  <2>1. CASE d = c
    BY <1>1, <1>2, <1>3, <1>4, <2>1 DEF CallerInv, Inserting, Fd
  <2>2. CASE d # c
    <3>1. \A k \in 1 .. num_filedes : k \in 1 .. num_filedes'
      BY <1>1, <1>2
    <3> QED
      BY <1>1, <1>2, <1>7, <2>0, <2>2, <3>1 DEF CallerInv, Inserting, Fd
  <2> QED
    BY <2>1, <2>2
<1> QED
  BY <1>9, <1>10, <1>11 DEF CallersOK

\* Nobody touches the table.
LEMMA TableSame ==
  ASSUME Inv, UNCHANGED <<table, aio_req, caller>>,
         \A w \in Workers : wpc'[w] = "off" <=> wpc[w] = "off"
  PROVE  TableInv' /\ OneEntryPerFd' /\ CallersOK'
<1>0. TableInv /\ OneEntryPerFd /\ CallersOK
  BY DEF Inv
<1>1. TableInv'
  BY <1>0 DEF TableInv, table, caller
<1>2. OneEntryPerFd'
  BY <1>0 DEF OneEntryPerFd, table
<1>3. CallersOK'
  BY <1>0 DEF CallersOK, CallerInv, Inserting, Fd, table, caller
<1> QED
  BY <1>1, <1>2, <1>3

\* The threads leave the table alone, and a thread that is there stays there.
LEMMA WorkerTable ==
  ASSUME Inv, NEW w \in Workers, WorkerStep(w)
  PROVE  TableInv' /\ OneEntryPerFd' /\ CallersOK'
<1>0. TypeOK
  BY DEF Inv
<1>1. wpc \in [Workers -> WorkerPlaces]
  BY <1>0, ListTypes
<1>2. UNCHANGED <<table, aio_req, caller>>
  BY DEF WorkerStep, Relock, Check, CacheOp, CallBack, Wait, Timeout, ops
<1>3. wpc[w] # "off" /\ \E l \in WorkerPlaces : l # "off" /\ WGoto(w, l)
  BY DEF WorkerStep, Relock, Check, CacheOp, CallBack, Wait, Timeout, WorkerPlaces
<1>4. \A v \in Workers : wpc'[v] = "off" <=> wpc[v] = "off"
  BY <1>1, <1>3 DEF WGoto
<1> QED
  BY <1>2, <1>4, TableSame

-----------------------------------------------------------------------------
(* Where the requests are, and who has the mutexes                         *)

\* A step that does not move a request from one place to another: callers keep
\* the requests they have not queued, the lists and the threads keep theirs.
LEMMA OpsFrame ==
  ASSUME OpsInv, UNCHANGED <<arrival, wop, status>>,
         \A d \in Callers : (Pending(d)' <=> Pending(d)) /\ (Pending(d) => cop'[d] = cop[d]),
         \A d \in Callers : cpc'[d] = "signal" =>
           cpc[d] = "signal" /\ cop'[d] = cop[d] /\ aio_req'[cop[d]] = aio_req[cop[d]],
         \A i \in Entries : \A o \in ToSet(arrival[i]) : aio_req'[o] = aio_req[o],
         \A w \in Workers : wpc'[w] \in {"io", "call"} <=> wpc[w] \in {"io", "call"}
  PROVE  OpsInv'
<1>1. \A c, d \in Callers : Pending(c)' /\ Pending(d)' /\ cop'[c] = cop'[d] => c = d
  BY DEF OpsInv
<1>2. /\ \A c \in Callers : Pending(c)' => status'[cop'[c]] = "issued"
      /\ \A c \in Callers, i \in Entries : Pending(c)' => cop'[c] \notin ToSet(arrival'[i])
      /\ \A c \in Callers, w \in Workers : Pending(c)' => wop'[w] # cop'[c]
  BY DEF OpsInv
<1>3. \A i \in Entries : \A o \in ToSet(arrival'[i]) :
        status'[o] = "issued" /\ aio_req'[o] = i /\ \A w \in Workers : wop'[w] # o
  BY DEF OpsInv
<1>4. /\ \A w \in Workers : wop'[w] # NULL => status'[wop'[w]] = "issued"
      /\ \A v, w \in Workers : wop'[v] # NULL /\ wop'[v] = wop'[w] => v = w
      /\ \A w \in Workers : wpc'[w] \in {"io", "call"} <=> wop'[w] # NULL
  BY DEF OpsInv
<1>5. \A c \in Callers : cpc'[c] = "signal" => cop'[c] \in ToSet(arrival'[aio_req'[cop'[c]]])
  BY DEF OpsInv, Entry
<1> QED
  BY <1>1, <1>2, <1>3, <1>4, <1>5 DEF OpsInv, Entry

\* A step in which nobody takes or releases the mutex of an entry.
LEMMA MutexFrame ==
  ASSUME MutexInv, UNCHANGED <<aio_mutex, aio_todo, http_aio_todo>>,
         \A d \in Callers : cpc'[d] \in {"fill", "signal"} =>
           cpc'[d] = cpc[d] /\ cop'[d] = cop[d] /\ aio_req'[cop[d]] = aio_req[cop[d]],
         \A w \in Workers : wpc'[w] \in {"check", "empty"} => wpc'[w] = wpc[w]
  PROVE  MutexInv'
<1>1. \A d \in Callers : cpc'[d] \in {"fill", "signal"} => aio_mutex'[aio_req'[cop'[d]]] = d
  BY DEF MutexInv, Entry
<1>2. \A w \in Workers : wpc'[w] \in {"check", "empty"} => aio_mutex'[w[1]] = w
  BY DEF MutexInv
<1>3. \A w \in Workers : wpc'[w] = "empty" => aio_todo'[w[1]] = <<>> /\ http_aio_todo'[w[1]] = <<>>
  BY DEF MutexInv
<1> QED
  BY <1>1, <1>2, <1>3 DEF MutexInv, Entry

\* A step in which no thread goes to sleep and no caller signals.
LEMMA AwakeFrame ==
  ASSUME NoneLeftWaiting, UNCHANGED <<aio_todo, http_aio_todo>>,
         \A d \in Callers : cpc[d] = "signal" =>
           cpc'[d] = "signal" /\ cop'[d] = cop[d] /\ aio_req'[cop[d]] = aio_req[cop[d]],
         \A w \in Workers : wpc[w] \notin {"off", "wait"} => wpc'[w] \notin {"off", "wait"}
  PROVE  NoneLeftWaiting'
<1> SUFFICES ASSUME NEW i \in Entries, aio_todo[i] \o http_aio_todo[i] # <<>>
             PROVE  \/ \E w \in Workers : w[1] = i /\ wpc'[w] \notin {"off", "wait"}
                    \/ \E d \in Callers : cpc'[d] = "signal" /\ aio_req'[cop'[d]] = i
  BY DEF NoneLeftWaiting, Entry
<1> QED
  BY DEF NoneLeftWaiting, Entry

\* The lists stay as they are.
LEMMA QueuesFrame ==
  ASSUME QueuesInv, UNCHANGED lists
  PROVE  QueuesInv'
BY DEF QueuesInv, QueuesOf, lists

\* A caller that looks for its entry or makes it.  Its request is in no queue, so
\* nobody else has it.
LEMMA SearchPlaces ==
  ASSUME Inv, NEW c \in Callers, Search(c) \/ InsertLock(c) \/ Recheck(c) \/ Create(c) \/ Publish(c) \/ Count(c)
  PROVE  OpsInv' /\ MutexInv' /\ QueuesInv' /\ NoneLeftWaiting'
<1> USE DEF lists, ops, worker, CGoto, Found
<1>0. TypeOK /\ TableInv /\ CallersOK /\ OpsInv /\ MutexInv /\ QueuesInv /\ NoneLeftWaiting
  BY DEF Inv
<1>1. cpc \in [Callers -> CallerPlaces] /\ aio_req \in [Ops -> Entries \cup {NULL}] /\ wpc \in [Workers -> WorkerPlaces]
  BY <1>0, ListTypes
<1>2. /\ cpc[c] \notin {"idle", "fill", "signal"}
      /\ \E l \in CallerPlaces : (l \notin {"idle", "fill", "signal"} /\ CGoto(c, l)) \/ cpc' = cpc
      /\ UNCHANGED <<aio_mutex, lists, status, cop, wop>>
  BY DEF Search, InsertLock, Recheck, Create, Publish, Count, CallerPlaces
<1>3. /\ cpc'[c] \notin {"idle", "fill", "signal"} /\ \A d \in Callers : d # c => cpc'[d] = cpc[d]
      /\ Pending(c)
  BY <1>1, <1>2 DEF Pending
<1>4. cop[c] \in Ops
  BY <1>2, CallerFacts
<1>5. \A o \in Ops : o # cop[c] => aio_req'[o] = aio_req[o]
  <2>1. aio_req' = aio_req \/ \E i : aio_req' = [aio_req EXCEPT ![cop[c]] = i]
    BY DEF Search, InsertLock, Recheck, Create, Publish, Count
  <2> QED
    BY <1>1, <2>1
<1>6. \A w \in Workers : wpc'[w] = wpc[w] \/ (wpc[w] = "off" /\ wpc'[w] = "relock")
  <2>1. CASE Create(c)
    <3> DEFINE i == IF Fd(c) = API THEN 0 ELSE num_filedes
    <3>1. wpc' = [w \in Workers |-> IF w[1] = i THEN "relock" ELSE wpc[w]] /\ cpc[c] = "create"
      BY <2>1 DEF Create
    <3>2. aio_reqs[i] = NULL
      BY <1>0, <3>1, NothingUnpublished DEF Inserting, CallersOK, CallerInv
    <3> HIDE DEF i
    <3>3. \A w \in Workers : w[1] = i => wpc[w] = "off"
      BY <1>0, <3>2 DEF TableInv
    <3> QED
      BY <3>1, <3>3
  <2>2. CASE ~Create(c)
    BY <2>2 DEF Search, InsertLock, Recheck, Publish, Count
  <2> QED
    BY <2>1, <2>2
<1>7. ASSUME NEW d \in Callers, cpc[d] = "signal" \/ cpc[d] = "fill" PROVE aio_req'[cop[d]] = aio_req[cop[d]]
  <2>1. d # c /\ cpc[d] # "idle"
    BY <1>2, <1>7
  <2>2. cop[d] \in Ops /\ Entry(d) \in Entries
    BY <1>7, <2>1, CallerFacts
  <2>3. cop[c] # cop[d]
    BY <1>0, <1>3, <2>1, <2>2, OpsDiffer
  <2> QED
    BY <1>5, <2>2, <2>3
<1>8. ASSUME NEW i \in Entries, NEW o \in ToSet(arrival[i]) PROVE aio_req'[o] = aio_req[o]
  <2>1. o # cop[c]
    BY <1>0, <1>3 DEF OpsInv
  <2>2. arrival[i] \in Seq(Ops)
    BY <1>0, ListTypes
  <2>3. o \in Ops
    BY <2>2, ToSetType
  <2> QED
    BY <1>5, <2>1, <2>3
<1>9. OpsInv'
  <2>1. \A d \in Callers : (Pending(d)' <=> Pending(d)) /\ (Pending(d) => cop'[d] = cop[d])
    BY <1>2, <1>3 DEF Pending
  <2>2. \A d \in Callers : cpc'[d] = "signal" =>
           cpc[d] = "signal" /\ cop'[d] = cop[d] /\ aio_req'[cop[d]] = aio_req[cop[d]]
    BY <1>2, <1>3, <1>7
  <2>3. \A w \in Workers : wpc'[w] \in {"io", "call"} <=> wpc[w] \in {"io", "call"}
    BY <1>6
  <2>4. UNCHANGED <<arrival, wop, status>>
    BY <1>2
  <2> QED
    BY <1>0, <1>8, <2>1, <2>2, <2>3, <2>4, OpsFrame
<1>10. MutexInv'
  <2>1. \A d \in Callers : cpc'[d] \in {"fill", "signal"} =>
           cpc'[d] = cpc[d] /\ cop'[d] = cop[d] /\ aio_req'[cop[d]] = aio_req[cop[d]]
    BY <1>2, <1>3, <1>7
  <2>2. \A w \in Workers : wpc'[w] \in {"check", "empty"} => wpc'[w] = wpc[w]
    BY <1>6
  <2>3. UNCHANGED <<aio_mutex, aio_todo, http_aio_todo>>
    BY <1>2
  <2> QED
    BY <1>0, <2>1, <2>2, <2>3, MutexFrame
<1>11. NoneLeftWaiting'
  <2>1. \A d \in Callers : cpc[d] = "signal" =>
           cpc'[d] = "signal" /\ cop'[d] = cop[d] /\ aio_req'[cop[d]] = aio_req[cop[d]]
    BY <1>2, <1>3, <1>7
  <2>2. \A w \in Workers : wpc[w] \notin {"off", "wait"} => wpc'[w] \notin {"off", "wait"}
    BY <1>6
  <2>3. UNCHANGED <<aio_todo, http_aio_todo>>
    BY <1>2
  <2> QED
    BY <1>0, <2>1, <2>2, <2>3, AwakeFrame
<1> QED
  BY <1>0, <1>2, <1>9, <1>10, <1>11, QueuesFrame

\* A caller takes up a request that its owner has not issued: it is in no queue.
LEMMA IssuePlaces ==
  ASSUME Inv, NEW c \in Callers, NEW o \in Ops, Issue(c, o)
  PROVE  OpsInv' /\ MutexInv' /\ QueuesInv' /\ NoneLeftWaiting'
<1> USE DEF lists, worker, CGoto
<1>0. TypeOK /\ OpsInv /\ MutexInv /\ QueuesInv /\ NoneLeftWaiting
  BY DEF Inv
<1>1. /\ cpc \in [Callers -> CallerPlaces] /\ cop \in [Callers -> Ops \cup {NULL}]
      /\ status \in [Ops -> {"idle", "issued", "done"}] /\ wop \in [Workers -> Ops \cup {NULL}]
  BY <1>0, ListTypes
<1>2. /\ cpc[c] = "idle" /\ status[o] = "idle" /\ cop'[c] = o /\ status'[o] = "issued"
      /\ cpc'[c] \in {"count", "insert", "search"}
      /\ \A d \in Callers : d # c => cpc'[d] = cpc[d] /\ cop'[d] = cop[d]
      /\ \A x \in Ops : x # o => status'[x] = status[x]
      /\ UNCHANGED <<aio_mutex, lists, aio_req, wpc, wop>>
  BY <1>1 DEF Issue
<1>3. /\ Pending(c)' /\ ~Pending(c) /\ cpc'[c] \notin {"fill", "signal"}
      /\ \A d \in Callers : d # c => (Pending(d)' <=> Pending(d))
  BY <1>2 DEF Pending
<1>4. /\ \A d \in Callers : Pending(d) => cop[d] # o
      /\ \A i \in Entries : o \notin ToSet(arrival[i])
      /\ \A w \in Workers : wop[w] # o
  <2>1. o # NULL
    BY ConstantsOK
  <2> QED
    BY <1>0, <1>2, <2>1 DEF OpsInv
<1>5. OpsInv'
  <2>1. \A d, e \in Callers : Pending(d)' /\ Pending(e)' /\ cop'[d] = cop'[e] => d = e
    BY <1>0, <1>2, <1>3, <1>4 DEF OpsInv
  <2>2. \A d \in Callers : Pending(d)' => status'[cop'[d]] = "issued"
    <3>1. \A d \in Callers : Pending(d) => cop[d] \in Ops
      BY CallerFacts DEF Pending
    <3> QED
      BY <1>0, <1>2, <1>3, <1>4, <3>1 DEF OpsInv
  <2>3. /\ \A d \in Callers, i \in Entries : Pending(d)' => cop'[d] \notin ToSet(arrival'[i])
        /\ \A d \in Callers, w \in Workers : Pending(d)' => wop'[w] # cop'[d]
    BY <1>0, <1>2, <1>3, <1>4 DEF OpsInv
  <2>4. \A i \in Entries : \A x \in ToSet(arrival'[i]) :
          status'[x] = "issued" /\ aio_req'[x] = i /\ \A w \in Workers : wop'[w] # x
    <3>1. ASSUME NEW i \in Entries PROVE ToSet(arrival[i]) \subseteq Ops
      <4>1. arrival[i] \in Seq(Ops)
        BY <1>0, ListTypes
      <4> QED
        BY <4>1, ToSetType
    <3> QED
      BY <1>0, <1>2, <1>4, <3>1 DEF OpsInv
  <2>5. /\ \A w \in Workers : wop'[w] # NULL => status'[wop'[w]] = "issued"
        /\ \A v, w \in Workers : wop'[v] # NULL /\ wop'[v] = wop'[w] => v = w
        /\ \A w \in Workers : wpc'[w] \in {"io", "call"} <=> wop'[w] # NULL
    BY <1>0, <1>1, <1>2, <1>4 DEF OpsInv
  <2>6. \A d \in Callers : cpc'[d] = "signal" => cop'[d] \in ToSet(arrival'[aio_req'[cop'[d]]])
    BY <1>0, <1>2, <1>3 DEF OpsInv, Entry
  <2> QED
    BY <2>1, <2>2, <2>3, <2>4, <2>5, <2>6 DEF OpsInv, Entry
<1>6. MutexInv'
  BY <1>0, <1>2, <1>3, MutexFrame
<1>7. NoneLeftWaiting'
  BY <1>0, <1>2, <1>3, AwakeFrame
<1> QED
  BY <1>0, <1>2, <1>5, <1>6, <1>7, QueuesFrame

\* A caller tries the mutex: nobody had it if it gets it.
LEMMA TryPlaces ==
  ASSUME Inv, NEW c \in Callers, TryLock(c)
  PROVE  OpsInv' /\ MutexInv' /\ QueuesInv' /\ NoneLeftWaiting'
<1> USE DEF lists, ops, worker, CGoto
<1>0. TypeOK /\ OpsInv /\ MutexInv /\ QueuesInv /\ NoneLeftWaiting /\ cpc[c] = "try"
  BY DEF Inv, TryLock
<1>1. /\ cpc \in [Callers -> CallerPlaces] /\ Entry(c) \in Entries
      /\ aio_mutex \in [Entries -> Callers \cup Workers \cup {NULL}]
  BY <1>0, ListTypes, CallerFacts
<1>2. /\ UNCHANGED <<lists, aio_req, status, cop, wpc, wop>>
      /\ cpc'[c] \in {"push", "fill"} /\ \A d \in Callers : d # c => cpc'[d] = cpc[d]
      /\ cpc'[c] = "fill" => aio_mutex[Entry(c)] = NULL /\ aio_mutex' = [aio_mutex EXCEPT ![Entry(c)] = c]
      /\ cpc'[c] = "push" => aio_mutex' = aio_mutex
  BY <1>0, <1>1 DEF TryLock
<1>3. OpsInv'
  <2>1. \A d \in Callers : (Pending(d)' <=> Pending(d)) /\ (Pending(d) => cop'[d] = cop[d])
    BY <1>0, <1>2 DEF Pending
  <2> QED
    BY <1>0, <1>2, <2>1, OpsFrame
<1>4. MutexInv'
  <2>1. CASE cpc'[c] = "push"
    BY <1>0, <1>2, <2>1, MutexFrame
  <2>2. CASE cpc'[c] = "fill"
    <3>0. NULL \notin Callers /\ NULL \notin Workers
      BY ConstantsOK
    <3>1. aio_mutex'[Entry(c)] = c /\ \A i \in Entries : i # Entry(c) => aio_mutex'[i] = aio_mutex[i]
      BY <1>1, <1>2, <2>2
    <3>2. \A d \in Callers : cpc'[d] \in {"fill", "signal"} => aio_mutex'[aio_req[cop[d]]] = d
      <4>1. \A d \in Callers : cpc[d] \in {"fill", "signal"} =>
               Entry(d) \in Entries /\ Entry(d) # Entry(c)
        BY <1>0, <1>2, <2>2, <3>0, CallerFacts DEF MutexInv
      <4> QED
        BY <1>0, <1>2, <3>1, <4>1 DEF MutexInv, Entry
    <3>3. \A w \in Workers : wpc[w] \in {"check", "empty"} => aio_mutex'[w[1]] = w
      BY <1>0, <1>2, <2>2, <3>0, <3>1, EntryNumbers DEF MutexInv
    <3> QED
      BY <1>0, <1>2, <3>2, <3>3 DEF MutexInv, Entry
  <2> QED
    BY <1>2, <2>1, <2>2
<1>5. NoneLeftWaiting'
  BY <1>0, <1>2, AwakeFrame
<1> QED
  BY <1>0, <1>2, <1>3, <1>4, <1>5, QueuesFrame

\* A caller queues its request, on the atomic list or in the queues.
LEMMA QueuedPlaces ==
  ASSUME Inv, NEW c \in Callers, PushTemp(c) \/ Fill(c)
  PROVE  OpsInv' /\ QueuesInv'
<1> USE DEF ops, worker, CGoto, CallerDone
<1> DEFINE i == Entry(c)
           o == cop[c]
<1>0. TypeOK /\ OpsInv /\ QueuesInv
  BY DEF Inv
<1>1. /\ cpc \in [Callers -> CallerPlaces] /\ cop \in [Callers -> Ops \cup {NULL}]
      /\ cpc[c] \in {"push", "fill"} /\ o \in Ops /\ i \in Entries /\ o # NULL
  <2>1. cpc[c] \in {"push", "fill"}
    BY DEF PushTemp, Fill
  <2>2. o \in Ops /\ i \in Entries
    BY <2>1, CallerFacts
  <2>3. o # NULL
    BY <2>2, ConstantsOK
  <2> QED
    BY <1>0, <2>1, <2>2, <2>3, ListTypes
<1>2. /\ Pending(c) /\ status[o] = "issued" /\ \A j \in Entries : o \notin ToSet(arrival[j])
      /\ \A w \in Workers : wop[w] # o
      /\ \A d \in Callers : d # c /\ Pending(d) => cop[d] # o
  BY <1>0, <1>1 DEF OpsInv, Pending
<1>3. /\ UNCHANGED <<aio_req, status, wpc, wop>>
      /\ cpc'[c] = "idle" \/ (cpc'[c] = "signal" /\ cop'[c] = o)
      /\ \A d \in Callers : d # c => cpc'[d] = cpc[d] /\ cop'[d] = cop[d]
  BY <1>1 DEF PushTemp, Fill
<1>4. /\ OthersKept(i) /\ EntryOK(QueuesNext(i), aio_temp_list'[i], arrival'[i])
      /\ ToSet(arrival'[i]) = ToSet(arrival[i]) \cup {o}
  <2>1. CASE PushTemp(c)
    BY <1>0, <1>1, <1>2, <2>1, PushEffect
  <2>2. CASE Fill(c)
    BY <1>0, <1>1, <1>2, <2>2, FillEffect
  <2> QED
    BY <2>1, <2>2
<1>5. aio_req[o] = i
  BY DEF Entry
<1> HIDE DEF i, o
<1>6. \A j \in Entries : j # i => ToSet(arrival'[j]) = ToSet(arrival[j])
  BY <1>4 DEF OthersKept
<1>7. ~Pending(c)' /\ \A d \in Callers : d # c => (Pending(d)' <=> Pending(d))
  BY <1>3 DEF Pending
<1>8. OpsInv'
  <2>1. /\ \A d, e \in Callers : Pending(d)' /\ Pending(e)' /\ cop'[d] = cop'[e] => d = e
        /\ \A d \in Callers : Pending(d)' => status'[cop'[d]] = "issued"
        /\ \A d \in Callers, w \in Workers : Pending(d)' => wop'[w] # cop'[d]
    BY <1>0, <1>3, <1>7 DEF OpsInv
  <2>2. \A d \in Callers, j \in Entries : Pending(d)' => cop'[d] \notin ToSet(arrival'[j])
    BY <1>0, <1>2, <1>3, <1>4, <1>6, <1>7 DEF OpsInv
  <2>3. \A j \in Entries : \A x \in ToSet(arrival'[j]) :
          status'[x] = "issued" /\ aio_req'[x] = j /\ \A w \in Workers : wop'[w] # x
    <3>1. \A j \in Entries : \A x \in ToSet(arrival'[j]) : x \in ToSet(arrival[j]) \/ (j = i /\ x = o)
      BY <1>4, <1>6
    <3> QED
      BY <1>0, <1>2, <1>3, <1>5, <3>1 DEF OpsInv
  <2>4. /\ \A w \in Workers : wop'[w] # NULL => status'[wop'[w]] = "issued"
        /\ \A v, w \in Workers : wop'[v] # NULL /\ wop'[v] = wop'[w] => v = w
        /\ \A w \in Workers : wpc'[w] \in {"io", "call"} <=> wop'[w] # NULL
    BY <1>0, <1>3 DEF OpsInv
  <2>5. ASSUME NEW d \in Callers, cpc'[d] = "signal" PROVE cop'[d] \in ToSet(arrival'[aio_req'[cop'[d]]])
    <3>1. CASE d = c
      BY <1>3, <1>4, <1>5, <2>5, <3>1
    <3>2. CASE d # c
      <4>1. cpc[d] = "signal" /\ cop'[d] = cop[d]
        BY <1>3, <2>5, <3>2
      <4>2. Entry(d) \in Entries /\ cop[d] \in ToSet(arrival[Entry(d)])
        BY <1>0, <4>1, CallerFacts DEF OpsInv
      <4>3. ToSet(arrival[Entry(d)]) \subseteq ToSet(arrival'[Entry(d)])
        BY <1>4, <1>6, <4>2
      <4> QED
        BY <1>3, <4>1, <4>2, <4>3 DEF Entry
    <3> QED
      BY <3>1, <3>2
  <2> QED
    BY <2>1, <2>2, <2>3, <2>4, <2>5 DEF OpsInv, Entry
<1>9. QueuesInv'
  <2> SUFFICES ASSUME NEW j \in Entries PROVE EntryOK(QueuesNext(j), aio_temp_list'[j], arrival'[j])
    BY DEF QueuesInv, QueuesOf, QueuesNext
  <2>1. CASE j = i
    BY <1>4, <2>1
  <2>2. CASE j # i
    BY <1>0, <1>4, <2>2 DEF QueuesInv, QueuesOf, QueuesNext, OthersKept
  <2> QED
    BY <2>1, <2>2
<1> QED
  BY <1>8, <1>9

\* The queues stay the same as a request is left on the atomic list, ...
LEMMA PushLocks ==
  ASSUME Inv, NEW c \in Callers, PushTemp(c)
  PROVE  MutexInv' /\ NoneLeftWaiting'
<1>0. TypeOK /\ MutexInv /\ NoneLeftWaiting
  BY DEF Inv
<1>1. cpc \in [Callers -> CallerPlaces] /\ cop \in [Callers -> Ops \cup {NULL}]
  BY <1>0, ListTypes
<1>2. /\ UNCHANGED <<aio_mutex, aio_todo, http_aio_todo, aio_req, wpc>> /\ cpc[c] = "push" /\ cpc'[c] = "idle"
      /\ \A d \in Callers : d # c => cpc'[d] = cpc[d] /\ cop'[d] = cop[d]
  BY <1>1 DEF PushTemp, CallerDone, CGoto, ops, worker
<1> QED
  BY <1>0, <1>2, MutexFrame, AwakeFrame

\* ... and a caller that fills them has the mutex and is about to signal.
LEMMA FillLocks ==
  ASSUME Inv, NEW c \in Callers, Fill(c)
  PROVE  MutexInv' /\ NoneLeftWaiting'
<1> DEFINE i == Entry(c)
<1>0. TypeOK /\ OpsInv /\ QueuesInv /\ MutexInv /\ NoneLeftWaiting /\ cpc[c] = "fill"
  BY DEF Inv, Fill
<1>1. /\ cpc \in [Callers -> CallerPlaces] /\ cop[c] \in Ops /\ i \in Entries
      /\ cop[c] \notin ToSet(arrival[i]) /\ aio_mutex[i] = c
  BY <1>0, ListTypes, CallerFacts DEF OpsInv, Pending, MutexInv
<1>2. /\ UNCHANGED <<aio_mutex, aio_req, cop, wpc>> /\ cpc'[c] = "signal"
      /\ \A d \in Callers : d # c => cpc'[d] = cpc[d]
  BY <1>1 DEF Fill, CGoto, ops, worker
<1>3. OthersKept(i)
  BY <1>0, <1>1, FillEffect
<1>4. aio_req'[cop'[c]] = i
  BY <1>2 DEF Entry
<1>5. c \notin Workers
  BY ConstantsOK
<1> HIDE DEF i
<1>6. MutexInv'
  <2>1. \A d \in Callers : cpc'[d] \in {"fill", "signal"} => aio_mutex'[aio_req'[cop'[d]]] = d
    BY <1>0, <1>1, <1>2, <1>4 DEF MutexInv, Entry
  <2>2. \A w \in Workers : wpc'[w] \in {"check", "empty"} => aio_mutex'[w[1]] = w /\ w[1] # i
    BY <1>0, <1>1, <1>2, <1>5 DEF MutexInv
  <2>3. \A w \in Workers : wpc'[w] = "empty" => aio_todo'[w[1]] = <<>> /\ http_aio_todo'[w[1]] = <<>>
    BY <1>0, <1>2, <1>3, <2>2, EntryNumbers DEF MutexInv, OthersKept
  <2> QED
    BY <2>1, <2>2, <2>3 DEF MutexInv, Entry
<1>7. NoneLeftWaiting'
  <2> SUFFICES ASSUME NEW j \in Entries, aio_todo'[j] \o http_aio_todo'[j] # <<>>
               PROVE  \/ \E w \in Workers : w[1] = j /\ wpc'[w] \notin {"off", "wait"}
                      \/ \E d \in Callers : cpc'[d] = "signal" /\ aio_req'[cop'[d]] = j
    BY DEF NoneLeftWaiting, Entry
  <2>1. CASE j = i
    BY <1>2, <1>4, <2>1
  <2>2. CASE j # i
    <3>1. aio_todo[j] \o http_aio_todo[j] # <<>>
      BY <1>3, <2>2 DEF OthersKept
    <3> QED
      BY <1>0, <1>2, <3>1 DEF NoneLeftWaiting, Entry
  <2> QED
    BY <2>1, <2>2
<1> QED
  BY <1>6, <1>7

\* A caller signals and releases the mutex.  If nobody waits, the threads of the
\* entry are awake.
LEMMA SignalPlaces ==
  ASSUME Inv, NEW c \in Callers, Signal(c)
  PROVE  OpsInv' /\ MutexInv' /\ QueuesInv' /\ NoneLeftWaiting'
<1> USE DEF lists, ops, CGoto, CallerDone
<1> DEFINE i == Entry(c)
<1>0. TypeOK /\ TableInv /\ OpsInv /\ QueuesInv /\ MutexInv /\ NoneLeftWaiting /\ cpc[c] = "signal"
  BY DEF Inv, Signal
<1>1. /\ cpc \in [Callers -> CallerPlaces] /\ cop \in [Callers -> Ops \cup {NULL}]
      /\ wpc \in [Workers -> WorkerPlaces] /\ aio_mutex \in [Entries -> Callers \cup Workers \cup {NULL}]
  BY <1>0, ListTypes
<1>2. i \in Entries /\ <<i, 1>> \in Workers /\ aio_reqs[i] # NULL /\ aio_mutex[i] = c
  BY <1>0, CallerFacts DEF MutexInv
<1>3. /\ UNCHANGED <<lists, aio_req, status, wop>> /\ cpc'[c] = "idle"
      /\ \A d \in Callers : d # c => cpc'[d] = cpc[d] /\ cop'[d] = cop[d]
      /\ aio_mutex'[i] = NULL /\ \A j \in Entries : j # i => aio_mutex'[j] = aio_mutex[j]
  BY <1>1, <1>2 DEF Signal
<1>4. /\ \A w \in Workers : wpc'[w] = wpc[w] \/ (wpc[w] = "wait" /\ wpc'[w] = "relock")
      /\ Wakeable(i) # {} => \E w \in Workers : w[1] = i /\ wpc'[w] = "relock"
  <2>1. CASE Wakeable(i) = {}
    BY <2>1 DEF Signal
  <2>2. CASE Wakeable(i) # {}
    <3>1. PICK w \in Wakeable(i) : wpc' = [wpc EXCEPT ![w] = "relock"]
      BY <2>2 DEF Signal, WGoto
    <3>2. w \in Workers /\ w[1] = i /\ wpc[w] = "wait"
      BY DEF Wakeable
    <3> QED
      BY <1>1, <3>1, <3>2
  <2> QED
    BY <2>1, <2>2
<1>5. c \notin Workers
  BY ConstantsOK
<1>6. OpsInv'
  <2>1. \A d \in Callers : (Pending(d)' <=> Pending(d)) /\ (Pending(d) => cop'[d] = cop[d])
    BY <1>0, <1>3 DEF Pending
  <2>2. \A d \in Callers : cpc'[d] = "signal" =>
           cpc[d] = "signal" /\ cop'[d] = cop[d] /\ aio_req'[cop[d]] = aio_req[cop[d]]
    BY <1>3
  <2>3. \A w \in Workers : wpc'[w] \in {"io", "call"} <=> wpc[w] \in {"io", "call"}
    BY <1>4
  <2> QED
    BY <1>0, <1>3, <2>1, <2>2, <2>3, OpsFrame
<1>7. MutexInv'
  <2>1. ASSUME NEW d \in Callers, cpc'[d] \in {"fill", "signal"}
        PROVE  aio_mutex'[aio_req'[cop'[d]]] = d
    <3>1. d # c /\ cpc[d] \in {"fill", "signal"} /\ cop'[d] = cop[d]
      BY <1>3, <2>1
    <3>2. Entry(d) \in Entries /\ aio_mutex[Entry(d)] = d
      BY <1>0, <3>1, CallerFacts DEF MutexInv
    <3>3. Entry(d) # i
      BY <1>2, <3>1, <3>2
    <3>4. aio_mutex'[Entry(d)] = d
      BY <1>3, <3>2, <3>3
    <3> QED
      BY <1>3, <3>1, <3>4 DEF Entry
  <2>2. \A w \in Workers : wpc'[w] \in {"check", "empty"} => wpc'[w] = wpc[w] /\ w[1] # i
    BY <1>0, <1>2, <1>4, <1>5 DEF MutexInv
  <2>3. \A w \in Workers : wpc'[w] \in {"check", "empty"} => aio_mutex'[w[1]] = w
    BY <1>0, <1>3, <2>2, EntryNumbers DEF MutexInv
  <2>4. \A w \in Workers : wpc'[w] = "empty" => aio_todo'[w[1]] = <<>> /\ http_aio_todo'[w[1]] = <<>>
    BY <1>0, <1>3, <2>2 DEF MutexInv
  <2> QED
    BY <2>1, <2>3, <2>4 DEF MutexInv, Entry
<1>8. \E w \in Workers : w[1] = i /\ wpc'[w] \notin {"off", "wait"}
  <2>1. CASE Wakeable(i) # {}
    BY <1>4, <2>1
  <2>2. CASE Wakeable(i) = {}
    <3> DEFINE w == <<i, 1>>
    <3>1. w \in Workers /\ w[1] = i
      BY <1>2
    <3> HIDE DEF w
    <3>2. wpc[w] # "off"
      BY <1>0, <1>2, <3>1 DEF TableInv
    <3>3. wpc[w] # "wait"
      BY <2>2, <3>1 DEF Wakeable
    <3> QED
      BY <1>4, <3>1, <3>2, <3>3
  <2> QED
    BY <2>1, <2>2
<1> HIDE DEF i
<1>9. NoneLeftWaiting'
  <2> SUFFICES ASSUME NEW j \in Entries, aio_todo[j] \o http_aio_todo[j] # <<>>
               PROVE  \/ \E w \in Workers : w[1] = j /\ wpc'[w] \notin {"off", "wait"}
                      \/ \E d \in Callers : cpc'[d] = "signal" /\ aio_req'[cop'[d]] = j
    BY <1>3 DEF NoneLeftWaiting, Entry
  <2>1. CASE j = i
    BY <1>8, <2>1
  <2>2. CASE j # i
    <3>1. \/ \E w \in Workers : w[1] = j /\ wpc[w] \notin {"off", "wait"}
          \/ \E d \in Callers : cpc[d] = "signal" /\ Entry(d) = j
      BY <1>0 DEF NoneLeftWaiting
    <3>2. CASE \E w \in Workers : w[1] = j /\ wpc[w] \notin {"off", "wait"}
      BY <1>4, <3>2
    <3>3. CASE \E d \in Callers : cpc[d] = "signal" /\ Entry(d) = j
      <4>1. PICK d \in Callers : cpc[d] = "signal" /\ Entry(d) = j
        BY <3>3
      <4>2. d # c
        BY <2>2, <4>1 DEF i
      <4> QED
        BY <1>3, <4>1, <4>2 DEF Entry
    <3> QED
      BY <3>1, <3>2, <3>3
  <2> QED
    BY <2>1, <2>2
<1> QED
  BY <1>0, <1>3, <1>6, <1>7, <1>9, QueuesFrame

\* A thread takes the mutex, works on its request or goes to sleep.
LEMMA QuietWorker ==
  ASSUME Inv, NEW w \in Workers, Relock(w) \/ CacheOp(w) \/ Wait(w) \/ Timeout(w)
  PROVE  OpsInv' /\ MutexInv' /\ QueuesInv' /\ NoneLeftWaiting'
<1> USE DEF lists, ops, caller, WGoto
<1> DEFINE i == w[1]
<1>0. TypeOK /\ OpsInv /\ QueuesInv /\ MutexInv /\ NoneLeftWaiting
  BY DEF Inv
<1>1. /\ wpc \in [Workers -> WorkerPlaces] /\ aio_mutex \in [Entries -> Callers \cup Workers \cup {NULL}]
      /\ i \in Entries /\ NULL \notin Callers /\ NULL \notin Workers /\ w \notin Callers
  BY <1>0, ListTypes, EntryNumbers, ConstantsOK
<1>2. /\ UNCHANGED <<aio_temp_list, aio_todo, http_aio_todo, arrival>>
      /\ UNCHANGED <<aio_req, status, cpc, cop, wop>> /\ \A v \in Workers : v # w => wpc'[v] = wpc[v]
  BY <1>1 DEF Relock, CacheOp, Wait, Timeout
<1>3. \/ wpc[w] = "relock" /\ wpc'[w] = "check" /\ aio_mutex[i] = NULL /\ aio_mutex' = [aio_mutex EXCEPT ![i] = w]
      \/ wpc[w] = "io" /\ wpc'[w] = "call" /\ aio_mutex' = aio_mutex
      \/ wpc[w] = "empty" /\ wpc'[w] = "wait" /\ aio_mutex' = [aio_mutex EXCEPT ![i] = NULL]
      \/ wpc[w] = "wait" /\ wpc'[w] = "relock" /\ aio_mutex' = aio_mutex
  BY <1>1 DEF Relock, CacheOp, Wait, Timeout
<1>4. \A d \in Callers : cpc[d] \in {"fill", "signal"} => Entry(d) \in Entries /\ aio_mutex[Entry(d)] = d
  BY <1>0, CallerFacts DEF MutexInv
<1>5. \A v \in Workers : wpc[v] \in {"check", "empty"} => v[1] \in Entries /\ aio_mutex[v[1]] = v
  BY <1>0, EntryNumbers DEF MutexInv
<1> HIDE DEF i
<1>6. OpsInv'
  <2>1. \A d \in Callers : (Pending(d)' <=> Pending(d))
    BY <1>2 DEF Pending
  <2>2. \A v \in Workers : wpc'[v] \in {"io", "call"} <=> wpc[v] \in {"io", "call"}
    BY <1>2, <1>3
  <2> QED
    BY <1>0, <1>2, <2>1, <2>2, OpsFrame
<1>7. MutexInv'
  <2>1. CASE aio_mutex' = aio_mutex /\ wpc'[w] \notin {"check", "empty"}
    BY <1>0, <1>2, <2>1, MutexFrame
  <2>2. CASE wpc[w] = "relock" /\ wpc'[w] = "check" /\ aio_mutex[i] = NULL /\ aio_mutex' = [aio_mutex EXCEPT ![i] = w]
    <3>1. aio_mutex'[i] = w /\ \A j \in Entries : j # i => aio_mutex'[j] = aio_mutex[j]
      BY <1>1, <2>2
    <3>2. \A d \in Callers : cpc'[d] \in {"fill", "signal"} => aio_mutex'[Entry(d)] = d
      BY <1>1, <1>2, <1>4, <2>2, <3>1
    <3>3. \A v \in Workers : wpc'[v] \in {"check", "empty"} => aio_mutex'[v[1]] = v
      BY <1>1, <1>2, <1>5, <2>2, <3>1 DEF i
    <3>4. \A v \in Workers : wpc'[v] = "empty" => aio_todo[v[1]] = <<>> /\ http_aio_todo[v[1]] = <<>>
      BY <1>0, <1>2, <2>2 DEF MutexInv
    <3> QED
      BY <1>2, <3>2, <3>3, <3>4 DEF MutexInv, Entry
  <2>3. CASE wpc[w] = "empty" /\ wpc'[w] = "wait" /\ aio_mutex' = [aio_mutex EXCEPT ![i] = NULL]
    <3>0. aio_mutex[i] = w
      BY <1>5, <2>3 DEF i
    <3>1. \A j \in Entries : j # i => aio_mutex'[j] = aio_mutex[j]
      BY <1>1, <2>3
    <3>2. \A d \in Callers : cpc'[d] \in {"fill", "signal"} => aio_mutex'[Entry(d)] = d
      BY <1>1, <1>2, <1>4, <3>0, <3>1
    <3>3. \A v \in Workers : wpc'[v] \in {"check", "empty"} => aio_mutex'[v[1]] = v
      BY <1>1, <1>2, <1>5, <2>3, <3>0, <3>1
    <3>4. \A v \in Workers : wpc'[v] = "empty" => aio_todo[v[1]] = <<>> /\ http_aio_todo[v[1]] = <<>>
      BY <1>0, <1>2, <2>3 DEF MutexInv
    <3> QED
      BY <1>2, <3>2, <3>3, <3>4 DEF MutexInv, Entry
  <2> QED
    BY <1>3, <2>1, <2>2, <2>3
<1>8. NoneLeftWaiting'
  <2>1. CASE wpc'[w] # "wait"
    <3>1. \A v \in Workers : wpc[v] \notin {"off", "wait"} => wpc'[v] \notin {"off", "wait"}
      BY <1>2, <1>3, <2>1
    <3> QED
      BY <1>0, <1>2, <3>1, AwakeFrame
  <2>2. CASE wpc'[w] = "wait"
    <3>1. aio_todo[i] = <<>> /\ http_aio_todo[i] = <<>>
      BY <1>0, <1>3, <2>2 DEF MutexInv, i
    <3>2. aio_todo[i] \o http_aio_todo[i] = <<>>
      BY <3>1
    <3> SUFFICES ASSUME NEW j \in Entries, aio_todo[j] \o http_aio_todo[j] # <<>>
                 PROVE  \/ \E v \in Workers : v[1] = j /\ wpc'[v] \notin {"off", "wait"}
                        \/ \E d \in Callers : cpc[d] = "signal" /\ aio_req[cop[d]] = j
      BY <1>2 DEF NoneLeftWaiting, Entry
    <3>3. j # i
      BY <3>2
    <3>4. \A v \in Workers : v[1] = j => wpc'[v] = wpc[v]
      BY <1>2, <3>3 DEF i
    <3> QED
      BY <1>0, <3>4 DEF NoneLeftWaiting, Entry
  <2> QED
    BY <2>1, <2>2
<1> QED
  BY <1>0, <1>2, <1>6, <1>7, <1>8, QueuesFrame

\* A thread looks for a request.
LEMMA CheckPlaces ==
  ASSUME Inv, NEW w \in Workers, Check(w)
  PROVE  OpsInv' /\ MutexInv' /\ QueuesInv' /\ NoneLeftWaiting'
<1> USE DEF ops, caller, WGoto
<1> DEFINE i == w[1]
<1>0. TypeOK /\ OpsInv /\ QueuesInv /\ MutexInv /\ NoneLeftWaiting /\ wpc[w] = "check"
  BY DEF Inv, Check
<1>1. /\ wpc \in [Workers -> WorkerPlaces] /\ aio_mutex \in [Entries -> Callers \cup Workers \cup {NULL}]
      /\ wop \in [Workers -> Ops \cup {NULL}]
      /\ i \in Entries /\ NULL \notin Callers /\ NULL \notin Workers /\ w \notin Callers /\ NULL \notin Ops
  BY <1>0, ListTypes, EntryNumbers, ConstantsOK
<1>2. UNCHANGED <<aio_req, status, cpc, cop>>
  BY DEF Check
<1>3. \A d \in Callers : cpc[d] \in {"fill", "signal"} => Entry(d) \in Entries /\ aio_mutex[Entry(d)] = d
  BY <1>0, CallerFacts DEF MutexInv
<1>4. \A v \in Workers : wpc[v] \in {"check", "empty"} => v[1] \in Entries /\ aio_mutex[v[1]] = v
  BY <1>0, EntryNumbers DEF MutexInv
<1>5. \A d \in Callers : (Pending(d)' <=> Pending(d))
  BY <1>2 DEF Pending
<1>6. CASE aio_move(i).todo = <<>> /\ aio_move(i).http = <<>>
  <2>1. /\ UNCHANGED <<lists, aio_mutex, wop>> /\ wpc'[w] = "empty" /\ \A v \in Workers : v # w => wpc'[v] = wpc[v]
        /\ aio_todo[i] = <<>> /\ http_aio_todo[i] = <<>>
    BY <1>0, <1>1, <1>6, CheckNothing
  <2>2. UNCHANGED <<aio_todo, http_aio_todo, arrival>>
    BY <2>1 DEF lists
  <2>3. OpsInv'
    <3>1. \A v \in Workers : wpc'[v] \in {"io", "call"} <=> wpc[v] \in {"io", "call"}
      BY <1>0, <2>1
    <3> QED
      BY <1>0, <1>2, <1>5, <2>1, <2>2, <3>1, OpsFrame
  <2>4. MutexInv'
    <3>1. \A v \in Workers : wpc'[v] \in {"check", "empty"} => aio_mutex[v[1]] = v
      BY <1>0, <1>4, <2>1
    <3>2. \A v \in Workers : wpc'[v] = "empty" => aio_todo[v[1]] = <<>> /\ http_aio_todo[v[1]] = <<>>
      BY <1>0, <2>1 DEF MutexInv
    <3> QED
      BY <1>0, <1>2, <2>1, <2>2, <3>1, <3>2 DEF MutexInv, Entry
  <2>5. NoneLeftWaiting'
    <3>1. \A v \in Workers : wpc[v] \notin {"off", "wait"} => wpc'[v] \notin {"off", "wait"}
      BY <2>1
    <3> QED
      BY <1>0, <1>2, <2>2, <3>1, AwakeFrame
  <2> QED
    BY <1>0, <2>1, <2>3, <2>4, <2>5, QueuesFrame
<1>7. CASE ~(aio_move(i).todo = <<>> /\ aio_move(i).http = <<>>)
  <2>1. /\ OthersKept(i) /\ EntryOK(QueuesNext(i), aio_temp_list'[i], arrival'[i])
        /\ aio_mutex' = [aio_mutex EXCEPT ![i] = NULL] /\ wpc' = [wpc EXCEPT ![w] = "io"]
        /\ \E o \in ToSet(arrival[i]) :
             /\ o \in Ops /\ wop' = [wop EXCEPT ![w] = o]
             /\ ToSet(arrival'[i]) = ToSet(arrival[i]) \ {o}
    BY <1>0, <1>7, CheckTakes
  <2>2. PICK o \in ToSet(arrival[i]) :
             /\ o \in Ops /\ wop' = [wop EXCEPT ![w] = o]
             /\ ToSet(arrival'[i]) = ToSet(arrival[i]) \ {o}
    BY <2>1
  <2>3. /\ wpc'[w] = "io" /\ \A v \in Workers : v # w => wpc'[v] = wpc[v]
        /\ wop'[w] = o /\ \A v \in Workers : v # w => wop'[v] = wop[v]
        /\ \A j \in Entries : j # i => aio_mutex'[j] = aio_mutex[j]
        /\ aio_mutex[i] = w
    BY <1>0, <1>1, <1>4, <2>1, <2>2
  <2>4. /\ status[o] = "issued" /\ aio_req[o] = i /\ o # NULL /\ \A v \in Workers : wop[v] # o
        /\ \A d \in Callers : Pending(d) => cop[d] # o
    BY <1>0, <1>1, <2>2 DEF OpsInv
  <2>5. \A j \in Entries : /\ j # i => ToSet(arrival'[j]) = ToSet(arrival[j])
                           /\ ToSet(arrival'[j]) \subseteq ToSet(arrival[j]) /\ o \notin ToSet(arrival'[j])
    <3>1. \A j \in Entries : j # i => ToSet(arrival'[j]) = ToSet(arrival[j])
      BY <2>1 DEF OthersKept
    <3>2. \A j \in Entries : j # i => o \notin ToSet(arrival[j])
      BY <1>0, <2>4 DEF OpsInv
    <3> QED
      BY <2>2, <3>1, <3>2
  <2>6. \A d \in Callers : cpc[d] \in {"fill", "signal"} => Entry(d) # i
    BY <1>1, <1>3, <2>3
  <2>7. \A v \in Workers : v # w /\ wpc[v] \in {"check", "empty"} => v[1] # i
    BY <1>4, <2>3
  <2> HIDE DEF i
  <2>8. OpsInv'
    <3>1. /\ \A d, e \in Callers : Pending(d)' /\ Pending(e)' /\ cop'[d] = cop'[e] => d = e
          /\ \A d \in Callers : Pending(d)' => status'[cop'[d]] = "issued"
          /\ \A d \in Callers, v \in Workers : Pending(d)' => wop'[v] # cop'[d]
      BY <1>0, <1>2, <1>5, <2>3, <2>4 DEF OpsInv
    <3>2. \A d \in Callers, j \in Entries : Pending(d)' => cop'[d] \notin ToSet(arrival'[j])
      BY <1>0, <1>2, <1>5, <2>5 DEF OpsInv
    <3>3. \A j \in Entries : \A x \in ToSet(arrival'[j]) :
            status'[x] = "issued" /\ aio_req'[x] = j /\ \A v \in Workers : wop'[v] # x
      BY <1>0, <1>2, <2>3, <2>5 DEF OpsInv
    <3>4. /\ \A v \in Workers : wop'[v] # NULL => status'[wop'[v]] = "issued"
          /\ \A v, u \in Workers : wop'[v] # NULL /\ wop'[v] = wop'[u] => v = u
          /\ \A v \in Workers : wpc'[v] \in {"io", "call"} <=> wop'[v] # NULL
      BY <1>0, <1>2, <2>3, <2>4 DEF OpsInv
    <3>5. \A d \in Callers : cpc'[d] = "signal" => cop'[d] \in ToSet(arrival'[aio_req'[cop'[d]]])
      BY <1>0, <1>2, <1>3, <2>5, <2>6 DEF OpsInv, Entry
    <3> QED
      BY <3>1, <3>2, <3>3, <3>4, <3>5 DEF OpsInv, Entry
  <2>9. MutexInv'
    <3>1. \A d \in Callers : cpc'[d] \in {"fill", "signal"} => aio_mutex'[aio_req'[cop'[d]]] = d
      BY <1>2, <1>3, <2>3, <2>6 DEF Entry
    <3>2. \A v \in Workers : wpc'[v] \in {"check", "empty"} => aio_mutex'[v[1]] = v
      BY <1>4, <2>3, <2>7
    <3>3. \A v \in Workers : wpc'[v] = "empty" => aio_todo'[v[1]] = <<>> /\ http_aio_todo'[v[1]] = <<>>
      BY <1>0, <1>4, <2>1, <2>3, <2>7 DEF MutexInv, OthersKept
    <3> QED
      BY <3>1, <3>2, <3>3 DEF MutexInv, Entry
  <2>10. QueuesInv'
    <3> SUFFICES ASSUME NEW j \in Entries PROVE EntryOK(QueuesNext(j), aio_temp_list'[j], arrival'[j])
      BY DEF QueuesInv, QueuesOf, QueuesNext
    <3>1. CASE j = i
      BY <2>1, <3>1
    <3>2. CASE j # i
      BY <1>0, <2>1, <3>2 DEF QueuesInv, QueuesOf, QueuesNext, OthersKept
    <3> QED
      BY <3>1, <3>2
  <2>11. NoneLeftWaiting'
    <3> SUFFICES ASSUME NEW j \in Entries, aio_todo'[j] \o http_aio_todo'[j] # <<>>
                 PROVE  \/ \E v \in Workers : v[1] = j /\ wpc'[v] \notin {"off", "wait"}
                        \/ \E d \in Callers : cpc'[d] = "signal" /\ aio_req'[cop'[d]] = j
      BY DEF NoneLeftWaiting, Entry
    <3>1. CASE j = i
      BY <2>3, <3>1 DEF i
    <3>2. CASE j # i
      <4>1. aio_todo[j] \o http_aio_todo[j] # <<>>
        BY <2>1, <3>2 DEF OthersKept
      <4>2. \A v \in Workers : wpc[v] \notin {"off", "wait"} => wpc'[v] \notin {"off", "wait"}
        BY <2>3
      <4> QED
        BY <1>0, <1>2, <4>1, <4>2 DEF NoneLeftWaiting, Entry
    <3> QED
      BY <3>1, <3>2
  <2> QED
    BY <2>8, <2>9, <2>10, <2>11
<1> QED
  BY <1>6, <1>7

\* A thread is done with its request, ...
LEMMA CallBackPlaces ==
  ASSUME Inv, NEW w \in Workers, CallBack(w)
  PROVE  OpsInv' /\ MutexInv' /\ QueuesInv' /\ NoneLeftWaiting'
<1> USE DEF lists, caller, WGoto
<1> DEFINE o == wop[w]
<1>0. TypeOK /\ OpsInv /\ QueuesInv /\ MutexInv /\ NoneLeftWaiting /\ wpc[w] = "call"
  BY DEF Inv, CallBack
<1>1. /\ wpc \in [Workers -> WorkerPlaces] /\ wop \in [Workers -> Ops \cup {NULL}]
      /\ status \in [Ops -> {"idle", "issued", "done"}]
  BY <1>0, ListTypes
<1>2. o # NULL /\ \A v \in Workers : v # w => wop[v] # o
  BY <1>0 DEF OpsInv
<1>3. /\ UNCHANGED <<aio_mutex, aio_temp_list, aio_todo, http_aio_todo, arrival, aio_req, cpc, cop>>
      /\ wpc'[w] = "relock" /\ \A v \in Workers : v # w => wpc'[v] = wpc[v]
      /\ wop'[w] = NULL /\ \A v \in Workers : v # w => wop'[v] = wop[v]
      /\ \A x \in Ops : x # o => status'[x] = status[x]
  <2>1. status' = [status EXCEPT ![o] = "done"]
    BY DEF CallBack
  <2>2. wop' = [wop EXCEPT ![w] = NULL] /\ wpc' = [wpc EXCEPT ![w] = "relock"]
    BY DEF CallBack
  <2>3. UNCHANGED <<aio_mutex, aio_temp_list, aio_todo, http_aio_todo, arrival, aio_req, cpc, cop>>
    BY DEF CallBack
  <2>4. wpc'[w] = "relock" /\ \A v \in Workers : v # w => wpc'[v] = wpc[v]
    BY <1>1, <2>2
  <2>5. wop'[w] = NULL /\ \A v \in Workers : v # w => wop'[v] = wop[v]
    BY <1>1, <2>2
  <2>6. \A x \in Ops : x # o => status'[x] = status[x]
    BY <1>1, <2>1
  <2> QED
    BY <2>3, <2>4, <2>5, <2>6
<1>4. ASSUME NEW d \in Callers, Pending(d) PROVE cop[d] \in Ops /\ cop[d] # o
  <2>1. cpc[d] # "idle"
    BY <1>4 DEF Pending
  <2>2. cop[d] \in Ops
    BY <2>1, CallerFacts
  <2>3. cop[d] # o
    BY <1>0, <1>4 DEF OpsInv
  <2> QED
    BY <2>2, <2>3
<1>5. ASSUME NEW i \in Entries, NEW x \in ToSet(arrival[i]) PROVE x \in Ops /\ x # o
  <2>1. arrival[i] \in Seq(Ops)
    BY <1>0, ListTypes
  <2> QED
    BY <1>0, <2>1, ToSetType DEF OpsInv
<1> HIDE DEF o
<1>6. \A d \in Callers : (Pending(d)' <=> Pending(d))
  BY <1>3 DEF Pending
<1>7. OpsInv'
  <2>1. /\ \A d, e \in Callers : Pending(d)' /\ Pending(e)' /\ cop'[d] = cop'[e] => d = e
        /\ \A d \in Callers, i \in Entries : Pending(d)' => cop'[d] \notin ToSet(arrival'[i])
    BY <1>0, <1>3, <1>6 DEF OpsInv
  <2>2. \A d \in Callers : Pending(d)' => status'[cop'[d]] = "issued"
    BY <1>0, <1>3, <1>4, <1>6 DEF OpsInv
  <2>3. \A d \in Callers, v \in Workers : Pending(d)' => wop'[v] # cop'[d]
    <3>1. NULL \notin Ops
      BY ConstantsOK
    <3> QED
      BY <1>0, <1>3, <1>4, <1>6, <3>1 DEF OpsInv
  <2>4. \A i \in Entries : \A x \in ToSet(arrival'[i]) :
          status'[x] = "issued" /\ aio_req'[x] = i /\ \A v \in Workers : wop'[v] # x
    <3>1. NULL \notin Ops
      BY ConstantsOK
    <3> QED
      BY <1>0, <1>3, <1>5, <3>1 DEF OpsInv
  <2>5. /\ \A v \in Workers : wop'[v] # NULL => status'[wop'[v]] = "issued"
        /\ \A v, u \in Workers : wop'[v] # NULL /\ wop'[v] = wop'[u] => v = u
        /\ \A v \in Workers : wpc'[v] \in {"io", "call"} <=> wop'[v] # NULL
    BY <1>0, <1>1, <1>2, <1>3 DEF OpsInv
  <2>6. \A d \in Callers : cpc'[d] = "signal" => cop'[d] \in ToSet(arrival'[aio_req'[cop'[d]]])
    BY <1>0, <1>3 DEF OpsInv, Entry
  <2> QED
    BY <2>1, <2>2, <2>3, <2>4, <2>5, <2>6 DEF OpsInv, Entry
<1>8. MutexInv'
  BY <1>0, <1>3, MutexFrame
<1>9. NoneLeftWaiting'
  BY <1>0, <1>3, AwakeFrame
<1> QED
  BY <1>0, <1>3, <1>7, <1>8, <1>9, QueuesFrame

\* ... and its owner may use it again.
LEMMA ReusePlaces ==
  ASSUME Inv, NEW o \in Ops, Reuse(o)
  PROVE  Inv'
<1> USE DEF lists, table, caller, worker
<1>0. TypeOK /\ OpsInv /\ QueuesInv /\ MutexInv /\ NoneLeftWaiting
  BY DEF Inv
<1>1. status \in [Ops -> {"idle", "issued", "done"}]
  BY <1>0, ListTypes
<1>2. /\ UNCHANGED <<table, aio_mutex, lists, requests_queued, aio_req, issues, caller, worker>>
      /\ status[o] = "done" /\ status' = [status EXCEPT ![o] = "idle"]
      /\ \A x \in Ops : x # o => status'[x] = status[x]
  BY <1>1 DEF Reuse
<1>3. TypeOK'
  BY <1>0, <1>2, ListTypes, ListTypesNext
<1>4. TableInv' /\ OneEntryPerFd' /\ CallersOK'
  BY <1>2, TableSame
<1>5. OpsInv'
  <2>1. \A d \in Callers : /\ Pending(d)' <=> Pending(d)
                           /\ Pending(d) => cop[d] \in Ops /\ cop[d] # o
    BY <1>0, <1>2, CallerFacts DEF Pending, OpsInv
  <2>2. ASSUME NEW i \in Entries, NEW x \in ToSet(arrival[i]) PROVE x \in Ops /\ x # o
    <3>1. arrival[i] \in Seq(Ops)
      BY <1>0, ListTypes
    <3> QED
      BY <1>0, <1>2, <3>1, ToSetType DEF OpsInv
  <2>3. \A v \in Workers : wop[v] # NULL => wop[v] \in Ops /\ wop[v] # o
    BY <1>0, <1>2, ListTypes DEF OpsInv
  <2>4. /\ \A d, e \in Callers : Pending(d)' /\ Pending(e)' /\ cop'[d] = cop'[e] => d = e
        /\ \A d \in Callers, i \in Entries : Pending(d)' => cop'[d] \notin ToSet(arrival'[i])
        /\ \A d \in Callers, v \in Workers : Pending(d)' => wop'[v] # cop'[d]
    BY <1>0, <1>2, <2>1 DEF OpsInv
  <2>5. \A d \in Callers : Pending(d)' => status'[cop'[d]] = "issued"
    BY <1>0, <1>2, <2>1 DEF OpsInv
  <2>6. \A i \in Entries : \A x \in ToSet(arrival'[i]) :
          status'[x] = "issued" /\ aio_req'[x] = i /\ \A v \in Workers : wop'[v] # x
    BY <1>0, <1>2, <2>2 DEF OpsInv
  <2>7. /\ \A v \in Workers : wop'[v] # NULL => status'[wop'[v]] = "issued"
        /\ \A v, u \in Workers : wop'[v] # NULL /\ wop'[v] = wop'[u] => v = u
        /\ \A v \in Workers : wpc'[v] \in {"io", "call"} <=> wop'[v] # NULL
    BY <1>0, <1>2, <2>3 DEF OpsInv
  <2>8. \A d \in Callers : cpc'[d] = "signal" => cop'[d] \in ToSet(arrival'[aio_req'[cop'[d]]])
    BY <1>0, <1>2 DEF OpsInv, Entry
  <2> QED
    BY <2>4, <2>5, <2>6, <2>7, <2>8 DEF OpsInv, Entry
<1>6. MutexInv' /\ NoneLeftWaiting' /\ QueuesInv'
  BY <1>0, <1>2, MutexFrame, AwakeFrame, QueuesFrame
<1> QED
  BY <1>3, <1>4, <1>5, <1>6 DEF Inv

-----------------------------------------------------------------------------
(* The theorems                                                            *)

\* The entries are empty at first.
LEMMA InitInv == Init => Inv
<1> SUFFICES ASSUME Init PROVE Inv
  OBVIOUS
<1>0. Cardinality(Fds) \in Nat /\ Entries = 0 .. Cardinality(Fds) + 1 /\ 0 \in Entries /\ 1 \in Entries
  BY EntryNumbers
<1>1. TypeOK
  <2>1. 1 \in 1 .. Cardinality(Fds) + 1 /\ 0 \in 0 .. Cardinality(Fds) + 1
    BY <1>0
  <2>2. <<>> \in Seq(Ops) /\ MaxIssues \in [Ops -> Nat]
    BY ConstantsOK
  <2> QED
    BY <2>1, <2>2, ListTypes DEF Init, CallerPlaces, WorkerPlaces
<1>2. TableInv
  <2>1. \A i \in Entries : aio_reqs[i] = NULL
    BY DEF Init
  <2>2. \A w \in Workers : wpc[w] = "off" /\ w[1] \in Entries
    BY EntryNumbers DEF Init
  <2>3. num_filedes = 1
    BY DEF Init
  <2> QED
    BY <1>0, <2>1, <2>2, <2>3 DEF TableInv
<1>3. OneEntryPerFd
  BY DEF OneEntryPerFd, Init
<1>4. CallersOK
  <2>1. NULL \notin Callers
    BY ConstantsOK
  <2> QED
    BY <2>1 DEF CallersOK, CallerInv, Inserting, Init
<1>5. OpsInv
  <2>1. \A i \in Entries : ToSet(arrival[i]) = {}
    BY ToSetEmpty DEF Init
  <2>2. \A c \in Callers : ~Pending(c) /\ cpc[c] = "idle"
    BY DEF Init, Pending
  <2>3. \A w \in Workers : wop[w] = NULL /\ wpc[w] = "off"
    BY DEF Init
  <2> QED
    BY <2>1, <2>2, <2>3 DEF OpsInv
<1>6. MutexInv
  BY DEF MutexInv, Init
<1>7. QueuesInv
  <2> SUFFICES ASSUME NEW i \in Entries PROVE EntryOK(QueuesOf(i), aio_temp_list[i], arrival[i])
    BY DEF QueuesInv
  <2> DEFINE q == [todo |-> <<>>, http |-> <<>>]
  <2>1. QueuesOf(i) = q /\ aio_temp_list[i] = <<>> /\ arrival[i] = <<>>
    BY DEF QueuesOf, Init
  <2>2. q \in Queues /\ q.todo = <<>> /\ q.http = <<>>
    BY DEF Queues
  <2>3. <<>> \o <<>> = <<>> /\ ToSet(<<>>) = {}
    BY ToSetEmpty
  <2> HIDE DEF q
  <2>4. Good(q)
    BY <2>2, <2>3 DEF Good, SortedSeq
  <2>5. IsInjective(<<>>)
    BY DEF IsInjective
  <2>6. \A p \in Prios : Line(q, p) = Keep(<<>>, OfPrio(p))
    BY <2>2, <2>3 DEF Line
  <2>7. EntryOK(q, <<>>, <<>>)
    BY <2>2, <2>4, <2>5, <2>6, EntryNoTemp
  <2> QED
    BY <2>1, <2>7
<1>8. NoneLeftWaiting
  BY DEF NoneLeftWaiting, Init
<1> QED
  BY <1>1, <1>2, <1>3, <1>4, <1>5, <1>6, <1>7, <1>8 DEF Inv

\* Every step of a caller or a thread keeps the invariant.
LEMMA StepInv == Inv /\ [Next]_vars => Inv'
<1> SUFFICES ASSUME Inv, [Next]_vars PROVE Inv'
  OBVIOUS
<1>1. ASSUME NEW c \in Callers, NEW o \in Ops, Issue(c, o) PROVE Inv'
  <2>1. TypeOK'
    BY <1>1, TableTypes
  <2>2. TableInv' /\ OneEntryPerFd' /\ CallersOK'
    BY <1>1, <2>1, SearchTable
  <2>3. OpsInv' /\ MutexInv' /\ QueuesInv' /\ NoneLeftWaiting'
    BY <1>1, IssuePlaces
  <2> QED
    BY <2>1, <2>2, <2>3 DEF Inv
<1>2. ASSUME NEW c \in Callers, Search(c) \/ InsertLock(c) \/ Recheck(c) \/ Create(c) \/ Publish(c)
      PROVE  Inv'
  <2>1. TypeOK'
    BY <1>2, TableTypes
  <2>2. TableInv' /\ OneEntryPerFd' /\ CallersOK'
    BY <1>2, <2>1, SearchTable, CreateTable, PublishTable
  <2>3. OpsInv' /\ MutexInv' /\ QueuesInv' /\ NoneLeftWaiting'
    BY <1>2, SearchPlaces
  <2> QED
    BY <2>1, <2>2, <2>3 DEF Inv
<1>3. ASSUME NEW c \in Callers, Count(c) \/ TryLock(c) \/ PushTemp(c) \/ Fill(c) \/ Signal(c)
      PROVE  Inv'
  <2>1. TypeOK'
    BY <1>3, QueueTypes
  <2>2. TableInv' /\ OneEntryPerFd' /\ CallersOK'
    BY <1>3, <2>1, QueueTable
  <2>3. OpsInv' /\ MutexInv' /\ QueuesInv' /\ NoneLeftWaiting'
    <3>1. CASE Count(c)
      BY <3>1, SearchPlaces
    <3>2. CASE TryLock(c)
      BY <3>2, TryPlaces
    <3>3. CASE PushTemp(c)
      BY <3>3, QueuedPlaces, PushLocks
    <3>4. CASE Fill(c)
      BY <3>4, QueuedPlaces, FillLocks
    <3>5. CASE Signal(c)
      BY <3>5, SignalPlaces
    <3> QED
      BY <1>3, <3>1, <3>2, <3>3, <3>4, <3>5
  <2> QED
    BY <2>1, <2>2, <2>3 DEF Inv
<1>4. ASSUME NEW w \in Workers, WorkerStep(w) PROVE Inv'
  <2>1. TypeOK' /\ TableInv' /\ OneEntryPerFd' /\ CallersOK'
    BY <1>4, WorkerTypes, WorkerTable
  <2>2. OpsInv' /\ MutexInv' /\ QueuesInv' /\ NoneLeftWaiting'
    BY <1>4, QuietWorker, CheckPlaces, CallBackPlaces DEF WorkerStep
  <2> QED
    BY <2>1, <2>2 DEF Inv
<1>5. CASE UNCHANGED vars
  <2> USE DEF vars, table, lists, ops, caller, worker
  <2>0. TypeOK /\ OpsInv /\ MutexInv /\ QueuesInv /\ NoneLeftWaiting
    BY DEF Inv
  <2>1. TypeOK'
    BY <1>5, <2>0, ListTypes, ListTypesNext
  <2>2. TableInv' /\ OneEntryPerFd' /\ CallersOK'
    BY <1>5, TableSame
  <2>3. OpsInv'
    BY <1>5, <2>0, OpsFrame DEF Pending
  <2>4. MutexInv' /\ QueuesInv' /\ NoneLeftWaiting'
    BY <1>5, <2>0, MutexFrame, QueuesFrame, AwakeFrame
  <2> QED
    BY <2>1, <2>2, <2>3, <2>4 DEF Inv
<1> QED
  BY <1>1, <1>2, <1>3, <1>4, <1>5, ReusePlaces DEF Next, CallerStep

\* The invariant holds in every state of the disk threads and their callers.
THEOREM Inductive == Spec => []Inv
BY InitInv, StepInv, PTL DEF Spec

\* Every variable keeps its type: the table never overflows, and no index leaves
\* it.
THEOREM TypeCorrect == Spec => []TypeOK
<1>1. Inv => TypeOK
  BY DEF Inv
<1> QED
  BY <1>1, Inductive, PTL

\* However the unlocked searches of aio_queue_req and the insertions under
\* insert_mutex interleave, a descriptor has one entry, and a request is on it.
THEOREM EntryIsUnique == Spec => []OneEntryPerFd
<1>1. Inv => OneEntryPerFd
  BY DEF Inv
<1> QED
  BY <1>1, Inductive, PTL

\* While a queue has a request, a thread of its entry is awake or a caller is about
\* to wake one: the signal of aio_queue_req is never lost.
THEOREM SomeThreadAwake == Spec => []NoneLeftWaiting
<1>1. Inv => NoneLeftWaiting
  BY DEF Inv
<1> QED
  BY <1>1, Inductive, PTL

\* aio_insert keeps the queue sorted by priority.
THEOREM QueueIsSorted == Spec => []Sorted
<1>1. Inv => Sorted
  <2> SUFFICES ASSUME Inv, NEW i \in Entries PROVE SortedSeq(aio_todo[i])
    BY DEF Sorted, SortedSeq
  <2>1. EntryOK(QueuesOf(i), aio_temp_list[i], arrival[i])
    BY DEF Inv, QueuesInv
  <2>2. QueuesOf(i).todo = aio_todo[i]
    BY DEF QueuesOf
  <2> QED
    BY <2>1, <2>2 DEF EntryOK, Good
<1> QED
  BY <1>1, Inductive, PTL

\* Within a priority the requests wait in the order of their arrival, whichever
\* of the two ways they were queued, for any number of requests and callers.
THEOREM RequestsInOrder == Spec => []Fifo
<1>1. Inv => Fifo
  <2> SUFFICES ASSUME Inv, NEW i \in Entries, NEW p \in Prios
               PROVE  Keep(aio_todo[i] \o http_aio_todo[i] \o Reverse(aio_temp_list[i]), OfPrio(p))
                        = Keep(arrival[i], OfPrio(p))
    BY DEF Fifo, Prios
  <2> DEFINE a == aio_todo[i] \o http_aio_todo[i]
             t == aio_temp_list[i]
             r == Reverse(t)
             S == OfPrio(p)
  <2>1. aio_todo[i] \in Seq(Ops) /\ http_aio_todo[i] \in Seq(Ops) /\ t \in Seq(Ops)
    BY ListTypes DEF Inv
  <2>2. a \in Seq(Ops)
    BY <2>1
  <2>3. r \in Seq(Ops)
    BY <2>1, ReverseType
  <2>4. QueuesOf(i).todo = aio_todo[i] /\ QueuesOf(i).http = http_aio_todo[i]
    BY DEF QueuesOf
  <2>5. Line(QueuesOf(i), p) = Keep(a, S)
    BY <2>4 DEF Line
  <2>6. Line(QueuesOf(i), p) \o Keep(r, S) = Keep(arrival[i], S)
    BY DEF Inv, QueuesInv, EntryOK
  <2> HIDE DEF a, r, S
  <2>7. Keep(a \o r, S) = Keep(a, S) \o Keep(r, S)
    BY <2>2, <2>3, KeepCat
  <2>8. Keep(a \o r, S) = Keep(arrival[i], S)
    BY <2>5, <2>6, <2>7
  <2> QED
    BY <2>8 DEF a, r, S
<1> QED
  BY <1>1, Inductive, PTL
=============================================================================
