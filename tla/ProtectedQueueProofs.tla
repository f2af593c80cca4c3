----------------------- MODULE ProtectedQueueProofs ------------------------
(***************************************************************************)
(* Proofs about ProtectedQueue and WakeupProtocol, for any numbers of      *)
(* threads and events.                                                     *)
(***************************************************************************)
EXTENDS ProtectedQueue, Lemmas, FiniteSetTheorems

-----------------------------------------------------------------------------
(* The conversion of a table of signals                                    *)

\* A table of the threads 0 .. n, and the threads in it.
Slots(n) == 0 .. n \cup {NULL}
Tables(n) == [0 .. n -> Slots(n)]
Entries(r) == {r[j] : j \in DOMAIN r} \ {NULL}

\* The states of the inner loop.
ChainStates(n) == [s : Tables(n), cur : Slots(n)]

\* The rounds of the inner loop of the conversion.
LEMMA ChainDef ==
  ASSUME NEW n \in Nat, NEW s \in Tables(n), NEW i \in 0 .. n
  PROVE  /\ Cardinality(DOMAIN s) = n + 1
         /\ Chain(s, i) \in [0 .. n + 1 -> ChainStates(n)]
         /\ Chain(s, i)[0] = [s |-> s, cur |-> s[i]]
         /\ \A k \in 1 .. n + 1 : Chain(s, i)[k] = PlaceOne(Chain(s, i)[k - 1])
<1> DEFINE m == n + 1
           D == ChainStates(n)
           x == [s |-> s, cur |-> s[i]]
           F == [k \in 1 .. m |-> [st \in D |-> PlaceOne(st)]]
           Body(f, k) == IF k = 0 THEN x ELSE PlaceOne(f[k - 1])
<1>1. m \in Nat /\ Cardinality(DOMAIN s) = m
  BY FS_Interval DEF Tables
<1>2. x \in D
  BY DEF ChainStates, Tables
<1>3. \A st \in D : PlaceOne(st) \in D
  BY DEF ChainStates, Tables, Slots, PlaceOne
<1>4. F \in [1 .. m -> [D -> D]]
  BY <1>3
<1>5. \A k \in 1 .. m : \A st \in D : F[k][st] = PlaceOne(st)
  OBVIOUS
<1> HIDE DEF m, D, x, F
<1>6. PICK f : IsRun(f, m, D, x, F)
  BY <1>1, <1>2, <1>4, RunExists
<1>7. f \in [0 .. m -> D] /\ f[0] = x /\ \A k \in 1 .. m : f[k] = F[k][f[k - 1]]
  BY <1>6 DEF IsRun
<1>8. ASSUME NEW k \in 1 .. m PROVE f[k] = PlaceOne(f[k - 1])
  <2>1. k - 1 \in 0 .. m
    BY <1>1
  <2>2. f[k - 1] \in D
    BY <1>7, <2>1
  <2> QED
    BY <1>5, <1>7, <2>2
<1>9. \A k \in 0 .. m : k = 0 \/ (k \in 1 .. m /\ k # 0)
  BY <1>1
<1>10. f = [k \in 0 .. m |-> Body(f, k)]
  <2>1. ASSUME NEW k \in 0 .. m PROVE f[k] = Body(f, k)
    BY <1>7, <1>8, <1>9
  <2> HIDE DEF Body
  <2> QED
    BY <1>7, <2>1
<1>11. Chain(s, i) = [k \in 0 .. m |-> Body(Chain(s, i), k)]
  BY <1>1, <1>10 DEF Chain, x
<1> DEFINE K == Chain(s, i)
<1> HIDE DEF K
<1>12. K = [k \in 0 .. m |-> Body(K, k)]
  BY <1>11 DEF K
<1>13. K[0] = x /\ \A k \in 1 .. m : K[k] = PlaceOne(K[k - 1])
  <2>1. 0 \in 0 .. m /\ \A k \in 1 .. m : k \in 0 .. m /\ k # 0
    BY <1>1
  <2>2. \A k \in 0 .. m : K[k] = Body(K, k)
    <3> HIDE DEF Body
    <3> QED
      BY <1>12
  <2> QED
    BY <2>1, <2>2
<1>14. ASSUME NEW k \in 0 .. m PROVE K[k] \in D
  <2> DEFINE P == {j \in Nat : j <= m => K[j] \in D}
  <2>1. 0 \in P
    BY <1>2, <1>13
  <2>2. ASSUME NEW j \in Nat, j \in P PROVE j + 1 \in P
    <3> SUFFICES ASSUME j + 1 <= m PROVE K[j + 1] \in D
      OBVIOUS
    <3>1. j + 1 \in 1 .. m /\ (j + 1) - 1 = j /\ K[j] \in D
      BY <1>1, <2>2
    <3> QED
      BY <1>3, <1>13, <3>1
  <2> HIDE DEF P
  <2>3. k \in P
    BY <1>1, <2>1, <2>2, NatInduct
  <2> QED
    BY <1>1, <2>3 DEF P
<1>15. K \in [0 .. m -> D]
  BY <1>12, <1>14
<1> QED
  BY <1>1, <1>13, <1>15 DEF K, m, D, x

\* The threads that are in their own slot.
Fixed(r, n) == {j \in 0 .. n : r[j] = j}

\* The state of the inner loop after k rounds: no thread is lost, slots are only
\* filled with their own threads, the thread the loop began with is in its slot,
\* and another slot has been filled in each round.
ChainInv(st, k, s, i, n) ==
  /\ Entries(st.s) \cup ({st.cur} \ {NULL}) = Entries(s)
  /\ \A j \in 0 .. n : st.s[j] = s[j] \/ st.s[j] = j
  /\ s[i] # NULL /\ k # 0 => st.s[s[i]] = s[i]
  /\ k = 0 => st.cur = s[i]
  /\ st.cur # NULL => Cardinality(Fixed(st.s, n)) >= k

\* A round of the inner loop preserves this.
LEMMA ChainStep ==
  ASSUME NEW n \in Nat, NULL \notin Nat, NEW s \in Tables(n), NEW i \in 0 .. n,
         NEW st \in ChainStates(n), NEW k \in Nat, ChainInv(st, k, s, i, n)
  PROVE  ChainInv(PlaceOne(st), k + 1, s, i, n)
<1> DEFINE r == st.s
           c == st.cur
<1>1. /\ r \in Tables(n) /\ c \in Slots(n) /\ DOMAIN r = 0 .. n /\ DOMAIN s = 0 .. n
      /\ \A j \in 0 .. n : r[j] \in Slots(n) /\ s[j] \in Slots(n)
  BY DEF ChainStates, Tables
<1>2. /\ Entries(r) \cup ({c} \ {NULL}) = Entries(s)
      /\ \A j \in 0 .. n : r[j] = s[j] \/ r[j] = j
      /\ s[i] # NULL /\ k # 0 => r[s[i]] = s[i]
      /\ k = 0 => c = s[i]
      /\ c # NULL => Cardinality(Fixed(r, n)) >= k
  BY DEF ChainInv
<1>3. CASE c = NULL \/ r[c] = c
  <2>1. PlaceOne(st).s = r /\ PlaceOne(st).cur = NULL
    BY <1>3 DEF PlaceOne, ChainStates
  <2>2. Entries(r) = Entries(s)
    <3>1. c # NULL => c \in Entries(r)
      BY <1>1, <1>3 DEF Entries, Slots
    <3> QED
      BY <1>2, <3>1
  <2>3. s[i] # NULL => r[s[i]] = s[i]
    BY <1>2, <1>3
  <2>4. k + 1 # 0
    OBVIOUS
  <2> QED
    BY <1>2, <2>1, <2>2, <2>3, <2>4 DEF ChainInv
<1>4. CASE c # NULL /\ r[c] # c
  <2> DEFINE q == [r EXCEPT ![c] = c]
  <2>1. PlaceOne(st).s = q /\ PlaceOne(st).cur = r[c]
    BY <1>4 DEF PlaceOne
  <2>2. c \in 0 .. n /\ r[c] \in Slots(n)
    BY <1>1, <1>4 DEF Slots
  <2>3. DOMAIN q = 0 .. n /\ q[c] = c /\ \A j \in 0 .. n : j # c => q[j] = r[j]
    BY <1>1, <2>2
  <2> HIDE DEF q
  <2>4. Entries(q) \cup ({r[c]} \ {NULL}) = Entries(s)
    <3>1. \A y : y \in Entries(q) <=> y # NULL /\ \E j \in 0 .. n : y = q[j]
      BY <2>3 DEF Entries
    <3>2. \A y : y \in Entries(r) <=> y # NULL /\ \E j \in 0 .. n : y = r[j]
      BY <1>1 DEF Entries
    <3>3. ASSUME NEW y PROVE y \in Entries(q) \cup ({r[c]} \ {NULL}) <=> y \in Entries(r) \cup ({c} \ {NULL})
      BY <1>4, <2>2, <2>3, <3>1, <3>2
    <3> QED
      BY <1>2, <3>3
  <2>5. \A j \in 0 .. n : q[j] = s[j] \/ q[j] = j
    BY <1>2, <2>3
  <2>6. s[i] # NULL => q[s[i]] = s[i]
    <3>1. s[i] # NULL => s[i] \in 0 .. n
      BY <1>1 DEF Slots
    <3> QED
      BY <1>2, <1>4, <2>3, <3>1
  <2>7. Cardinality(Fixed(q, n)) >= k + 1
    <3>1. Fixed(q, n) = Fixed(r, n) \cup {c} /\ c \notin Fixed(r, n)
      BY <1>4, <2>2, <2>3 DEF Fixed
    <3>2. IsFiniteSet(0 .. n)
      BY FS_Interval
    <3>3. Fixed(r, n) \in SUBSET (0 .. n)
      BY DEF Fixed
    <3>4. IsFiniteSet(Fixed(r, n))
      BY <3>2, <3>3, FS_Subset
    <3>5. Cardinality(Fixed(r, n)) \in Nat
      BY <3>4, FS_CardinalityType
    <3>6. Cardinality(Fixed(r, n) \cup {c}) = Cardinality(Fixed(r, n)) + 1
      BY <3>1, <3>4, FS_AddElement
    <3> QED
      BY <1>2, <1>4, <3>1, <3>5, <3>6
  <2>8. k + 1 # 0
    OBVIOUS
  <2> QED
    BY <2>1, <2>4, <2>5, <2>6, <2>7, <2>8 DEF ChainInv
<1> QED
  BY <1>3, <1>4

\* One round of the outer loop, for slot i: no thread is lost, slot i has its own
\* thread or none, and a slot changes only to its own thread or to none.
LEMMA PlaceChainKeeps ==
  ASSUME NEW n \in Nat, NULL \notin Nat, NEW s \in Tables(n), NEW i \in 0 .. n
  PROVE  /\ PlaceChain(s, i) \in Tables(n)
         /\ Entries(PlaceChain(s, i)) = Entries(s)
         /\ PlaceChain(s, i)[i] \in {i, NULL}
         /\ \A j \in 0 .. n : PlaceChain(s, i)[j] \in {s[j], j, NULL}
<1> DEFINE C == Chain(s, i)
           m == n + 1
           r == C[m].s
           p == PlaceChain(s, i)
<1>1. /\ Cardinality(DOMAIN s) = m
      /\ C \in [0 .. m -> ChainStates(n)]
      /\ C[0] = [s |-> s, cur |-> s[i]]
      /\ \A k \in 1 .. m : C[k] = PlaceOne(C[k - 1])
  BY ChainDef
<1>2. m \in Nat /\ m \in 0 .. m /\ m # 0
  OBVIOUS
<1>3. DOMAIN s = 0 .. n /\ \A j \in 0 .. n : s[j] \in Slots(n)
  BY DEF Tables
<1>4. p = IF r[i] # NULL /\ r[i] # i THEN [r EXCEPT ![i] = NULL] ELSE r
  BY <1>1 DEF PlaceChain
<1> HIDE DEF C, m, p
<1>5. ChainInv(C[m], m, s, i, n)
  <2> DEFINE P == {k \in Nat : k <= m => ChainInv(C[k], k, s, i, n)}
  <2>1. 0 \in P
    <3>1. C[0].s = s /\ C[0].cur = s[i]
      BY <1>1
    <3>2. Entries(s) \cup ({s[i]} \ {NULL}) = Entries(s)
      BY <1>3 DEF Entries
    <3>3. Cardinality(Fixed(s, n)) >= 0
      <4>1. Fixed(s, n) \in SUBSET (0 .. n) /\ IsFiniteSet(0 .. n)
        BY FS_Interval DEF Fixed
      <4>2. IsFiniteSet(Fixed(s, n))
        BY <4>1, FS_Subset
      <4> QED
        BY <4>2, FS_CardinalityType
    <3> QED
      BY <3>1, <3>2, <3>3 DEF ChainInv
  <2>2. ASSUME NEW k \in Nat, k \in P PROVE k + 1 \in P
    <3> SUFFICES ASSUME k + 1 <= m PROVE ChainInv(C[k + 1], k + 1, s, i, n)
      OBVIOUS
    <3>1. k \in 0 .. m /\ k + 1 \in 1 .. m /\ (k + 1) - 1 = k /\ ChainInv(C[k], k, s, i, n)
      BY <1>2, <2>2
    <3>2. C[k] \in ChainStates(n) /\ C[k + 1] = PlaceOne(C[k])
      BY <1>1, <3>1
    <3> QED
      BY <3>1, <3>2, ChainStep
  <2> HIDE DEF P
  <2>3. m \in P
    BY <1>2, <2>1, <2>2, NatInduct
  <2> QED
    BY <1>2, <2>3 DEF P
<1>6. C[m] \in ChainStates(n)
  BY <1>1, <1>2
<1>7. r \in Tables(n) /\ DOMAIN r = 0 .. n /\ C[m].cur \in Slots(n) /\ \A j \in 0 .. n : r[j] \in Slots(n)
  BY <1>6 DEF ChainStates, Tables
<1>8. /\ Entries(r) \cup ({C[m].cur} \ {NULL}) = Entries(s)
      /\ \A j \in 0 .. n : r[j] = s[j] \/ r[j] = j
      /\ s[i] # NULL => r[s[i]] = s[i]
      /\ C[m].cur # NULL => Cardinality(Fixed(r, n)) >= m
  BY <1>2, <1>5 DEF ChainInv
<1> HIDE DEF r
<1>9. Entries(r) = Entries(s)
  <2>1. CASE C[m].cur = NULL
    BY <1>8, <2>1
  <2>2. CASE C[m].cur # NULL
    <3>1. IsFiniteSet(0 .. n) /\ Cardinality(0 .. n) = m /\ Fixed(r, n) \in SUBSET (0 .. n)
      BY FS_Interval DEF Fixed, m
    <3>2. /\ Cardinality(Fixed(r, n)) <= m
          /\ Cardinality(0 .. n) = Cardinality(Fixed(r, n)) => 0 .. n = Fixed(r, n)
          /\ IsFiniteSet(Fixed(r, n))
      BY <3>1, FS_Subset
    <3>3. Cardinality(Fixed(r, n)) \in Nat
      BY <3>2, FS_CardinalityType
    <3>4. Fixed(r, n) = 0 .. n
      BY <1>2, <1>8, <2>2, <3>1, <3>2, <3>3
    <3>5. C[m].cur \in 0 .. n
      BY <1>7, <2>2 DEF Slots
    <3>6. r[C[m].cur] = C[m].cur
      BY <3>4, <3>5 DEF Fixed
    <3>7. C[m].cur \in Entries(r)
      BY <1>7, <2>2, <3>5, <3>6 DEF Entries
    <3> QED
      BY <1>8, <3>7
  <2> QED
    BY <2>1, <2>2
<1>10. CASE r[i] = NULL \/ r[i] = i
  <2>1. p = r
    BY <1>4, <1>10
  <2> QED
    BY <1>7, <1>8, <1>9, <1>10, <2>1 DEF p
<1>11. CASE r[i] # NULL /\ r[i] # i
  <2>1. p = [r EXCEPT ![i] = NULL]
    BY <1>4, <1>11
  <2>2. DOMAIN p = 0 .. n /\ p[i] = NULL /\ \A j \in 0 .. n : j # i => p[j] = r[j]
    BY <1>7, <2>1
  <2>3. p \in Tables(n)
    BY <1>7, <2>1 DEF Tables, Slots
  <2>4. r[i] = s[i] /\ s[i] \in 0 .. n /\ r[s[i]] = s[i]
    BY <1>3, <1>8, <1>11 DEF Slots
  <2>5. Entries(p) = Entries(r)
    <3>1. \A y : y \in Entries(p) <=> y # NULL /\ \E j \in 0 .. n : y = p[j]
      BY <2>2 DEF Entries
    <3>2. \A y : y \in Entries(r) <=> y # NULL /\ \E j \in 0 .. n : y = r[j]
      BY <1>7 DEF Entries
    <3>3. ASSUME NEW y PROVE y \in Entries(p) <=> y \in Entries(r)
      BY <1>11, <2>2, <2>4, <3>1, <3>2
    <3> QED
      BY <3>3
  <2> QED
    BY <1>8, <1>9, <2>2, <2>3, <2>5 DEF p
<1> QED
  BY <1>10, <1>11

\* The rounds of the outer loop of the conversion.
LEMMA RoundsDef ==
  ASSUME NEW n \in Nat, NULL \notin Nat, NEW s \in Tables(n), NEW t \in 0 .. n + 1
  PROVE  /\ Rounds(s, t)[0] = s
         /\ \A k \in 1 .. t : Rounds(s, t)[k] = PlaceChain(Rounds(s, t)[k - 1], k - 1)
<1> DEFINE D == Tables(n)
           F == [k \in 1 .. t |-> [r \in D |-> PlaceChain(r, k - 1)]]
           Body(f, k) == IF k = 0 THEN s ELSE PlaceChain(f[k - 1], k - 1)
<1>1. t \in Nat /\ \A k \in 1 .. t : k - 1 \in 0 .. n
  OBVIOUS
<1>2. \A k \in 1 .. t : \A r \in D : PlaceChain(r, k - 1) \in D
  BY <1>1, PlaceChainKeeps
<1>3. F \in [1 .. t -> [D -> D]]
  BY <1>2
<1>4. \A k \in 1 .. t : \A r \in D : F[k][r] = PlaceChain(r, k - 1)
  OBVIOUS
<1> HIDE DEF D, F
<1>5. PICK f : IsRun(f, t, D, s, F)
  BY <1>1, <1>3, RunExists DEF D
<1>6. f \in [0 .. t -> D] /\ f[0] = s /\ \A k \in 1 .. t : f[k] = F[k][f[k - 1]]
  BY <1>5 DEF IsRun
<1>7. ASSUME NEW k \in 1 .. t PROVE f[k] = PlaceChain(f[k - 1], k - 1)
  <2>1. k - 1 \in 0 .. t
    BY <1>1
  <2>2. f[k - 1] \in D
    BY <1>6, <2>1
  <2> QED
    BY <1>4, <1>6, <2>2
<1>8. \A k \in 0 .. t : k = 0 \/ (k \in 1 .. t /\ k # 0)
  BY <1>1
<1>9. f = [k \in 0 .. t |-> Body(f, k)]
  <2>1. ASSUME NEW k \in 0 .. t PROVE f[k] = Body(f, k)
    BY <1>6, <1>7, <1>8
  <2> HIDE DEF Body
  <2> QED
    BY <1>6, <2>1
<1>10. Rounds(s, t) = [k \in 0 .. t |-> Body(Rounds(s, t), k)]
  BY <1>9 DEF Rounds
<1> DEFINE K == Rounds(s, t)
<1> HIDE DEF K
<1>11. \A k \in 0 .. t : K[k] = Body(K, k)
  <2>1. K = [k \in 0 .. t |-> Body(K, k)]
    BY <1>10 DEF K
  <2> HIDE DEF Body
  <2> QED
    BY <2>1
<1>12. 0 \in 0 .. t /\ \A k \in 1 .. t : k \in 0 .. t /\ k # 0
  BY <1>1
<1> QED
  BY <1>11, <1>12 DEF K

\* The conversion, whatever chains of displaced threads there are: every thread
\* of the table ends up in its own slot, and nothing else is in it.
THEOREM DirectMapCorrect ==
  ASSUME NEW n \in Nat, NULL \notin Nat, NEW s \in Tables(n), NEW t \in 0 .. n + 1,
         \A j \in 0 .. n : j >= t => s[j] \in {j, NULL}
  PROVE  DirectMap(s, t) = [j \in 0 .. n |-> IF j \in Entries(s) THEN j ELSE NULL]
<1> DEFINE K == Rounds(s, t)
           Good(k) == /\ K[k] \in Tables(n)
                      /\ Entries(K[k]) = Entries(s)
                      /\ \A j \in 0 .. n : j < k \/ j >= t => K[k][j] \in {j, NULL}
           P == {k \in Nat : k <= t => Good(k)}
           r == K[t]
<1>1. K[0] = s /\ \A k \in 1 .. t : K[k] = PlaceChain(K[k - 1], k - 1)
  BY RoundsDef
<1>2. t \in Nat
  OBVIOUS
<1> HIDE DEF K
<1>3. 0 \in P
  BY <1>1
<1>4. ASSUME NEW k \in Nat, k \in P PROVE k + 1 \in P
  <2> SUFFICES ASSUME k + 1 <= t PROVE Good(k + 1)
    OBVIOUS
  <2>1. k + 1 \in 1 .. t /\ (k + 1) - 1 = k /\ k \in 0 .. n
    BY <1>2
  <2>2. Good(k)
    BY <1>2, <1>4
  <2>3. K[k + 1] = PlaceChain(K[k], k)
    BY <1>1, <2>1
  <2>4. /\ PlaceChain(K[k], k) \in Tables(n)
        /\ Entries(PlaceChain(K[k], k)) = Entries(K[k])
        /\ PlaceChain(K[k], k)[k] \in {k, NULL}
        /\ \A j \in 0 .. n : PlaceChain(K[k], k)[j] \in {K[k][j], j, NULL}
    BY <2>1, <2>2, PlaceChainKeeps
  <2>5. ASSUME NEW j \in 0 .. n, j < k + 1 \/ j >= t PROVE K[k + 1][j] \in {j, NULL}
    <3>1. j = k \/ j < k \/ j >= t
      BY <2>5
    <3> QED
      BY <2>2, <2>3, <2>4, <3>1
  <2> QED
    BY <2>2, <2>3, <2>4, <2>5
<1> HIDE DEF P
<1>5. t \in P
  BY <1>2, <1>3, <1>4, NatInduct
<1>6. Good(t)
  BY <1>2, <1>5 DEF P
<1>7. DirectMap(s, t) = r
  BY DEF DirectMap, K
<1>8. /\ r \in Tables(n) /\ DOMAIN r = 0 .. n /\ Entries(r) = Entries(s)
      /\ \A j \in 0 .. n : r[j] \in {j, NULL}
  BY <1>2, <1>6 DEF Tables
<1> HIDE DEF r, K
<1>9. ASSUME NEW j \in 0 .. n PROVE r[j] = IF j \in Entries(s) THEN j ELSE NULL
  <2>1. j # NULL /\ \A y : y \in Entries(r) <=> y # NULL /\ \E l \in 0 .. n : y = r[l]
    BY <1>8 DEF Entries
  <2> QED
    BY <1>8, <2>1
<1>10. r \in [0 .. n -> Slots(n)]
  BY <1>8 DEF Tables
<1> QED
  BY <1>7, <1>9, <1>10

-----------------------------------------------------------------------------
(* The queues                                                              *)

\* o is the order of the events from others in l, the local queue, and r, the
\* list with the oldest event first.
Ordered(l, r, o) == Keep(l, ToSet(o)) \o r = o

\* The events in the order are queued.
LEMMA OrderedSet ==
  ASSUME NEW E, NEW l \in Seq(E), NEW r \in Seq(E), NEW o \in Seq(E), Ordered(l, r, o)
  PROVE  ToSet(o) \subseteq ToSet(l) \cup ToSet(r)
<1> DEFINE k == Keep(l, ToSet(o))
<1>1. k \in Seq(E) /\ ToSet(k) = ToSet(l) \cap ToSet(o)
  BY KeepType, KeepSet
<1>2. o = k \o r
  BY DEF Ordered
<1> HIDE DEF k
<1>3. ToSet(k \o r) = ToSet(k) \cup ToSet(r)
  BY <1>1, ToSetCat
<1> QED
  BY <1>1, <1>2, <1>3

\* An event joins the list.
LEMMA OrderedPush ==
  ASSUME NEW E, NEW l \in Seq(E), NEW r \in Seq(E), NEW o \in Seq(E), Ordered(l, r, o),
         NEW e \in E, e \notin ToSet(l)
  PROVE  Ordered(l, Append(r, e), Append(o, e))
<1> DEFINE k == Keep(l, ToSet(o))
<1>1. k \in Seq(E) /\ k \o r = o
  BY KeepType DEF Ordered
<1>2. ToSet(Append(o, e)) = ToSet(o) \cup {e}
  BY ToSetAppend
<1>3. ToSet(l) \cap (ToSet(o) \cup {e}) = ToSet(l) \cap ToSet(o)
  OBVIOUS
<1>4. Keep(l, ToSet(o) \cup {e}) = k
  BY <1>3, KeepSame
<1> HIDE DEF k
<1>5. k \o Append(r, e) = Append(k \o r, e)
  BY <1>1, CatAppend
<1> QED
  BY <1>1, <1>2, <1>4, <1>5 DEF Ordered

\* The first local event leaves.
LEMMA OrderedProcess ==
  ASSUME NEW E, NEW h \in E, NEW t \in Seq(E), NEW r \in Seq(E), NEW o \in Seq(E),
         Ordered(<<h>> \o t, r, o), h \notin ToSet(t), h \notin ToSet(r)
  PROVE  Ordered(t, r, Keep(o, E \ {h}))
<1> DEFINE k == Keep(t, ToSet(o))
           w == k \o r
           T == E \ {h}
<1>1. k \in Seq(E) /\ ToSet(k) = ToSet(t) \cap ToSet(o)
  BY KeepType, KeepSet
<1>2. Keep(<<h>> \o t, ToSet(o)) = IF h \in ToSet(o) THEN <<h>> \o k ELSE k
  BY KeepPush
<1> HIDE DEF k
<1>3. w \in Seq(E) /\ ToSet(w) = ToSet(k) \cup ToSet(r)
  BY <1>1, ToSetCat
<1>4. o = IF h \in ToSet(o) THEN <<h>> \o w ELSE w
  <2>1. (<<h>> \o k) \o r = <<h>> \o w
    BY <1>1, CatPush
  <2>2. o = Keep(<<h>> \o t, ToSet(o)) \o r
    BY DEF Ordered
  <2> QED
    BY <1>2, <2>1, <2>2
<1> HIDE DEF w
<1>5. ToSet(w) \subseteq T
  BY <1>1, <1>3, ToSetType
<1>6. Keep(w, T) = w
  BY <1>3, <1>5, KeepAll
<1>7. Keep(<<h>> \o w, T) = Keep(w, T)
  BY <1>3, KeepPush
<1>8. Keep(o, T) = w
  BY <1>4, <1>6, <1>7
<1>9. ToSet(w) = ToSet(o) \cap T
  BY <1>8, KeepSet
<1>10. ToSet(t) \cap ToSet(w) = ToSet(t) \cap ToSet(o)
  BY <1>9, ToSetType
<1>11. Keep(t, ToSet(w)) = k
  BY <1>10, KeepSame DEF k
<1> QED
  BY <1>8, <1>11 DEF Ordered, w

\* The list is taken, without the events of C.
LEMMA OrderedTake ==
  ASSUME NEW E, NEW l \in Seq(E), NEW r \in Seq(E), NEW o \in Seq(E), Ordered(l, r, o),
         ToSet(l) \cap ToSet(r) = {}, NEW C
  PROVE  Ordered(l \o Keep(r, E \ C), <<>>, Keep(o, E \ (ToSet(r) \cap C)))
<1> DEFINE G == ToSet(r) \cap C
           k == Keep(l, ToSet(o))
           v == Keep(r, E \ C)
           o2 == Keep(o, E \ G)
<1>0. ToSet(l) \subseteq E /\ ToSet(r) \subseteq E
  BY ToSetType
<1>1. k \in Seq(E) /\ ToSet(k) = ToSet(l) \cap ToSet(o)
  BY KeepType, KeepSet
<1>2. v \in Seq(E) /\ ToSet(v) = ToSet(r) \cap (E \ C)
  BY KeepType, KeepSet
<1>3. o = k \o r
  BY DEF Ordered
<1>4. Keep(r, E \ G) = v
  <2>1. ToSet(r) \cap (E \ G) = ToSet(r) \cap (E \ C)
    OBVIOUS
  <2> QED
    BY <2>1, KeepSame
<1> HIDE DEF k, v
<1>5. Keep(k, E \ G) = k
  <2>1. ToSet(k) \subseteq E \ G
    BY <1>0, <1>1
  <2> QED
    BY <1>1, <2>1, KeepAll
<1>6. o2 = k \o v
  <2> DEFINE T == E \ G
  <2> HIDE DEF T
  <2>1. Keep(k \o r, T) = Keep(k, T) \o Keep(r, T)
    BY <1>1, KeepCat
  <2> QED
    BY <1>3, <1>4, <1>5, <2>1 DEF T
<1>7. o2 \in Seq(E) /\ ToSet(o2) = ToSet(o) \cap (E \ G)
  BY KeepType, KeepSet
<1> HIDE DEF o2
<1>8. ToSet(k \o v) = ToSet(k) \cup ToSet(v)
  BY <1>1, <1>2, ToSetCat
<1>9. Keep(v, ToSet(o2)) = v
  BY <1>2, <1>6, <1>8, KeepAll
<1>10. Keep(l, ToSet(o2)) = k
  <2>1. ToSet(l) \cap ToSet(o2) = ToSet(l) \cap ToSet(o)
    BY <1>0, <1>7
  <2> QED
    BY <2>1, KeepSame DEF k
<1>11. Keep(l \o v, ToSet(o2)) = Keep(l, ToSet(o2)) \o Keep(v, ToSet(o2))
  BY <1>2, KeepCat
<1>12. o2 \o <<>> = o2
  BY <1>7
<1> QED
  BY <1>6, <1>9, <1>10, <1>11, <1>12 DEF Ordered, v, o2

\* The local queue l, the list a and the order o of a thread: an event is in one
\* place, and the order is kept.
QueueOK(l, a, o) ==
  /\ IsInjective(l)
  /\ IsInjective(Reverse(a))
  /\ ToSet(l) \cap ToSet(a) = {}
  /\ Ordered(l, Reverse(a), o)

\* An event that is on neither queue joins the list.
LEMMA QueuePush ==
  ASSUME NEW E, NEW l \in Seq(E), NEW a \in Seq(E), NEW o \in Seq(E), QueueOK(l, a, o),
         NEW e \in E, e \notin ToSet(l), e \notin ToSet(a)
  PROVE  QueueOK(l, <<e>> \o a, Append(o, e))
<1> DEFINE r == Reverse(a)
<1>1. r \in Seq(E) /\ ToSet(r) = ToSet(a) /\ Reverse(<<e>> \o a) = Append(r, e)
  BY ReverseType, ReversePush
<1>2. IsInjective(l) /\ IsInjective(r) /\ ToSet(l) \cap ToSet(a) = {} /\ Ordered(l, r, o)
  BY DEF QueueOK
<1>3. ToSet(<<e>> \o a) = ToSet(a) \cup {e}
  BY ToSetPush
<1> HIDE DEF r
<1>4. IsInjective(Append(r, e)) /\ Ordered(l, Append(r, e), Append(o, e))
  BY <1>1, <1>2, InjectiveAppend, OrderedPush
<1> QED
  BY <1>1, <1>2, <1>3, <1>4 DEF QueueOK

\* ... or the local queue.
LEMMA QueueLocal ==
  ASSUME NEW E, NEW l \in Seq(E), NEW a \in Seq(E), NEW o \in Seq(E), QueueOK(l, a, o),
         NEW e \in E, e \notin ToSet(l), e \notin ToSet(a)
  PROVE  QueueOK(Append(l, e), a, o)
<1> DEFINE r == Reverse(a)
<1>1. r \in Seq(E) /\ ToSet(r) = ToSet(a)
  BY ReverseType
<1>2. IsInjective(l) /\ IsInjective(r) /\ ToSet(l) \cap ToSet(a) = {} /\ Ordered(l, r, o)
  BY DEF QueueOK
<1> HIDE DEF r
<1>3. ToSet(Append(l, e)) = ToSet(l) \cup {e} /\ IsInjective(Append(l, e))
  BY <1>2, ToSetAppend, InjectiveAppend
<1>4. e \notin ToSet(o)
  BY <1>1, <1>2, OrderedSet
<1>5. Keep(Append(l, e), ToSet(o)) = Keep(l, ToSet(o))
  BY <1>4, KeepAppend
<1>6. Ordered(Append(l, e), r, o)
  BY <1>2, <1>5 DEF Ordered
<1> QED
  BY <1>2, <1>3, <1>6 DEF QueueOK, r

\* The first local event leaves.
LEMMA QueueProcess ==
  ASSUME NEW E, NEW l \in Seq(E), NEW a \in Seq(E), NEW o \in Seq(E), QueueOK(l, a, o), l # <<>>
  PROVE  /\ Head(l) \in E /\ Tail(l) \in Seq(E) /\ Keep(o, E \ {Head(l)}) \in Seq(E)
         /\ QueueOK(Tail(l), a, Keep(o, E \ {Head(l)}))
<1> DEFINE r == Reverse(a)
           h == Head(l)
           t == Tail(l)
<1>1. r \in Seq(E) /\ ToSet(r) = ToSet(a)
  BY ReverseType
<1>2. IsInjective(l) /\ IsInjective(r) /\ ToSet(l) \cap ToSet(a) = {} /\ Ordered(l, r, o)
  BY DEF QueueOK
<1>3. /\ h \in E /\ t \in Seq(E) /\ l = <<h>> \o t
      /\ ToSet(l) = {h} \cup ToSet(t)
      /\ IsInjective(t) /\ h \notin ToSet(t)
  BY <1>2, InjectiveTail
<1> HIDE DEF r, h, t
<1>4. h \notin ToSet(r) /\ ToSet(t) \cap ToSet(a) = {}
  BY <1>1, <1>2, <1>3
<1>5. Ordered(t, r, Keep(o, E \ {h}))
  BY <1>1, <1>2, <1>3, <1>4, OrderedProcess
<1>6. Keep(o, E \ {h}) \in Seq(E)
  BY KeepType
<1> QED
  BY <1>2, <1>3, <1>4, <1>5, <1>6 DEF QueueOK, r, h, t

\* The list is taken; the events of C, which are cancelled, are dropped.
LEMMA QueueTake ==
  ASSUME NEW E, NEW l \in Seq(E), NEW a \in Seq(E), NEW o \in Seq(E), QueueOK(l, a, o), NEW C
  PROVE  /\ l \o Keep(Reverse(a), E \ C) \in Seq(E) /\ Keep(o, E \ (ToSet(a) \cap C)) \in Seq(E)
         /\ QueueOK(l \o Keep(Reverse(a), E \ C), <<>>, Keep(o, E \ (ToSet(a) \cap C)))
<1> DEFINE r == Reverse(a)
           v == Keep(r, E \ C)
           o2 == Keep(o, E \ (ToSet(a) \cap C))
<1>1. r \in Seq(E) /\ ToSet(r) = ToSet(a)
  BY ReverseType
<1>2. IsInjective(l) /\ IsInjective(r) /\ ToSet(l) \cap ToSet(a) = {} /\ Ordered(l, r, o)
  BY DEF QueueOK
<1> HIDE DEF r
<1>3. v \in Seq(E) /\ ToSet(v) = ToSet(r) \cap (E \ C) /\ IsInjective(v)
  BY <1>1, <1>2, KeepType, KeepSet, InjectiveKeep
<1>4. Ordered(l \o v, <<>>, o2)
  BY <1>1, <1>2, OrderedTake
<1>5. o2 \in Seq(E)
  BY KeepType
<1> HIDE DEF v, o2
<1>6. IsInjective(l \o v)
  BY <1>1, <1>2, <1>3, InjectiveCat
<1>7. l \o v \in Seq(E)
  BY <1>3
<1>8. Reverse(<<>>) = <<>> /\ IsInjective(<<>>)
  BY DEF Reverse, IsInjective
<1>9. QueueOK(l \o v, <<>>, o2)
  BY <1>4, <1>6, <1>8, ToSetEmpty DEF QueueOK
<1> QED
  BY <1>5, <1>7, <1>9 DEF r, v, o2

-----------------------------------------------------------------------------
(* The invariant                                                           *)

\* Where a thread can be in its loop.
Places == {"run", "timers", "flush", "acquire", "locked", "empty", "wait", "popall",
           "peek", "drain", "poll", "netio"}

\* Every variable has its type.
QueueTypeOK ==
  /\ al \in [EThreads -> Seq(Events)]
  /\ localQueue \in [EThreads -> Seq(Events)]
  /\ order \in [EThreads -> Seq(Events)]
  /\ cancelled \subseteq Events /\ fast \subseteq Events

SignalTypeOK ==
  /\ sig_e \in [EThreads -> [EThreads -> EThreads \cup {NULL}]]
  /\ nsig \in [EThreads -> 0 .. N]
  /\ evfd \in [EThreads -> BOOLEAN]
  /\ pc \in [EThreads -> Places]
  /\ fl \in [EThreads -> 0 .. N]
  /\ nlocal \in [EThreads -> Nat]
  /\ owes \in [Externals -> {NULL} \cup [to : EThreads, hook : BOOLEAN]]

TypeOK == QueueTypeOK /\ SignalTypeOK

\* The table of a thread: nothing beyond its end, nothing where flush_signals has
\* been, own slots only once it is a map; and it is empty on the way to the wait.
TableInv(t) ==
  /\ \A i \in EThreads : i >= nsig[t] => sig_e[t][i] = NULL
  /\ \A i \in EThreads : i < fl[t] => sig_e[t][i] = NULL
  /\ nsig[t] = N => \A i \in EThreads : sig_e[t][i] \in {i, NULL}
  /\ pc[t] # "flush" => fl[t] = 0
  /\ pc[t] \in {"acquire", "locked", "empty", "wait"} => nsig[t] = 0

TablesOK == \A t \in EThreads : TableInv(t)
QueuesOK == \A q \in EThreads : QueueOK(localQueue[q], al[q], order[q])

Inv == TypeOK /\ TablesOK /\ QueuesOK

\* The threads of a table s with n slots in use.
LEMMA UsedIsEntries ==
  ASSUME NEW s \in [EThreads -> EThreads \cup {NULL}], NEW n \in 0 .. N,
         \A i \in EThreads : i >= n => s[i] = NULL
  PROVE  {s[i] : i \in {j \in EThreads : j < n}} \ {NULL} = Entries(s)
<1> DEFINE U == {s[i] : i \in {j \in EThreads : j < n}} \ {NULL}
<1>1. \A y : y \in U <=> y # NULL /\ \E j \in EThreads : j < n /\ y = s[j]
  OBVIOUS
<1>2. \A y : y \in Entries(s) <=> y # NULL /\ \E j \in EThreads : y = s[j]
  BY DEF Entries
<1>3. \A j \in EThreads : j < n \/ s[j] = NULL
  <2> SUFFICES ASSUME NEW j \in EThreads PROVE j < n \/ j >= n
    OBVIOUS
  <2>1. j \in Int /\ n \in Int
    BY ThreadsOK DEF EThreads
  <2> QED
    BY <2>1
<1> HIDE DEF U
<1>4. ASSUME NEW y PROVE y \in U <=> y \in Entries(s)
  BY <1>1, <1>2, <1>3
<1>5. U = Entries(s)
  BY <1>4
<1> QED
  BY <1>5 DEF U

\* What NoteSignal does to the table, as a vector, when it becomes a map, and as
\* a map: q joins the threads noted, and none is lost.
LEMMA NoteSignalAdds ==
  ASSUME SignalTypeOK, NEW t \in EThreads, NEW q \in EThreads, TableInv(t), fl[t] = 0, NoteSignal(t, q)
  PROVE  /\ sig_e' \in [EThreads -> [EThreads -> EThreads \cup {NULL}]]
         /\ nsig' \in [EThreads -> 0 .. N]
         /\ \A u \in EThreads : u # t => sig_e'[u] = sig_e[u] /\ nsig'[u] = nsig[u]
         /\ \A i \in EThreads : i >= nsig'[t] => sig_e'[t][i] = NULL
         /\ nsig'[t] = N => \A i \in EThreads : sig_e'[t][i] \in {i, NULL}
         /\ Entries(sig_e'[t]) = Entries(sig_e[t]) \cup {q}
<1> DEFINE s == sig_e[t]
           n == nsig[t]
<1>0. /\ N \in Nat /\ N # 0 /\ EThreads = 0 .. N - 1 /\ NULL \notin Nat
      /\ n \in 0 .. N /\ s \in [EThreads -> EThreads \cup {NULL}] /\ q \in Nat /\ q # NULL
  BY ThreadsOK DEF SignalTypeOK, EThreads
<1>1. /\ \A i \in EThreads : i >= n => s[i] = NULL
      /\ n = N => \A i \in EThreads : s[i] \in {i, NULL}
  BY DEF TableInv
<1> HIDE DEF s, n
<1>2. ASSUME NEW r \in [EThreads -> EThreads \cup {NULL}]
      PROVE  \A y : y \in Entries(r) <=> y # NULL /\ \E j \in EThreads : y = r[j]
  BY DEF Entries
<1>3. CASE n + 1 < N
  <2> DEFINE r == [s EXCEPT ![n] = q]
  <2>1. n \in EThreads /\ s[n] = NULL
    BY <1>0, <1>1, <1>3
  <2>2. sig_e' = [sig_e EXCEPT ![t] = r] /\ nsig' = [nsig EXCEPT ![t] = n + 1]
    BY <1>3 DEF NoteSignal, s, n
  <2>3. r \in [EThreads -> EThreads \cup {NULL}] /\ r[n] = q /\ \A i \in EThreads : i # n => r[i] = s[i]
    BY <1>0, <2>1
  <2> HIDE DEF r
  <2>4. sig_e'[t] = r /\ nsig'[t] = n + 1
    BY <2>2 DEF SignalTypeOK
  <2>5. \A i \in EThreads : i >= n + 1 => r[i] = NULL
    BY <1>0, <1>1, <2>3
  <2>6. n + 1 # N /\ n + 1 \in 0 .. N
    BY <1>0, <1>3
  <2>7. ASSUME NEW y PROVE y \in Entries(r) <=> y \in Entries(s) \cup {q}
    BY <1>0, <1>2, <2>1, <2>3
  <2>8. Entries(r) = Entries(s) \cup {q}
    BY <2>7
  <2>9. sig_e' \in [EThreads -> [EThreads -> EThreads \cup {NULL}]] /\ nsig' \in [EThreads -> 0 .. N]
    BY <2>2, <2>3, <2>6 DEF SignalTypeOK
  <2>10. \A u \in EThreads : u # t => sig_e'[u] = sig_e[u] /\ nsig'[u] = nsig[u]
    BY <2>2 DEF SignalTypeOK
  <2> QED
    BY <2>4, <2>5, <2>6, <2>8, <2>9, <2>10 DEF s
<1>4. CASE n + 1 >= N
  <2> DEFINE m == IF n + 1 = N THEN DirectMap(s, n) ELSE s
             r == [m EXCEPT ![q] = q]
             k == IF n + 1 = N THEN n + 1 ELSE n
  <2>1. sig_e' = [sig_e EXCEPT ![t] = r] /\ nsig' = [nsig EXCEPT ![t] = k]
    <3>1. ~(n + 1 < N)
      BY <1>0, <1>4
    <3> QED
      BY <3>1 DEF NoteSignal, s, n
  <2>2. k = N
    BY <1>0, <1>4
  <2>3. /\ m \in [EThreads -> EThreads \cup {NULL}]
        /\ Entries(m) = Entries(s)
        /\ \A i \in EThreads : m[i] \in {i, NULL}
    <3>1. CASE n + 1 = N
      <4>1. EThreads = 0 .. n /\ n \in Nat /\ n \in 0 .. n + 1
        BY <1>0, <3>1
      <4>2. s \in Tables(n)
        BY <1>0, <4>1 DEF Tables, Slots
      <4>3. \A j \in 0 .. n : j >= n => s[j] \in {j, NULL}
        BY <1>1, <4>1
      <4>4. m = [j \in EThreads |-> IF j \in Entries(s) THEN j ELSE NULL]
        BY <1>0, <3>1, <4>1, <4>2, <4>3, DirectMapCorrect
      <4>5. m \in [EThreads -> EThreads \cup {NULL}] /\ \A i \in EThreads : m[i] \in {i, NULL}
        BY <4>4
      <4>6. \A i \in EThreads : m[i] = IF i \in Entries(s) THEN i ELSE NULL
        BY <4>4
      <4>7. \A y : y \in Entries(s) => y \in EThreads /\ y # NULL
        BY <1>0, <1>2
      <4> HIDE DEF m
      <4>8. ASSUME NEW y PROVE y \in Entries(m) <=> y \in Entries(s)
        BY <1>2, <4>5, <4>6, <4>7
      <4> QED
        BY <4>5, <4>8
    <3>2. CASE n + 1 # N
      <4>1. n = N
        BY <1>0, <1>4, <3>2
      <4> QED
        BY <1>0, <1>1, <3>2, <4>1
    <3> QED
      BY <3>1, <3>2
  <2> HIDE DEF m, k
  <2>4. r \in [EThreads -> EThreads \cup {NULL}] /\ r[q] = q /\ \A i \in EThreads : i # q => r[i] = m[i]
    BY <2>3
  <2> HIDE DEF r
  <2>5. sig_e'[t] = r /\ nsig'[t] = N
    BY <2>1, <2>2 DEF SignalTypeOK
  <2>6. \A i \in EThreads : r[i] \in {i, NULL}
    BY <2>3, <2>4
  <2>7. \A i \in EThreads : ~(i >= N)
    BY <1>0
  <2>8. ASSUME NEW y PROVE y \in Entries(r) <=> y \in Entries(m) \cup {q}
    BY <1>0, <1>2, <2>3, <2>4
  <2>9. Entries(r) = Entries(s) \cup {q}
    BY <2>3, <2>8
  <2>10. N \in 0 .. N
    BY <1>0
  <2>11. sig_e' \in [EThreads -> [EThreads -> EThreads \cup {NULL}]] /\ nsig' \in [EThreads -> 0 .. N]
    BY <2>1, <2>2, <2>4, <2>10 DEF SignalTypeOK
  <2>12. \A u \in EThreads : u # t => sig_e'[u] = sig_e[u] /\ nsig'[u] = nsig[u]
    BY <2>1 DEF SignalTypeOK
  <2> QED
    BY <2>5, <2>6, <2>7, <2>9, <2>11, <2>12 DEF s
<1> QED
  BY <1>0, <1>3, <1>4

\* A step that changes the queues of one thread only.
LEMMA QueueStep ==
  ASSUME QueueTypeOK, QueuesOK, NEW q \in EThreads,
         NEW l \in Seq(Events), NEW a \in Seq(Events), NEW o \in Seq(Events), QueueOK(l, a, o),
         localQueue' = [localQueue EXCEPT ![q] = l],
         al' = [al EXCEPT ![q] = a],
         order' = [order EXCEPT ![q] = o],
         cancelled' \subseteq Events, fast' \subseteq Events
  PROVE  QueueTypeOK' /\ QueuesOK'
<1>1. QueueTypeOK'
  BY DEF QueueTypeOK
<1>2. localQueue'[q] = l /\ al'[q] = a /\ order'[q] = o
  BY DEF QueueTypeOK
<1>3. \A p \in EThreads : p # q =>
        localQueue'[p] = localQueue[p] /\ al'[p] = al[p] /\ order'[p] = order[p]
  BY DEF QueueTypeOK
<1>4. ASSUME NEW p \in EThreads PROVE QueueOK(localQueue'[p], al'[p], order'[p])
  BY <1>2, <1>3 DEF QueuesOK
<1> QED
  BY <1>1, <1>4 DEF QueuesOK

\* The push of an event.
LEMMA PushKeeps ==
  ASSUME QueueTypeOK, QueuesOK, NEW q \in EThreads, NEW e \in Events, NEW f \in BOOLEAN, Push(q, e, f)
  PROVE  QueueTypeOK' /\ QueuesOK'
<1> DEFINE a == al[q]
           l == localQueue[q]
           o == order[q]
<1>1. a \in Seq(Events) /\ l \in Seq(Events) /\ o \in Seq(Events) /\ QueueOK(l, a, o)
  BY DEF QueueTypeOK, QueuesOK
<1>2. e \notin ToSet(a) /\ e \notin ToSet(l)
  BY DEF Push, Queued
<1>3. /\ al' = [al EXCEPT ![q] = <<e>> \o a] /\ order' = [order EXCEPT ![q] = Append(o, e)]
      /\ localQueue' = [localQueue EXCEPT ![q] = l]
      /\ cancelled' \subseteq Events /\ fast' \subseteq Events
  BY DEF Push, QueueTypeOK
<1> HIDE DEF a, l, o
<1>4. <<e>> \o a \in Seq(Events) /\ Append(o, e) \in Seq(Events)
  BY <1>1
<1>5. QueueOK(l, <<e>> \o a, Append(o, e))
  BY <1>1, <1>2, QueuePush
<1> QED
  BY <1>1, <1>3, <1>4, <1>5, QueueStep

\* enqueue_local.
LEMMA LocalKeeps ==
  ASSUME QueueTypeOK, QueuesOK, NEW q \in EThreads, NEW e \in Events, EnqueueLocal(q, e)
  PROVE  QueueTypeOK' /\ QueuesOK'
<1> DEFINE a == al[q]
           l == localQueue[q]
           o == order[q]
<1>1. a \in Seq(Events) /\ l \in Seq(Events) /\ o \in Seq(Events) /\ QueueOK(l, a, o)
  BY DEF QueueTypeOK, QueuesOK
<1>2. e \notin ToSet(a) /\ e \notin ToSet(l)
  BY DEF EnqueueLocal, Queued
<1>3. /\ al' = [al EXCEPT ![q] = a] /\ order' = [order EXCEPT ![q] = o]
      /\ localQueue' = [localQueue EXCEPT ![q] = Append(l, e)]
      /\ cancelled' \subseteq Events /\ fast' \subseteq Events
  BY DEF EnqueueLocal, QueueTypeOK
<1> HIDE DEF a, l, o
<1>4. Append(l, e) \in Seq(Events)
  BY <1>1
<1>5. QueueOK(Append(l, e), a, o)
  BY <1>1, <1>2, QueueLocal
<1> QED
  BY <1>1, <1>3, <1>4, <1>5, QueueStep

\* The loop over the local queue.
LEMMA ProcessKeeps ==
  ASSUME QueueTypeOK, QueuesOK, NEW q \in EThreads, Process(q)
  PROVE  QueueTypeOK' /\ QueuesOK'
<1> DEFINE a == al[q]
           l == localQueue[q]
           o == order[q]
<1>1. a \in Seq(Events) /\ l \in Seq(Events) /\ o \in Seq(Events) /\ QueueOK(l, a, o) /\ l # <<>>
  BY DEF QueueTypeOK, QueuesOK, Process
<1>2. /\ al' = [al EXCEPT ![q] = a] /\ order' = [order EXCEPT ![q] = Keep(o, Events \ {Head(l)})]
      /\ localQueue' = [localQueue EXCEPT ![q] = Tail(l)]
      /\ cancelled' \subseteq Events /\ fast' \subseteq Events
  BY DEF Process, QueueTypeOK
<1> HIDE DEF a, l, o
<1>3. /\ Tail(l) \in Seq(Events) /\ Keep(o, Events \ {Head(l)}) \in Seq(Events)
      /\ QueueOK(Tail(l), a, Keep(o, Events \ {Head(l)}))
  BY <1>1, QueueProcess
<1> QED
  BY <1>1, <1>2, <1>3, QueueStep

\* dequeue_timed takes the list.
LEMMA TakeAllKeeps ==
  ASSUME QueueTypeOK, QueuesOK, NEW q \in EThreads, TakeAll(q)
  PROVE  QueueTypeOK' /\ QueuesOK'
<1> DEFINE a == al[q]
           l == localQueue[q]
           o == order[q]
           l2 == l \o Keep(Reverse(a), Events \ cancelled)
           o2 == Keep(o, Events \ (ToSet(a) \cap cancelled))
<1>1. a \in Seq(Events) /\ l \in Seq(Events) /\ o \in Seq(Events) /\ QueueOK(l, a, o)
  BY DEF QueueTypeOK, QueuesOK
<1>2. /\ al' = [al EXCEPT ![q] = <<>>] /\ order' = [order EXCEPT ![q] = o2]
      /\ localQueue' = [localQueue EXCEPT ![q] = l2]
      /\ cancelled' \subseteq Events /\ fast' \subseteq Events
  BY DEF TakeAll, Inverted, QueueTypeOK
<1> HIDE DEF a, l, o
<1>3. l2 \in Seq(Events) /\ o2 \in Seq(Events) /\ QueueOK(l2, <<>>, o2)
  BY <1>1, QueueTake
<1>4. <<>> \in Seq(Events)
  OBVIOUS
<1> HIDE DEF l2, o2
<1> QED
  BY <1>2, <1>3, <1>4, QueueStep

\* The queues of every thread stay in order.
LEMMA QueuesKept ==
  ASSUME QueueTypeOK, QueuesOK, [Next]_vars
  PROVE  QueueTypeOK' /\ QueuesOK'
<1>0. ASSUME UNCHANGED <<al, localQueue, order, fast>>, cancelled' \subseteq Events
      PROVE  QueueTypeOK' /\ QueuesOK'
  BY <1>0 DEF QueueTypeOK, QueuesOK
<1>1. ASSUME UNCHANGED queues
      PROVE  QueueTypeOK' /\ QueuesOK'
  BY <1>0, <1>1 DEF queues, QueueTypeOK
<1>2. ASSUME NEW t \in EThreads, Loop(t) \/ Timeout(t) \/ PollTimeout(t)
      PROVE  QueueTypeOK' /\ QueuesOK'
  <2>1. CASE Process(t)
    BY <2>1, ProcessKeeps
  <2>2. CASE PopAll(t) \/ Peek(t) \/ EndNetio(t)
    BY <2>2, TakeAllKeeps DEF PopAll, Peek, EndNetio
  <2>3. CASE EndRun(t) \/ EndTimers(t) \/ FlushOne(t) \/ FlushEnd(t)
    BY <1>1, <2>3 DEF EndRun, EndTimers, FlushOne, FlushEnd
  <2>4. CASE Acquire(t) \/ Test(t) \/ Wait(t) \/ EndDrain(t) \/ PollSignalled(t)
    BY <1>1, <2>4 DEF Acquire, Test, Wait, EndDrain, PollSignalled
  <2>5. CASE Timeout(t) \/ PollTimeout(t)
    BY <1>1, <2>5 DEF Timeout, PollTimeout
  <2> QED
    BY <1>2, <2>1, <2>2, <2>3, <2>4, <2>5 DEF Loop
<1>3. ASSUME NEW t \in EThreads, NEW q \in EThreads, NEW e \in Events, NEW f \in BOOLEAN,
             Enqueue(t, q, e, f)
      PROVE  QueueTypeOK' /\ QueuesOK'
  <2>1. Push(q, e, f /\ q # t) /\ (f /\ q # t) \in BOOLEAN
    BY <1>3 DEF Enqueue
  <2> QED
    BY <2>1, PushKeeps
<1>4. ASSUME NEW t \in EThreads, NEW e \in Events, EnqueueLocal(t, e)
      PROVE  QueueTypeOK' /\ QueuesOK'
  BY <1>4, LocalKeeps
<1>5. ASSUME NEW x \in Externals, NEW q \in EThreads, NEW e \in Events, NEW f \in BOOLEAN,
             ExternalPush(x, q, e, f)
      PROVE  QueueTypeOK' /\ QueuesOK'
  BY <1>5, PushKeeps DEF ExternalPush
<1>6. ASSUME NEW x \in Externals, ExternalSignal(x)
      PROVE  QueueTypeOK' /\ QueuesOK'
  BY <1>1, <1>6 DEF ExternalSignal
<1>7. ASSUME NEW e \in Events, Cancel(e)
      PROVE  QueueTypeOK' /\ QueuesOK'
  BY <1>0, <1>7 DEF Cancel, QueueTypeOK
<1>8. CASE UNCHANGED vars
  BY <1>1, <1>8 DEF vars, queues
<1> QED
  BY <1>2, <1>3, <1>4, <1>5, <1>6, <1>7, <1>8 DEF Next

-----------------------------------------------------------------------------
(* The tables of signals                                                   *)

\* Only the place of some threads in their loops changes, none of them to or
\* from a flush or to the wait.
LEMMA PlacesChange ==
  ASSUME SignalTypeOK, TablesOK, UNCHANGED <<sig_e, nsig, fl>>, pc' \in [EThreads -> Places],
         \A t \in EThreads : pc'[t] = pc[t] \/
           (/\ pc'[t] # "flush" => fl[t] = 0
            /\ pc'[t] \in {"acquire", "locked", "empty", "wait"} => nsig[t] = 0)
  PROVE  TablesOK'
<1> SUFFICES ASSUME NEW t \in EThreads PROVE TableInv(t)'
  BY DEF TablesOK
<1>1. TableInv(t)
  BY DEF TablesOK
<1> QED
  BY <1>1 DEF TableInv

\* The tables and the places of every thread are kept right.
LEMMA TablesKept ==
  ASSUME SignalTypeOK, TablesOK, [Next]_vars
  PROVE  SignalTypeOK' /\ TablesOK'
<1> USE DEF Places
<1>0. N \in Nat /\ N # 0 /\ EThreads = 0 .. N - 1 /\ Pollers \subseteq EThreads
  BY ThreadsOK DEF EThreads
<1>1. ASSUME NEW t \in EThreads, NEW l \in Places, Goto(t, l), pc[t] # "flush",
             l \in {"acquire", "locked", "empty", "wait"} => nsig[t] = 0,
             UNCHANGED <<sig_e, nsig, fl, owes>>,
             evfd' \in [EThreads -> BOOLEAN], nlocal' \in [EThreads -> Nat]
      PROVE  SignalTypeOK' /\ TablesOK'
  <2>1. pc' \in [EThreads -> Places] /\ pc'[t] = l /\ \A u \in EThreads : u # t => pc'[u] = pc[u]
    BY <1>1 DEF SignalTypeOK, Goto
  <2>2. SignalTypeOK'
    BY <1>1, <2>1 DEF SignalTypeOK
  <2>3. fl[t] = 0
    BY <1>1 DEF TablesOK, TableInv
  <2> QED
    BY <1>1, <2>1, <2>2, <2>3, PlacesChange
<1>2. ASSUME UNCHANGED <<sig_e, nsig, evfd, pc, fl, owes>>, nlocal' \in [EThreads -> Nat]
      PROVE  SignalTypeOK' /\ TablesOK'
  BY <1>2 DEF SignalTypeOK, TablesOK, TableInv
<1>3. nlocal \in [EThreads -> Nat] /\ evfd \in [EThreads -> BOOLEAN]
  BY DEF SignalTypeOK
<1>4. ASSUME NEW t \in EThreads, Loop(t) \/ Timeout(t) \/ PollTimeout(t)
      PROVE  SignalTypeOK' /\ TablesOK'
  <2>0. TableInv(t)
    BY DEF TablesOK
  <2>1. CASE Process(t)
    BY <1>2, <1>3, <2>1 DEF Process, signals
  <2>2. CASE PopAll(t)
    BY <1>1, <1>3, <2>2 DEF PopAll, signals
  <2>3. CASE Peek(t)
    BY <1>1, <1>3, <2>3 DEF Peek, signals
  <2>4. CASE EndNetio(t)
    BY <1>1, <1>3, <2>4 DEF EndNetio, signals
  <2>5a. CASE EndRun(t)
    BY <1>1, <1>3, <2>5a DEF EndRun, signals
  <2>5. CASE EndTimers(t)
    <3> DEFINE l == IF nsig[t] > 0 THEN "flush" ELSE AfterFlush(t)
    <3>1. nsig[t] \in 0 .. N
      BY DEF SignalTypeOK
    <3>2. l \in Places /\ (l \in {"acquire", "locked", "empty", "wait"} => nsig[t] = 0)
      BY <1>0, <3>1 DEF AfterFlush
    <3>3. Goto(t, l) /\ pc[t] # "flush" /\ UNCHANGED <<sig_e, nsig, fl, owes, evfd, nlocal>>
      BY <2>5 DEF EndTimers, signals
    <3> HIDE DEF l
    <3> QED
      BY <1>1, <1>3, <3>2, <3>3
  <2>6. CASE FlushOne(t)
    <3> DEFINE k == fl[t]
               q == sig_e[t][k]
    <3>1. pc[t] = "flush" /\ k < nsig[t] /\ nsig[t] \in 0 .. N /\ k \in 0 .. N
      BY <2>6 DEF FlushOne, SignalTypeOK
    <3>2. k \in EThreads /\ q \in EThreads \cup {NULL} /\ k + 1 \in 0 .. N
      BY <1>0, <3>1 DEF SignalTypeOK
    <3>3. /\ sig_e' = [sig_e EXCEPT ![t][k] = NULL]
          /\ fl' = [fl EXCEPT ![t] = k + 1]
          /\ nsig' = nsig /\ owes' = owes /\ nlocal' = nlocal
      BY <2>6 DEF FlushOne
    <3>4. /\ pc' \in [EThreads -> Places]
          /\ evfd' \in [EThreads -> BOOLEAN]
          /\ \A u \in EThreads : pc'[u] = pc[u] \/ (pc[u] = "wait" /\ pc'[u] = "popall")
      <4>1. CASE q = NULL
        BY <2>6, <4>1 DEF FlushOne, SignalTypeOK
      <4>2. CASE q # NULL
        <5>1. Signal(q) /\ SignalHook({q}) /\ q \in EThreads
          BY <2>6, <3>2, <4>2 DEF FlushOne
        <5>2. evfd' \in [EThreads -> BOOLEAN]
          BY <1>3, <5>1 DEF SignalHook
        <5> QED
          BY <5>1, <5>2 DEF Signal, SignalTypeOK
      <4> QED
        BY <4>1, <4>2
    <3>5. SignalTypeOK'
      BY <3>2, <3>3, <3>4 DEF SignalTypeOK
    <3>6. ASSUME NEW u \in EThreads PROVE TableInv(u)'
      <4>1. TableInv(u)
        BY DEF TablesOK
      <4>2. CASE u # t
        <5>1. sig_e'[u] = sig_e[u] /\ fl'[u] = fl[u]
          BY <3>3, <4>2 DEF SignalTypeOK
        <5> QED
          BY <3>3, <3>4, <4>1, <5>1 DEF TableInv
      <4>3. CASE u = t
        <5>1. sig_e'[t] = [sig_e[t] EXCEPT ![k] = NULL] /\ fl'[t] = k + 1 /\ pc'[t] = "flush"
          BY <3>1, <3>3, <3>4 DEF SignalTypeOK
        <5>2. sig_e'[t][k] = NULL /\ \A i \in EThreads : i # k => sig_e'[t][i] = sig_e[t][i]
          BY <3>2, <5>1 DEF SignalTypeOK
        <5>3. \A i \in EThreads : i < k + 1 => i < k \/ i = k
          BY <1>0, <3>1
        <5> QED
          BY <2>0, <3>3, <4>3, <5>1, <5>2, <5>3 DEF TableInv
      <4> QED
        BY <4>2, <4>3
    <3> QED
      BY <3>5, <3>6 DEF TablesOK
  <2>7. CASE FlushEnd(t)
    <3>1. /\ pc[t] = "flush" /\ fl[t] >= nsig[t]
          /\ nsig' = [nsig EXCEPT ![t] = 0] /\ fl' = [fl EXCEPT ![t] = 0]
          /\ pc' = [pc EXCEPT ![t] = AfterFlush(t)]
          /\ UNCHANGED <<sig_e, evfd, owes, nlocal>>
      BY <2>7 DEF FlushEnd, Goto
    <3>2. AfterFlush(t) \in Places /\ AfterFlush(t) # "flush"
      BY DEF AfterFlush
    <3>3. SignalTypeOK'
      <4> HIDE DEF Places
      <4>1. pc' \in [EThreads -> Places]
        BY <3>1, <3>2 DEF SignalTypeOK
      <4>2. nsig' \in [EThreads -> 0 .. N] /\ fl' \in [EThreads -> 0 .. N]
        BY <1>0, <3>1 DEF SignalTypeOK
      <4> QED
        BY <3>1, <4>1, <4>2 DEF SignalTypeOK
    <3>4. ASSUME NEW u \in EThreads PROVE TableInv(u)'
      <4>1. TableInv(u)
        BY DEF TablesOK
      <4>2. CASE u # t
        <5>1. nsig'[u] = nsig[u] /\ fl'[u] = fl[u] /\ pc'[u] = pc[u]
          BY <3>1, <4>2 DEF SignalTypeOK
        <5> QED
          BY <3>1, <4>1, <5>1 DEF TableInv
      <4>3. CASE u = t
        <5>1. nsig'[t] = 0 /\ fl'[t] = 0 /\ pc'[t] = AfterFlush(t) /\ sig_e' = sig_e
          BY <3>1 DEF SignalTypeOK
        <5>2. fl[t] \in Int /\ nsig[t] \in Int /\ \A i \in EThreads : i \in Int
          BY <1>0 DEF SignalTypeOK
        <5>3. \A i \in EThreads : i < fl[t] \/ i >= nsig[t]
          BY <3>1, <5>2
        <5>4. \A i \in EThreads : sig_e[t][i] = NULL
          BY <2>0, <5>3 DEF TableInv
        <5>5. \A i \in EThreads : ~(i < 0)
          BY <1>0
        <5> QED
          BY <3>2, <4>3, <5>1, <5>4, <5>5 DEF TableInv
      <4> QED
        BY <4>2, <4>3
    <3> QED
      BY <3>3, <3>4 DEF TablesOK
  <2>8. CASE Acquire(t)
    BY <1>1, <1>3, <2>0, <2>8 DEF Acquire, signals, TableInv
  <2>9. CASE Test(t)
    <3> DEFINE l == IF al[t] = <<>> THEN "empty" ELSE "popall"
    <3>1. Goto(t, l) /\ pc[t] = "locked" /\ UNCHANGED <<sig_e, nsig, fl, owes, evfd, nlocal>>
      BY <2>9 DEF Test, signals
    <3>2. l \in Places /\ nsig[t] = 0
      BY <2>0, <3>1 DEF TableInv
    <3> HIDE DEF l
    <3> QED
      BY <1>1, <1>3, <3>1, <3>2
  <2>10. CASE Wait(t)
    BY <1>1, <1>3, <2>0, <2>10 DEF Wait, signals, TableInv
  <2>11. CASE EndDrain(t)
    BY <1>1, <1>3, <2>11 DEF EndDrain, signals
  <2>12. CASE PollSignalled(t)
    <3>1. evfd' \in [EThreads -> BOOLEAN]
      BY <1>3, <2>12 DEF PollSignalled
    <3> QED
      BY <1>1, <1>3, <2>12, <3>1 DEF PollSignalled
  <2>13. CASE Timeout(t) \/ PollTimeout(t)
    BY <1>1, <1>3, <2>13 DEF Timeout, PollTimeout, signals
  <2> QED
    BY <1>4, <2>1, <2>2, <2>3, <2>4, <2>5, <2>5a, <2>6, <2>7, <2>8, <2>9, <2>10, <2>11, <2>12, <2>13 DEF Loop
<1>5. ASSUME NEW t \in EThreads, NEW q \in EThreads, NEW e \in Events, NEW f \in BOOLEAN,
             Enqueue(t, q, e, f)
      PROVE  SignalTypeOK' /\ TablesOK'
  <2>0. pc[t] \in {"run", "timers", "drain", "netio"} /\ UNCHANGED <<pc, fl, nlocal, owes>>
    BY <1>5 DEF Enqueue
  <2>1. CASE al[q] = <<>> /\ q # t
    <3>1. NoteSignal(t, q) /\ SignalHook(IF f THEN {q} ELSE {})
      BY <1>5, <2>1 DEF Enqueue
    <3>2. TableInv(t) /\ fl[t] = 0
      BY <2>0 DEF TablesOK, TableInv
    <3>3. /\ sig_e' \in [EThreads -> [EThreads -> EThreads \cup {NULL}]]
          /\ nsig' \in [EThreads -> 0 .. N]
          /\ \A u \in EThreads : u # t => sig_e'[u] = sig_e[u] /\ nsig'[u] = nsig[u]
          /\ \A i \in EThreads : i >= nsig'[t] => sig_e'[t][i] = NULL
          /\ nsig'[t] = N => \A i \in EThreads : sig_e'[t][i] \in {i, NULL}
      BY <3>1, <3>2, NoteSignalAdds
    <3>4. evfd' \in [EThreads -> BOOLEAN]
      BY <1>3, <3>1 DEF SignalHook
    <3>5. SignalTypeOK'
      BY <2>0, <3>3, <3>4 DEF SignalTypeOK
    <3>6. ASSUME NEW u \in EThreads PROVE TableInv(u)'
      <4>1. TableInv(u)
        BY DEF TablesOK
      <4>2. CASE u # t
        BY <2>0, <3>3, <4>1, <4>2 DEF TableInv
      <4>3. CASE u = t
        <5>1. \A i \in EThreads : ~(i < 0)
          BY <1>0
        <5> QED
          BY <2>0, <3>2, <3>3, <4>3, <5>1 DEF TableInv
      <4> QED
        BY <4>2, <4>3
    <3> QED
      BY <3>5, <3>6 DEF TablesOK
  <2>2. CASE ~(al[q] = <<>> /\ q # t)
    BY <1>2, <1>3, <1>5, <2>0, <2>2 DEF Enqueue
  <2> QED
    BY <2>1, <2>2
<1>6. ASSUME NEW t \in EThreads, NEW e \in Events, EnqueueLocal(t, e)
      PROVE  SignalTypeOK' /\ TablesOK'
  <2>1. nlocal' \in [EThreads -> Nat]
    BY <1>3, <1>6 DEF EnqueueLocal
  <2> QED
    BY <1>2, <1>6, <2>1 DEF EnqueueLocal, signals
<1>7. ASSUME NEW x \in Externals, NEW q \in EThreads, NEW e \in Events, NEW f \in BOOLEAN,
             ExternalPush(x, q, e, f)
      PROVE  SignalTypeOK' /\ TablesOK'
  <2>1. UNCHANGED <<sig_e, nsig, evfd, pc, fl, nlocal>>
    BY <1>7 DEF ExternalPush
  <2>2. owes' \in [Externals -> {NULL} \cup [to : EThreads, hook : BOOLEAN]]
    BY <1>7 DEF ExternalPush, SignalTypeOK
  <2> QED
    BY <2>1, <2>2 DEF SignalTypeOK, TablesOK, TableInv
<1>8. ASSUME NEW x \in Externals, ExternalSignal(x)
      PROVE  SignalTypeOK' /\ TablesOK'
  <2>1. UNCHANGED <<sig_e, nsig, fl, nlocal>> /\ Signal(owes[x].to) /\ owes[x] # NULL
    BY <1>8 DEF ExternalSignal
  <2>2. owes' \in [Externals -> {NULL} \cup [to : EThreads, hook : BOOLEAN]]
    BY <1>8 DEF ExternalSignal, SignalTypeOK
  <2>3. evfd' \in [EThreads -> BOOLEAN]
    BY <1>3, <1>8 DEF ExternalSignal, SignalHook
  <2>4. owes[x].to \in EThreads
    BY <2>1 DEF SignalTypeOK
  <2>5. /\ pc' \in [EThreads -> Places]
        /\ \A u \in EThreads : pc'[u] = pc[u] \/ (pc[u] = "wait" /\ pc'[u] = "popall")
    BY <2>1, <2>4 DEF Signal, SignalTypeOK
  <2>6. SignalTypeOK'
    BY <2>1, <2>2, <2>3, <2>5 DEF SignalTypeOK
  <2>7. \A u \in EThreads : pc[u] = "wait" => fl[u] = 0
    BY DEF TablesOK, TableInv
  <2>8. TablesOK'
    BY <2>1, <2>5, <2>7, PlacesChange
  <2> QED
    BY <2>6, <2>8
<1>9. ASSUME NEW e \in Events, Cancel(e)
      PROVE  SignalTypeOK' /\ TablesOK'
  BY <1>2, <1>3, <1>9 DEF Cancel, signals
<1>10. CASE UNCHANGED vars
  BY <1>2, <1>3, <1>10 DEF vars
<1> QED
  BY <1>4, <1>5, <1>6, <1>7, <1>8, <1>9, <1>10 DEF Next

-----------------------------------------------------------------------------
(* The theorems about the queue and the tables                             *)

\* The invariant holds initially.
LEMMA InitInv == Init => Inv
<1> SUFFICES ASSUME Init PROVE Inv
  OBVIOUS
<1> USE DEF Init
<1>1. N \in Nat /\ N # 0 /\ EThreads = 0 .. N - 1 /\ \A i \in EThreads : i \in Nat
  BY ThreadsOK DEF EThreads
<1>2. QueueTypeOK
  BY DEF QueueTypeOK
<1>3. SignalTypeOK
  BY <1>1 DEF SignalTypeOK, Places
<1>4. TablesOK
  BY <1>1 DEF TablesOK, TableInv
<1>5. QueueOK(<<>>, <<>>, <<>>)
  <2>1. Reverse(<<>>) = <<>> /\ IsInjective(<<>>) /\ <<>> \o <<>> = <<>>
    BY DEF Reverse, IsInjective
  <2> QED
    BY <2>1, KeepEmpty, ToSetEmpty DEF QueueOK, Ordered
<1>6. QueuesOK
  BY <1>5 DEF QueuesOK
<1> QED
  BY <1>2, <1>3, <1>4, <1>6 DEF Inv, TypeOK

\* The invariant is inductive.
THEOREM Inductive == Spec => []Inv
<1>1. Inv /\ [Next]_vars => Inv'
  BY QueuesKept, TablesKept DEF Inv, TypeOK
<1> QED
  BY <1>1, InitInv, PTL DEF Spec

\* Type correctness of the queue, the tables of signals and the loop.
THEOREM TypeCorrect == Spec => []TypeOK
<1>1. Inv => TypeOK
  BY DEF Inv
<1> QED
  BY <1>1, Inductive, PTL

\* Events enqueued by others reach the local queue in their order, for any number
\* of events and producers and whichever of them are cancelled meanwhile.
THEOREM EventsStayInOrder == Spec => []InOrder
<1>1. Inv => InOrder
  BY DEF Inv, QueuesOK, QueueOK, Ordered, InOrder
<1> QED
  BY <1>1, Inductive, PTL

\* A table of signals never has more entries than slots, and once it is a map,
\* every thread in it is in its own slot.
THEOREM TableIsMap == Spec => []TableOK
<1>1. Inv => TableOK
  <2>1. Inv => \A t \in EThreads : nsig[t] <= N
    BY ThreadsOK DEF Inv, TypeOK, SignalTypeOK
  <2>2. Inv => \A t \in EThreads : nsig[t] = N => \A i \in EThreads : sig_e[t][i] \in {i, NULL}
    BY DEF Inv, TablesOK, TableInv
  <2> QED
    BY <2>1, <2>2 DEF TableOK
<1> QED
  BY <1>1, Inductive, PTL

\* The conversion keeps the threads noted, wherever it happens.
THEOREM ConversionKeeps == Spec => []DirectMapKeeps
<1>1. Inv => DirectMapKeeps
  <2> SUFFICES ASSUME Inv, NEW t \in EThreads, nsig[t] \in 1 .. N - 1,
                      NEW n \in nsig[t] .. MaxTable - 1, NEW v \in [0 .. n - 1 -> 0 .. n]
               PROVE  DirectMap([i \in 0 .. n |-> IF i < n THEN v[i] ELSE NULL], n)
                        = [i \in 0 .. n |-> IF i \in Range(v) THEN i ELSE NULL]
    BY DEF DirectMapKeeps
  <2> DEFINE s == [i \in 0 .. n |-> IF i < n THEN v[i] ELSE NULL]
  <2>1. n \in Nat /\ n \in 0 .. n + 1 /\ NULL \notin Nat
    BY ThreadsOK DEF MaxTable
  <2>2. \A i \in 0 .. n : i < n => i \in 0 .. n - 1
    BY <2>1
  <2>3. s \in Tables(n)
    BY <2>1, <2>2 DEF Tables, Slots
  <2>4. \A j \in 0 .. n : j >= n => s[j] \in {j, NULL}
    BY <2>1
  <2>5. Entries(s) = Range(v)
    <3>1. \A y : y \in Entries(s) <=> y # NULL /\ \E j \in 0 .. n : y = s[j]
      BY DEF Entries
    <3>2. \A y : y \in Range(v) <=> \E j \in 0 .. n - 1 : y = v[j]
      BY DEF Range
    <3>3. \A j \in 0 .. n - 1 : j \in 0 .. n /\ j < n /\ v[j] # NULL
      BY <2>1
    <3>4. \A j \in 0 .. n : s[j] = IF j < n THEN v[j] ELSE NULL
      OBVIOUS
    <3> HIDE DEF s
    <3>5. ASSUME NEW y PROVE y \in Entries(s) <=> y \in Range(v)
      BY <2>2, <3>1, <3>2, <3>3, <3>4
    <3> QED
      BY <3>5
  <2> HIDE DEF s
  <2>6. DirectMap(s, n) = [j \in 0 .. n |-> IF j \in Entries(s) THEN j ELSE NULL]
    BY <2>1, <2>3, <2>4, DirectMapCorrect
  <2> QED
    BY <2>5, <2>6 DEF s
<1> QED
  BY <1>1, Inductive, PTL

-----------------------------------------------------------------------------
(* The wakeup protocol                                                     *)

\* A thread that is asleep, or about to be, owes nobody a signal.  Without
\* this the one who owes the signal might itself be asleep.
DebtsPaid == \A t \in EThreads : Mode[t] # "awake" => Notes[t] = {}

WInv == Wakeup!WTypeOK /\ DebtsPaid /\ Wakeup!WNoLostWakeup

\* The invariant holds initially.
LEMMA WInitInv == Wakeup!WInit => WInv
BY DEF Wakeup!WInit, WInv, Wakeup!WTypeOK, DebtsPaid, Wakeup!WNoLostWakeup

\* The types are preserved.
LEMMA WTypeStep == Wakeup!WTypeOK /\ [Wakeup!WNext]_(Wakeup!wvars) => Wakeup!WTypeOK'
<1> SUFFICES ASSUME Wakeup!WTypeOK, [Wakeup!WNext]_(Wakeup!wvars) PROVE Wakeup!WTypeOK'
  OBVIOUS
<1> USE DEF Wakeup!WTypeOK
<1>1. ASSUME NEW t \in EThreads, Wakeup!WLock(t) \/ Wakeup!WTest(t) \/ Wakeup!WSleep(t) \/ Wakeup!WTimeout(t) \/ Wakeup!WTake(t)
      PROVE  Wakeup!WTypeOK'
  BY <1>1 DEF Wakeup!WLock, Wakeup!WTest, Wakeup!WSleep, Wakeup!WTimeout, Wakeup!WTake
<1>2. ASSUME NEW t \in EThreads, NEW q \in EThreads, Wakeup!WPost(t, q)
      PROVE  Wakeup!WTypeOK'
  BY <1>2 DEF Wakeup!WPost
<1>3. ASSUME NEW t \in EThreads, NEW q \in EThreads, Wakeup!WFlush(t, q)
      PROVE  Wakeup!WTypeOK'
  BY <1>3 DEF Wakeup!WFlush, Wakeup!WSignal
<1>4. ASSUME NEW x \in Externals, Wakeup!WExternalSignal(x)
      PROVE  Wakeup!WTypeOK'
  BY <1>4 DEF Wakeup!WExternalSignal, Wakeup!WSignal
<1>5. ASSUME NEW x \in Externals, NEW q \in EThreads, Wakeup!WExternalPost(x, q)
      PROVE  Wakeup!WTypeOK'
  BY <1>5 DEF Wakeup!WExternalPost
<1>6. CASE UNCHANGED Wakeup!wvars
  BY <1>6 DEF Wakeup!wvars
<1> QED
  BY <1>1, <1>2, <1>3, <1>4, <1>5, <1>6 DEF Wakeup!WNext

\* A sleeper's debts stay paid: only a thread that is awake makes a note.
LEMMA WDebtsStep == WInv /\ [Wakeup!WNext]_(Wakeup!wvars) => DebtsPaid'
<1> SUFFICES ASSUME WInv, [Wakeup!WNext]_(Wakeup!wvars) PROVE DebtsPaid'
  OBVIOUS
<1> USE DEF WInv, Wakeup!WTypeOK, DebtsPaid
<1>1. ASSUME NEW t \in EThreads, Wakeup!WLock(t) \/ Wakeup!WTest(t) \/ Wakeup!WSleep(t) \/ Wakeup!WTimeout(t) \/ Wakeup!WTake(t)
      PROVE  DebtsPaid'
  BY <1>1 DEF Wakeup!WLock, Wakeup!WTest, Wakeup!WSleep, Wakeup!WTimeout, Wakeup!WTake
<1>2. ASSUME NEW t \in EThreads, NEW q \in EThreads, Wakeup!WPost(t, q)
      PROVE  DebtsPaid'
  BY <1>2 DEF Wakeup!WPost
<1>3. ASSUME NEW t \in EThreads, NEW q \in EThreads, Wakeup!WFlush(t, q)
      PROVE  DebtsPaid'
  BY <1>3 DEF Wakeup!WFlush, Wakeup!WSignal
<1>4. ASSUME NEW x \in Externals, Wakeup!WExternalSignal(x)
      PROVE  DebtsPaid'
  BY <1>4 DEF Wakeup!WExternalSignal, Wakeup!WSignal
<1>5. ASSUME NEW x \in Externals, NEW q \in EThreads, Wakeup!WExternalPost(x, q)
      PROVE  DebtsPaid'
  BY <1>5 DEF Wakeup!WExternalPost
<1>6. CASE UNCHANGED Wakeup!wvars
  BY <1>6 DEF Wakeup!wvars
<1> QED
  BY <1>1, <1>2, <1>3, <1>4, <1>5, <1>6 DEF Wakeup!WNext

\* A wakeup is never lost in one step.
LEMMA WWakeupStep == Wakeup!SetsOK /\ WInv /\ [Wakeup!WNext]_(Wakeup!wvars) => Wakeup!WNoLostWakeup'
<1> SUFFICES ASSUME Wakeup!SetsOK, WInv, [Wakeup!WNext]_(Wakeup!wvars),
                    NEW q \in EThreads, Mode'[q] \in {"decided", "asleep"}, NonEmpty'[q]
             PROVE  \/ \E t \in EThreads : q \in Notes'[t] /\ Mode'[t] = "awake"
                    \/ \E x \in Externals : Debt'[x] = q
  BY DEF Wakeup!WNoLostWakeup
<1> DEFINE Covered == \/ \E t \in EThreads : q \in Notes[t] /\ Mode[t] = "awake"
                      \/ \E x \in Externals : Debt[x] = q
           Goal == \/ \E t \in EThreads : q \in Notes'[t] /\ Mode'[t] = "awake"
                   \/ \E x \in Externals : Debt'[x] = q
<1>0. Mode[q] \in {"decided", "asleep"} /\ NonEmpty[q] => Covered
  BY DEF WInv, Wakeup!WNoLostWakeup
<1> USE DEF WInv, Wakeup!WTypeOK
<1>1. ASSUME NEW t \in EThreads, Wakeup!WLock(t)
      PROVE  Goal
  BY <1>0, <1>1 DEF Wakeup!WLock
<1>2. ASSUME NEW t \in EThreads, Wakeup!WTest(t) \/ Wakeup!WSleep(t)
      PROVE  Goal
  BY <1>0, <1>2 DEF Wakeup!WTest, Wakeup!WSleep, DebtsPaid
<1>3. ASSUME NEW t \in EThreads, Wakeup!WTimeout(t) \/ Wakeup!WTake(t)
      PROVE  Goal
  BY <1>0, <1>3 DEF Wakeup!WTimeout, Wakeup!WTake
<1>4. ASSUME NEW t \in EThreads, NEW p \in EThreads, Wakeup!WPost(t, p)
      PROVE  Goal
  <2>1. Mode'[q] = Mode[q] /\ Mode' = Mode /\ Debt' = Debt
    BY <1>4 DEF Wakeup!WPost
  <2>2. CASE NonEmpty[q]
    BY <1>0, <1>4, <2>1, <2>2 DEF Wakeup!WPost
  <2>3. CASE ~NonEmpty[q]
    <3>1. p = q /\ q # t
      BY <1>4, <2>1, <2>3 DEF Wakeup!WPost
    <3>2. q \in Notes'[t] /\ Mode'[t] = "awake"
      BY <1>4, <2>1, <2>3, <3>1 DEF Wakeup!WPost
    <3> QED
      BY <3>2
  <2> QED
    BY <2>2, <2>3
<1>5. ASSUME NEW t \in EThreads, NEW p \in EThreads, Wakeup!WFlush(t, p)
      PROVE  Goal
  <2>1. p # q /\ Mode[q] \in {"decided", "asleep"} /\ NonEmpty[q] /\ Debt' = Debt
    BY <1>5 DEF Wakeup!WFlush, Wakeup!WSignal
  <2>2. \A u \in EThreads : Mode[u] = "awake" => Mode'[u] = "awake"
    BY <1>5 DEF Wakeup!WFlush, Wakeup!WSignal
  <2>3. \A u \in EThreads : q \in Notes[u] => q \in Notes'[u]
    BY <1>5, <2>1 DEF Wakeup!WFlush
  <2> QED
    BY <1>0, <2>1, <2>2, <2>3
<1>6. ASSUME NEW x \in Externals, Wakeup!WExternalSignal(x)
      PROVE  Goal
  <2>1. Debt[x] # q /\ Mode[q] \in {"decided", "asleep"} /\ NonEmpty[q] /\ Notes' = Notes
    BY <1>6 DEF Wakeup!WExternalSignal, Wakeup!WSignal
  <2>2. \A u \in EThreads : Mode[u] = "awake" => Mode'[u] = "awake"
    BY <1>6 DEF Wakeup!WExternalSignal, Wakeup!WSignal
  <2>3. \A y \in Externals : Debt[y] = q => Debt'[y] = q
    BY <1>6, <2>1 DEF Wakeup!WExternalSignal
  <2> QED
    BY <1>0, <2>1, <2>2, <2>3
<1>7. ASSUME NEW x \in Externals, NEW p \in EThreads, Wakeup!WExternalPost(x, p)
      PROVE  Goal
  <2>1. Mode' = Mode /\ Notes' = Notes
    BY <1>7 DEF Wakeup!WExternalPost
  <2>2. CASE NonEmpty[q]
    <3>1. \A y \in Externals : Debt[y] = q => Debt'[y] = q
      BY <1>7 DEF Wakeup!WExternalPost, Wakeup!SetsOK
    <3> QED
      BY <1>0, <2>1, <2>2, <3>1
  <2>3. CASE ~NonEmpty[q]
    BY <1>7, <2>3 DEF Wakeup!WExternalPost
  <2> QED
    BY <2>2, <2>3
<1>8. CASE UNCHANGED Wakeup!wvars
  BY <1>0, <1>8 DEF Wakeup!wvars
<1> QED
  BY <1>1, <1>2, <1>3, <1>4, <1>5, <1>6, <1>7, <1>8 DEF Wakeup!WNext

\* The invariant is inductive.
THEOREM WInductive ==
  ASSUME Wakeup!SetsOK
  PROVE  Wakeup!WSpec => []WInv
<1>1. Wakeup!WInit => WInv
  BY WInitInv
<1>2. WInv /\ [Wakeup!WNext]_(Wakeup!wvars) => WInv'
  BY Wakeup!SetsOK, WTypeStep, WDebtsStep, WWakeupStep DEF WInv
<1> QED
  BY <1>1, <1>2, PTL DEF Wakeup!WSpec

\* Type correctness of the wakeup protocol.
THEOREM WTypeCorrect ==
  ASSUME Wakeup!SetsOK
  PROVE  Wakeup!WSpec => []Wakeup!WTypeOK
<1>1. WInv => Wakeup!WTypeOK
  BY DEF WInv
<1> QED
  BY <1>1, WInductive, PTL

\* However many threads schedule events on each other, no thread sleeps on an
\* event that nobody is about to tell it of.
THEOREM WakeupsAreNotLost ==
  ASSUME Wakeup!SetsOK
  PROVE  Wakeup!WSpec => []Wakeup!WNoLostWakeup
<1>1. WInv => Wakeup!WNoLostWakeup
  BY DEF WInv
<1> QED
  BY <1>1, WInductive, PTL

-----------------------------------------------------------------------------
(* The queue and the loop implement the protocol                           *)

\* The mode of a thread at place l.
ModeAt(l) == CASE l = "locked" -> "locked" [] l = "empty" -> "decided" [] l = "wait" -> "asleep"
               [] OTHER -> "awake"

\* The modes before and after a step, label by label.
LEMMA ModeIs ==
  /\ Mode = [q \in EThreads |-> ModeAt(pc[q])]
  /\ Mode' = [q \in EThreads |-> ModeAt(pc'[q])]
BY DEF Mode, ModeAt

\* What the modes stand for.
LEMMA ModeValues ==
  ASSUME NEW l
  PROVE  /\ ModeAt(l) = "locked" <=> l = "locked"
         /\ ModeAt(l) = "decided" <=> l = "empty"
         /\ ModeAt(l) = "asleep" <=> l = "wait"
         /\ ModeAt(l) = "awake" <=> l \notin {"locked", "empty", "wait"}
BY DEF ModeAt

\* One thread moves.
LEMMA ModeGoto ==
  ASSUME SignalTypeOK, NEW t \in EThreads, NEW l, Goto(t, l)
  PROVE  Mode' = [Mode EXCEPT ![t] = ModeAt(l)]
<1>1. pc'[t] = l /\ \A u \in EThreads : u # t => pc'[u] = pc[u]
  BY DEF Goto, SignalTypeOK
<1> QED
  BY <1>1, ModeIs

\* The mode does not change between two places where a thread is awake.
LEMMA ModeStays ==
  ASSUME SignalTypeOK, NEW t \in EThreads, NEW l, Goto(t, l),
         pc[t] \notin {"locked", "empty", "wait"}, l \notin {"locked", "empty", "wait"}
  PROVE  Mode' = Mode
<1>1. Mode[t] = "awake" /\ ModeAt(l) = "awake" /\ Mode \in [EThreads -> {ModeAt(pc[q]) : q \in EThreads}]
  BY ModeIs, ModeValues
<1>2. Mode' = [Mode EXCEPT ![t] = "awake"]
  BY <1>1, ModeGoto
<1> QED
  BY <1>1, <1>2

\* A signal wakes its thread.
LEMMA ModeSignal ==
  ASSUME SignalTypeOK, NEW q \in EThreads, Signal(q)
  PROVE  Wakeup!WSignal(q)
<1>1. /\ pc[q] \notin {"locked", "empty"}
      /\ pc'[q] \notin {"locked", "empty", "wait"}
      /\ \A u \in EThreads : u # q => pc'[u] = pc[u]
  BY DEF Signal, SignalTypeOK
<1>2. Mode[q] \notin {"locked", "decided"} /\ ModeAt(pc'[q]) = "awake"
  BY <1>1, ModeIs, ModeValues
<1>3. Mode' = [Mode EXCEPT ![q] = "awake"]
  BY <1>1, <1>2, ModeIs
<1> QED
  BY <1>2, <1>3 DEF Wakeup!WSignal

\* The notes are the tables.
LEMMA NotesIs ==
  ASSUME SignalTypeOK, TablesOK
  PROVE  Notes = [t \in EThreads |-> Entries(sig_e[t])]
<1>1. ASSUME NEW t \in EThreads PROVE Noted(t) = Entries(sig_e[t])
  <2>1. /\ sig_e[t] \in [EThreads -> EThreads \cup {NULL}] /\ nsig[t] \in 0 .. N
        /\ \A i \in EThreads : i >= nsig[t] => sig_e[t][i] = NULL
    BY DEF SignalTypeOK, TablesOK, TableInv
  <2> QED
    BY <2>1, UsedIsEntries DEF Noted
<1> QED
  BY <1>1 DEF Notes

\* After a step too, what a thread has noted is what its table has.
LEMMA NotesIsNext ==
  ASSUME SignalTypeOK', TablesOK'
  PROVE  Notes' = [t \in EThreads |-> Entries(sig_e'[t])]
<1>1. ASSUME NEW t \in EThreads PROVE Noted(t)' = Entries(sig_e'[t])
  <2>1. /\ sig_e'[t] \in [EThreads -> EThreads \cup {NULL}] /\ nsig'[t] \in 0 .. N
        /\ \A i \in EThreads : i >= nsig'[t] => sig_e'[t][i] = NULL
    BY DEF SignalTypeOK, TablesOK, TableInv
  <2> QED
    BY <2>1, UsedIsEntries DEF Noted
<1> QED
  BY <1>1 DEF Notes

\* The lists and the foreign threads.
LEMMA NonEmptyIs ==
  /\ NonEmpty = [q \in EThreads |-> al[q] # <<>>]
  /\ NonEmpty' = [q \in EThreads |-> al'[q] # <<>>]
BY DEF NonEmpty

\* Whom each foreign thread is about to signal, before and after a step.
LEMMA DebtIs ==
  /\ Debt = [x \in Externals |-> IF owes[x] = NULL THEN NULL ELSE owes[x].to]
  /\ Debt' = [x \in Externals |-> IF owes'[x] = NULL THEN NULL ELSE owes'[x].to]
BY DEF Debt

\* A push makes the list non-empty.
LEMMA NonEmptyPush ==
  ASSUME QueueTypeOK, NEW q \in EThreads, NEW e \in Events, NEW f, Push(q, e, f)
  PROVE  NonEmpty' = [NonEmpty EXCEPT ![q] = TRUE]
<1>1. al'[q] = <<e>> \o al[q] /\ \A u \in EThreads : u # q => al'[u] = al[u]
  BY DEF Push, QueueTypeOK
<1>2. al[q] \in Seq(Events)
  BY DEF QueueTypeOK
<1>3. <<e>> \o al[q] # <<>>
  BY <1>2
<1> QED
  BY <1>1, <1>3, NonEmptyIs

\* Taking the list makes it empty.
LEMMA NonEmptyTake ==
  ASSUME QueueTypeOK, NEW t \in EThreads, TakeAll(t)
  PROVE  NonEmpty' = [NonEmpty EXCEPT ![t] = FALSE]
<1>1. al'[t] = <<>> /\ \A u \in EThreads : u # t => al'[u] = al[u]
  BY DEF TakeAll, QueueTypeOK
<1> QED
  BY <1>1, NonEmptyIs

\* The initial state of the queue is one of the protocol.
LEMMA InitMaps == Init => Wakeup!WInit
<1> SUFFICES ASSUME Init PROVE Wakeup!WInit
  OBVIOUS
<1>1. NonEmpty = [q \in EThreads |-> FALSE]
  BY NonEmptyIs DEF Init
<1>2. Mode = [q \in EThreads |-> "awake"]
  <2>1. \A q \in EThreads : pc[q] = "run"
    BY DEF Init
  <2>2. ModeAt("run") = "awake"
    BY ModeValues
  <2> QED
    BY <2>1, <2>2, ModeIs
<1>3. Notes = [t \in EThreads |-> {}]
  <2>1. \A t \in EThreads : Entries(sig_e[t]) = {}
    BY DEF Init, Entries
  <2>2. SignalTypeOK /\ TablesOK
    BY InitInv DEF Inv, TypeOK
  <2> QED
    BY <2>1, <2>2, NotesIs
<1>4. Debt = [x \in Externals |-> NULL]
  BY DebtIs DEF Init
<1> QED
  BY <1>1, <1>2, <1>3, <1>4 DEF Wakeup!WInit

\* The table after flush_signals has been at slot k: the thread there is noted
\* still if it was noted twice.
LEMMA FlushedEntries ==
  ASSUME NEW s \in [EThreads -> EThreads \cup {NULL}], NEW k \in EThreads
  PROVE  Entries([s EXCEPT ![k] = NULL]) \in {Entries(s), Entries(s) \ {s[k]}}
<1> DEFINE r == [s EXCEPT ![k] = NULL]
<1>1. \A y : y \in Entries(s) <=> y # NULL /\ \E j \in EThreads : y = s[j]
  BY DEF Entries
<1>2. \A y : y \in Entries(r) <=> y # NULL /\ \E j \in EThreads : y = r[j]
  BY DEF Entries
<1>3. r[k] = NULL /\ \A j \in EThreads : j # k => r[j] = s[j]
  OBVIOUS
<1> HIDE DEF r
<1>4. CASE \E j \in EThreads : j # k /\ s[j] = s[k]
  <2>1. ASSUME NEW y PROVE y \in Entries(r) <=> y \in Entries(s)
    BY <1>1, <1>2, <1>3, <1>4
  <2>2. Entries(r) = Entries(s)
    BY <2>1
  <2> QED
    BY <2>2 DEF r
<1>5. CASE \A j \in EThreads : j # k => s[j] # s[k]
  <2>1. ASSUME NEW y PROVE y \in Entries(r) <=> y \in Entries(s) \ {s[k]}
    BY <1>1, <1>2, <1>3, <1>5
  <2>2. Entries(r) = Entries(s) \ {s[k]}
    BY <2>1
  <2> QED
    BY <2>2 DEF r
<1> QED
  BY <1>4, <1>5

\* A slot without a thread can be cleared.
LEMMA FlushedNull ==
  ASSUME NEW s \in [EThreads -> EThreads \cup {NULL}], NEW k \in EThreads, s[k] = NULL
  PROVE  [s EXCEPT ![k] = NULL] = s
OBVIOUS

\* Two tables of signals with the same entries.
LEMMA NotesUnchanged ==
  ASSUME SignalTypeOK, TablesOK, SignalTypeOK', TablesOK', sig_e' = sig_e
  PROVE  Notes' = Notes
BY NotesIs, NotesIsNext

\* A step of flush_signals pays a debt.
LEMMA FlushOneMaps ==
  ASSUME SignalTypeOK, TablesOK, SignalTypeOK', TablesOK', NEW t \in EThreads, FlushOne(t)
  PROVE  [Wakeup!WNext]_(Wakeup!wvars)
<1> DEFINE k == fl[t]
           s == sig_e[t]
           q == s[k]
<1>0. N \in Nat /\ EThreads = 0 .. N - 1 /\ NULL \notin Nat /\ NULL \notin EThreads
  BY ThreadsOK DEF EThreads
<1>1. /\ k \in EThreads /\ s \in [EThreads -> EThreads \cup {NULL}]
      /\ sig_e \in [EThreads -> [EThreads -> EThreads \cup {NULL}]]
  <2>1. k \in 0 .. N /\ nsig[t] \in 0 .. N /\ k < nsig[t]
    BY DEF SignalTypeOK, FlushOne
  <2> QED
    BY <1>0, <2>1 DEF SignalTypeOK
<1>2. sig_e' = [sig_e EXCEPT ![t] = [s EXCEPT ![k] = NULL]]
  BY <1>1 DEF FlushOne
<1>3. sig_e'[t] = [s EXCEPT ![k] = NULL] /\ \A u \in EThreads : u # t => sig_e'[u] = sig_e[u]
  BY <1>1, <1>2
<1>4. UNCHANGED <<al, owes>> /\ pc[t] = "flush"
  BY DEF FlushOne, queues
<1>5. NonEmpty' = NonEmpty /\ Debt' = Debt
  BY <1>4, NonEmptyIs, DebtIs
<1>6. Notes = [u \in EThreads |-> Entries(sig_e[u])] /\ Notes' = [u \in EThreads |-> Entries(sig_e'[u])]
  BY NotesIs, NotesIsNext
<1>7. CASE q = NULL
  <2>1. sig_e'[t] = s
    BY <1>1, <1>3, <1>7, FlushedNull
  <2>2. Notes' = Notes
    BY <1>3, <1>6, <2>1
  <2>3. Mode' = Mode
    <3>1. pc' = pc
      BY <1>7 DEF FlushOne
    <3> QED
      BY <3>1, ModeIs
  <2> QED
    BY <1>5, <2>2, <2>3 DEF Wakeup!wvars
<1>8. CASE q # NULL
  <2>1. q \in EThreads /\ Signal(q)
    BY <1>1, <1>8 DEF FlushOne
  <2>2. Wakeup!WSignal(q)
    BY <2>1, ModeSignal
  <2>3. Mode[t] = "awake"
    BY <1>4, ModeIs, ModeValues
  <2>4. q \in Notes[t]
    <3>1. q \in Entries(s)
      BY <1>1, <1>8 DEF Entries
    <3> QED
      BY <1>6, <3>1
  <2>5. Notes' \in {Notes, [Notes EXCEPT ![t] = @ \ {q}]}
    <3>1. Entries(sig_e'[t]) \in {Entries(s), Entries(s) \ {q}}
      BY <1>1, <1>3, FlushedEntries
    <3>2. CASE Entries(sig_e'[t]) = Entries(s)
      BY <1>3, <1>6, <3>2
    <3>3. CASE Entries(sig_e'[t]) = Entries(s) \ {q}
      <4>1. Notes' = [Notes EXCEPT ![t] = @ \ {q}]
        <5>1. Notes[t] = Entries(s)
          BY <1>6
        <5> HIDE DEF s, q
        <5> QED
          BY <1>3, <1>6, <3>3, <5>1
      <4> QED
        BY <4>1
    <3> QED
      BY <3>1, <3>2, <3>3
  <2>6. Wakeup!WFlush(t, q)
    BY <1>5, <2>2, <2>3, <2>4, <2>5 DEF Wakeup!WFlush
  <2> QED
    BY <2>1, <2>6 DEF Wakeup!WNext
<1> QED
  BY <1>7, <1>8

\* An enqueue by an event thread is a post of the protocol.
LEMMA EnqueueMaps ==
  ASSUME Inv, SignalTypeOK', TablesOK', NEW t \in EThreads, NEW q \in EThreads,
         NEW e \in Events, NEW f \in BOOLEAN, Enqueue(t, q, e, f)
  PROVE  Wakeup!WPost(t, q)
<1>1. SignalTypeOK /\ QueueTypeOK /\ TablesOK /\ TableInv(t)
  BY DEF Inv, TypeOK, TablesOK
<1>2. pc[t] \in {"run", "timers", "drain", "netio"} /\ UNCHANGED <<pc, owes>> /\ Push(q, e, f /\ q # t)
  BY DEF Enqueue
<1>3. Mode[t] = "awake" /\ Mode' = Mode /\ Debt' = Debt
  BY <1>2, ModeIs, ModeValues, DebtIs
<1>4. NonEmpty' = [NonEmpty EXCEPT ![q] = TRUE]
  <2> DEFINE g == f /\ q # t
  <2>1. Push(q, e, g)
    BY <1>2
  <2> HIDE DEF g
  <2> QED
    BY <1>1, <2>1, NonEmptyPush
<1>5. Notes = [u \in EThreads |-> Entries(sig_e[u])] /\ Notes' = [u \in EThreads |-> Entries(sig_e'[u])]
  BY <1>1, NotesIs, NotesIsNext
<1>6. NonEmpty[q] <=> al[q] # <<>>
  BY NonEmptyIs
<1>7. CASE NonEmpty[q] \/ q = t
  <2>1. sig_e' = sig_e
    BY <1>6, <1>7 DEF Enqueue
  <2>2. Notes' = Notes
    BY <1>5, <2>1
  <2> QED
    BY <1>3, <1>4, <1>7, <2>2 DEF Wakeup!WPost
<1>8. CASE ~(NonEmpty[q] \/ q = t)
  <2>1. NoteSignal(t, q) /\ fl[t] = 0
    BY <1>1, <1>2, <1>6, <1>8 DEF Enqueue, TableInv
  <2>2. /\ Entries(sig_e'[t]) = Entries(sig_e[t]) \cup {q}
        /\ \A u \in EThreads : u # t => sig_e'[u] = sig_e[u]
    BY <1>1, <2>1, NoteSignalAdds
  <2>3. Notes' = [Notes EXCEPT ![t] = @ \cup {q}]
    BY <1>5, <2>2
  <2> QED
    BY <1>3, <1>4, <1>8, <2>3 DEF Wakeup!WPost
<1> QED
  BY <1>7, <1>8

\* What a foreign thread does.
LEMMA ExternalMaps ==
  ASSUME Inv, SignalTypeOK', TablesOK', NEW x \in Externals
  PROVE  /\ \A q \in EThreads, e \in Events, f \in BOOLEAN :
              ExternalPush(x, q, e, f) => Wakeup!WExternalPost(x, q)
         /\ ExternalSignal(x) => Wakeup!WExternalSignal(x)
<1>0. SignalTypeOK /\ QueueTypeOK /\ TablesOK /\ NULL \notin EThreads
  BY ThreadsOK DEF Inv, TypeOK, EThreads
<1>1. owes \in [Externals -> {NULL} \cup [to : EThreads, hook : BOOLEAN]]
  BY <1>0 DEF SignalTypeOK
<1>2. NULL \notin [to : EThreads, hook : BOOLEAN]
  BY ThreadsOK
<1>3. Debt[x] = IF owes[x] = NULL THEN NULL ELSE owes[x].to
  BY DebtIs
<1>4. ASSUME NEW q \in EThreads, NEW e \in Events, NEW f \in BOOLEAN, ExternalPush(x, q, e, f)
      PROVE  Wakeup!WExternalPost(x, q)
  <2>1. /\ Push(q, e, f) /\ owes[x] = NULL /\ UNCHANGED <<sig_e, pc>>
        /\ owes' = [owes EXCEPT ![x] = IF al[q] = <<>> THEN [to |-> q, hook |-> f /\ q \in Pollers] ELSE NULL]
    BY <1>4 DEF ExternalPush
  <2>2. NonEmpty' = [NonEmpty EXCEPT ![q] = TRUE]
    BY <1>0, <2>1, NonEmptyPush
  <2>3. NonEmpty[q] <=> al[q] # <<>>
    BY NonEmptyIs
  <2>4. Mode' = Mode /\ Notes' = Notes
    BY <1>0, <2>1, ModeIs, NotesUnchanged
  <2>5. Debt' = [Debt EXCEPT ![x] = IF NonEmpty[q] THEN NULL ELSE q]
    <3> DEFINE d == [to |-> q, hook |-> f /\ q \in Pollers]
    <3>1. d \in [to : EThreads, hook : BOOLEAN] /\ d.to = q
      BY <1>4
    <3>2. d # NULL
      BY <1>2, <3>1
    <3>3. owes' = [owes EXCEPT ![x] = IF al[q] = <<>> THEN d ELSE NULL]
      BY <2>1
    <3> HIDE DEF d
    <3>4. \A y \in Externals : y # x => owes'[y] = owes[y]
      BY <1>1, <3>3
    <3>5. CASE NonEmpty[q]
      <4>1. owes'[x] = NULL
        BY <1>1, <2>3, <3>3, <3>5
      <4> QED
        BY <3>4, <3>5, <4>1, DebtIs
    <3>6. CASE ~NonEmpty[q]
      <4>1. owes'[x] = d
        BY <1>1, <2>3, <3>3, <3>6
      <4> QED
        BY <3>1, <3>2, <3>4, <3>6, <4>1, DebtIs
    <3> QED
      BY <3>5, <3>6
  <2> QED
    BY <1>3, <2>1, <2>2, <2>4, <2>5 DEF Wakeup!WExternalPost
<1>5. ASSUME ExternalSignal(x)
      PROVE  Wakeup!WExternalSignal(x)
  <2>1. /\ owes[x] # NULL /\ Signal(owes[x].to) /\ UNCHANGED <<sig_e, al>>
        /\ owes' = [owes EXCEPT ![x] = NULL]
    BY <1>5 DEF ExternalSignal, queues
  <2> DEFINE q == owes[x].to
  <2>2. q \in EThreads /\ Debt[x] = q
    BY <1>1, <1>3, <2>1
  <2>3. Wakeup!WSignal(Debt[x])
    <3>1. Signal(q)
      BY <2>1
    <3> HIDE DEF q
    <3>2. Wakeup!WSignal(q)
      BY <1>0, <2>2, <3>1, ModeSignal
    <3> QED
      BY <2>2, <3>2
  <2>4. Debt' = [Debt EXCEPT ![x] = NULL]
    BY <1>1, <2>1, DebtIs
  <2>5. NonEmpty' = NonEmpty /\ Notes' = Notes
    BY <1>0, <2>1, NonEmptyIs, NotesUnchanged
  <2> QED
    BY <1>0, <2>2, <2>3, <2>4, <2>5 DEF Wakeup!WExternalSignal
<1> QED
  BY <1>4, <1>5

\* The steps of a thread's loop.
LEMMA LoopMaps ==
  ASSUME Inv, SignalTypeOK', TablesOK', NEW t \in EThreads, Loop(t) \/ Timeout(t) \/ PollTimeout(t)
  PROVE  [Wakeup!WNext]_(Wakeup!wvars)
<1>0. SignalTypeOK /\ QueueTypeOK /\ TablesOK /\ TableInv(t)
  BY DEF Inv, TypeOK, TablesOK
<1>1. \A l \in {"run", "timers", "flush", "acquire", "popall", "peek", "drain", "poll", "netio"} :
        ModeAt(l) = "awake" /\ l \notin {"locked", "empty", "wait"}
  BY ModeValues
<1>2. ModeAt("locked") = "locked" /\ ModeAt("empty") = "decided" /\ ModeAt("wait") = "asleep"
  BY ModeValues
<1>3. Mode[t] = ModeAt(pc[t])
  BY ModeIs
<1>4. ASSUME UNCHANGED <<al, owes, sig_e>>
      PROVE  NonEmpty' = NonEmpty /\ Debt' = Debt /\ Notes' = Notes
  BY <1>0, <1>4, NonEmptyIs, DebtIs, NotesUnchanged
<1>5. ASSUME UNCHANGED <<al, owes, sig_e>>, Mode' = Mode
      PROVE  [Wakeup!WNext]_(Wakeup!wvars)
  BY <1>4, <1>5 DEF Wakeup!wvars
<1>6. ASSUME NEW l \in {"run", "drain"}, TakeAll(t), Goto(t, l), pc[t] \in {"popall", "peek", "netio"},
             UNCHANGED <<owes, sig_e>>
      PROVE  [Wakeup!WNext]_(Wakeup!wvars)
  <2>1. NonEmpty' = [NonEmpty EXCEPT ![t] = FALSE]
    BY <1>0, <1>6, NonEmptyTake
  <2>2. Debt' = Debt /\ Notes' = Notes
    BY <1>0, <1>6, DebtIs, NotesUnchanged
  <2>3. Mode' = Mode /\ Mode[t] = "awake"
    BY <1>0, <1>1, <1>3, <1>6, ModeStays
  <2>4. Wakeup!WTake(t)
    BY <2>1, <2>2, <2>3 DEF Wakeup!WTake
  <2> QED
    BY <2>4 DEF Wakeup!WNext
<1>7. CASE Process(t)
  <2>1. UNCHANGED <<al, owes, sig_e, pc>>
    BY <1>7 DEF Process, signals
  <2>2. Mode' = Mode
    BY <2>1, ModeIs
  <2> QED
    BY <1>5, <2>1, <2>2
<1>8a. CASE EndRun(t)
  <2>1. UNCHANGED <<al, owes, sig_e>> /\ Goto(t, "timers") /\ pc[t] = "run"
    BY <1>8a DEF EndRun, queues, signals
  <2>2. Mode' = Mode
    BY <1>0, <2>1, ModeStays
  <2> QED
    BY <1>5, <2>1, <2>2
<1>8. CASE EndTimers(t)
  <2> DEFINE l == IF nsig[t] > 0 THEN "flush" ELSE AfterFlush(t)
  <2>1. UNCHANGED <<al, owes, sig_e>> /\ Goto(t, l) /\ pc[t] = "timers"
    BY <1>8 DEF EndTimers, queues, signals
  <2>2. l \notin {"locked", "empty", "wait"}
    BY DEF AfterFlush
  <2> HIDE DEF l
  <2>3. Mode' = Mode
    BY <1>0, <2>1, <2>2, ModeStays
  <2> QED
    BY <1>5, <2>1, <2>3
<1>9. CASE FlushEnd(t)
  <2> DEFINE l == AfterFlush(t)
  <2>1. UNCHANGED <<al, owes, sig_e>> /\ Goto(t, l) /\ pc[t] = "flush"
    BY <1>9 DEF FlushEnd, queues
  <2>2. l \notin {"locked", "empty", "wait"}
    BY DEF AfterFlush
  <2> HIDE DEF l
  <2>3. Mode' = Mode
    BY <1>0, <2>1, <2>2, ModeStays
  <2> QED
    BY <1>5, <2>1, <2>3
<1>10. CASE EndDrain(t) \/ PollSignalled(t) \/ PollTimeout(t)
  <2>1. PICK l \in {"poll", "netio"} : Goto(t, l)
    BY <1>10 DEF EndDrain, PollSignalled, PollTimeout
  <2>2. UNCHANGED <<al, owes, sig_e>> /\ pc[t] \in {"drain", "poll"}
    BY <1>10 DEF EndDrain, PollSignalled, PollTimeout, queues, signals
  <2>3. Mode' = Mode
    BY <1>0, <2>1, <2>2, ModeStays
  <2> QED
    BY <1>5, <2>2, <2>3
<1>11. CASE Acquire(t)
  <2>1. UNCHANGED <<al, owes, sig_e>> /\ Goto(t, "locked") /\ pc[t] = "acquire"
    BY <1>11 DEF Acquire, queues, signals
  <2>2. Mode[t] = "awake" /\ Mode' = [Mode EXCEPT ![t] = "locked"]
    BY <1>0, <1>1, <1>2, <1>3, <2>1, ModeGoto
  <2>3. Notes[t] = {}
    <3>1. \A i \in EThreads : i >= 0
      BY ThreadsOK DEF EThreads
    <3>2. \A i \in EThreads : sig_e[t][i] = NULL
      BY <1>0, <2>1, <3>1 DEF TableInv
    <3>3. Entries(sig_e[t]) = {}
      BY <1>0, <3>2 DEF Entries, SignalTypeOK
    <3> QED
      BY <1>0, <3>3, NotesIs
  <2>4. Wakeup!WLock(t)
    BY <1>4, <2>1, <2>2, <2>3 DEF Wakeup!WLock
  <2> QED
    BY <2>4 DEF Wakeup!WNext
<1>12. CASE Test(t)
  <2> DEFINE l == IF al[t] = <<>> THEN "empty" ELSE "popall"
  <2>1. UNCHANGED <<al, owes, sig_e>> /\ Goto(t, l) /\ pc[t] = "locked"
    BY <1>12 DEF Test, queues, signals
  <2>2. ModeAt(l) = IF NonEmpty[t] THEN "awake" ELSE "decided"
    BY <1>1, <1>2, NonEmptyIs
  <2> HIDE DEF l
  <2>3. Mode[t] = "locked" /\ Mode' = [Mode EXCEPT ![t] = ModeAt(l)]
    BY <1>0, <1>2, <1>3, <2>1, ModeGoto
  <2>4. Wakeup!WTest(t)
    BY <1>4, <2>1, <2>2, <2>3 DEF Wakeup!WTest
  <2> QED
    BY <2>4 DEF Wakeup!WNext
<1>13. CASE Wait(t)
  <2>1. UNCHANGED <<al, owes, sig_e>> /\ Goto(t, "wait") /\ pc[t] = "empty"
    BY <1>13 DEF Wait, queues, signals
  <2>2. Mode[t] = "decided" /\ Mode' = [Mode EXCEPT ![t] = "asleep"]
    BY <1>0, <1>2, <1>3, <2>1, ModeGoto
  <2>3. Wakeup!WSleep(t)
    BY <1>4, <2>1, <2>2 DEF Wakeup!WSleep
  <2> QED
    BY <2>3 DEF Wakeup!WNext
<1>14. CASE Timeout(t)
  <2>1. UNCHANGED <<al, owes, sig_e>> /\ Goto(t, "popall") /\ pc[t] = "wait"
    BY <1>14 DEF Timeout, queues, signals
  <2>2. Mode[t] = "asleep" /\ Mode' = [Mode EXCEPT ![t] = "awake"]
    BY <1>0, <1>1, <1>2, <1>3, <2>1, ModeGoto
  <2>3. Wakeup!WTimeout(t)
    BY <1>4, <2>1, <2>2 DEF Wakeup!WTimeout
  <2> QED
    BY <2>3 DEF Wakeup!WNext
<1>15. CASE PopAll(t) \/ Peek(t) \/ EndNetio(t)
  BY <1>6, <1>15 DEF PopAll, Peek, EndNetio, signals
<1>16. CASE FlushOne(t)
  BY <1>0, <1>16, FlushOneMaps
<1> QED
  BY <1>7, <1>8, <1>8a, <1>9, <1>10, <1>11, <1>12, <1>13, <1>14, <1>15, <1>16 DEF Loop

\* Every step is a step of the protocol or none.
LEMMA StepMaps == Inv /\ Inv' /\ [Next]_vars => [Wakeup!WNext]_(Wakeup!wvars)
<1> SUFFICES ASSUME Inv, Inv', [Next]_vars PROVE [Wakeup!WNext]_(Wakeup!wvars)
  OBVIOUS
<1>0. SignalTypeOK /\ TablesOK /\ SignalTypeOK' /\ TablesOK'
  BY DEF Inv, TypeOK
<1>1. ASSUME NEW t \in EThreads, Loop(t) \/ Timeout(t) \/ PollTimeout(t)
      PROVE  [Wakeup!WNext]_(Wakeup!wvars)
  BY <1>0, <1>1, LoopMaps
<1>2. ASSUME NEW t \in EThreads, NEW q \in EThreads, NEW e \in Events, NEW f \in BOOLEAN, Enqueue(t, q, e, f)
      PROVE  [Wakeup!WNext]_(Wakeup!wvars)
  <2>1. Wakeup!WPost(t, q)
    BY <1>0, <1>2, EnqueueMaps
  <2> QED
    BY <2>1 DEF Wakeup!WNext
<1>3. ASSUME NEW x \in Externals, NEW q \in EThreads, NEW e \in Events, NEW f \in BOOLEAN, ExternalPush(x, q, e, f)
      PROVE  [Wakeup!WNext]_(Wakeup!wvars)
  <2>1. Wakeup!WExternalPost(x, q)
    BY <1>0, <1>3, ExternalMaps
  <2> QED
    BY <2>1 DEF Wakeup!WNext
<1>4. ASSUME NEW x \in Externals, ExternalSignal(x)
      PROVE  [Wakeup!WNext]_(Wakeup!wvars)
  <2>1. Wakeup!WExternalSignal(x)
    BY <1>0, <1>4, ExternalMaps
  <2> QED
    BY <2>1 DEF Wakeup!WNext
<1>5. ASSUME UNCHANGED <<al, owes, sig_e, pc>>
      PROVE  [Wakeup!WNext]_(Wakeup!wvars)
  <2>1. NonEmpty' = NonEmpty /\ Debt' = Debt /\ Notes' = Notes /\ Mode' = Mode
    BY <1>0, <1>5, NonEmptyIs, DebtIs, NotesUnchanged, ModeIs
  <2> QED
    BY <2>1 DEF Wakeup!wvars
<1>6. ASSUME NEW t \in EThreads, NEW e \in Events, EnqueueLocal(t, e)
      PROVE  [Wakeup!WNext]_(Wakeup!wvars)
  BY <1>5, <1>6 DEF EnqueueLocal, signals
<1>7. ASSUME NEW e \in Events, Cancel(e)
      PROVE  [Wakeup!WNext]_(Wakeup!wvars)
  BY <1>5, <1>7 DEF Cancel, signals
<1>8. CASE UNCHANGED vars
  BY <1>5, <1>8 DEF vars
<1> QED
  BY <1>1, <1>2, <1>3, <1>4, <1>6, <1>7, <1>8 DEF Next

\* The queue, the tables of signals and the loop of EThread::execute implement the
\* wakeup protocol, for any number of threads and events.
THEOREM ImplementsProtocol == Spec => ImplementsWakeup
<1>1. Spec => Wakeup!WInit
  BY InitMaps DEF Spec
<1>2. Inv /\ Inv' /\ [Next]_vars => [Wakeup!WNext]_(Wakeup!wvars)
  BY StepMaps
<1> QED
  BY <1>1, <1>2, Inductive, PTL DEF Spec, ImplementsWakeup, Wakeup!WSpec

\* A thread never sleeps on its condition variable with an event on its list that
\* nobody is about to tell it of.  The argument is the protocol's; the tables add
\* that a thread on its way to the wait has nobody left to signal.
THEOREM NoWakeupLost == Spec => []NoLostWakeup
<1>1. Wakeup!SetsOK
  BY ThreadsOK DEF Wakeup!SetsOK, EThreads
<1>2. Inv /\ Wakeup!WNoLostWakeup => NoLostWakeup
  <2> SUFFICES ASSUME Inv, Wakeup!WNoLostWakeup, NEW q \in EThreads,
                      pc[q] \in {"empty", "wait"}, al[q] # <<>>
               PROVE  Owed(q)
    BY DEF NoLostWakeup
  <2>0. SignalTypeOK /\ TablesOK /\ NULL \notin EThreads
    BY ThreadsOK DEF Inv, TypeOK, EThreads
  <2>1. Mode[q] \in {"decided", "asleep"} /\ NonEmpty[q]
    BY ModeIs, ModeValues, NonEmptyIs
  <2>2. CASE \E t \in EThreads : q \in Notes[t] /\ Mode[t] = "awake"
    <3>1. PICK t \in EThreads : q \in Notes[t] /\ Mode[t] = "awake"
      BY <2>2
    <3>2. q \in Noted(t)
      BY <3>1 DEF Notes
    <3>3. pc[t] \notin {"locked", "empty", "wait"}
      BY <3>1, ModeIs, ModeValues
    <3>4. pc[t] # "acquire"
      <4> SUFFICES ASSUME pc[t] = "acquire" PROVE FALSE
        OBVIOUS
      <4>1. nsig[t] = 0
        BY <2>0 DEF TablesOK, TableInv
      <4>2. \A j \in EThreads : ~(j < 0)
        BY ThreadsOK DEF EThreads
      <4> QED
        BY <3>2, <4>1, <4>2 DEF Noted
    <3> QED
      BY <3>2, <3>3, <3>4 DEF Owed
  <2>3. CASE \E x \in Externals : Debt[x] = q
    BY <2>0, <2>3, DebtIs DEF Owed
  <2> QED
    BY <2>1, <2>2, <2>3 DEF Wakeup!WNoLostWakeup
<1>3. Wakeup!WSpec => []Wakeup!WNoLostWakeup
  BY <1>1, WakeupsAreNotLost
<1> QED
  BY <1>2, <1>3, Inductive, ImplementsProtocol, PTL DEF ImplementsWakeup
=============================================================================
