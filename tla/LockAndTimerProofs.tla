------------------------- MODULE LockAndTimerProofs -------------------------
(***************************************************************************)
(* Proofs about two parts of an event thread.                              *)
(*                                                                         *)
(* The timer queue: no event is handled early, none is overlooked and the  *)
(* thread does not oversleep, for any number of events and lists and any   *)
(* length of the tick.  The argument is about boundaries: what is on list  *)
(* i has a multiple of the period of list i - 1 between the last check and *)
(* its time, and check_ready, comparing bits, notices when one is passed.  *)
(*                                                                         *)
(* The ProxyMutex: it excludes, the unlocked read of thread_holding is     *)
(* right, and it implements RecursiveLock, for any number of threads, any  *)
(* spin count and any depth of nesting.                                    *)
(***************************************************************************)
EXTENDS PriorityEventQueue, ProxyMutex, Lemmas

\* Shifted is what its definition says.
LEMMA ShiftedDef ==
  /\ Shifted \in [Lists -> Nat]
  /\ Shifted[0] = 1
  /\ \A i \in Lists : i # 0 => Shifted[i] = 2 * Shifted[i - 1]
<1> DEFINE n == N_PQ_LIST - 1
           F == [k \in 1 .. n |-> [y \in Nat |-> 2 * y]]
<1>1. n \in Nat /\ n > 0 /\ Lists = 0 .. n
  BY ListsOK DEF Lists
<1>2. F \in [1 .. n -> [Nat -> Nat]]
  OBVIOUS
<1>3. \A i \in 1 .. n, y \in Nat : F[i][y] = 2 * y
  OBVIOUS
<1> HIDE DEF n, F
<1>4. PICK f : IsRun(f, n, Nat, 1, F)
  BY <1>1, <1>2, RunExists
<1>5. f \in [0 .. n -> Nat] /\ f[0] = 1 /\ \A i \in 1 .. n : f[i] = F[i][f[i - 1]]
  BY <1>4 DEF IsRun
<1>6. ASSUME NEW i \in 1 .. n PROVE f[i] = 2 * f[i - 1]
  <2>1. i - 1 \in 0 .. n
    BY <1>1
  <2>2. f[i - 1] \in Nat
    BY <1>5, <2>1
  <2> QED
    BY <1>3, <1>5, <2>2
<1>7. f = [i \in Lists |-> IF i = 0 THEN 1 ELSE 2 * f[i - 1]]
  BY <1>1, <1>5, <1>6
<1>8. Shifted = [i \in Lists |-> IF i = 0 THEN 1 ELSE 2 * Shifted[i - 1]]
  <2> DEFINE Q(g) == g = [i \in Lists |-> IF i = 0 THEN 1 ELSE 2 * g[i - 1]]
  <2>1. Q(f)
    BY <1>7
  <2>2. Shifted = CHOOSE g : Q(g)
    BY DEF Shifted
  <2> HIDE DEF Q
  <2>3. Q(Shifted)
    BY <2>1, <2>2
  <2> QED
    BY <2>3 DEF Q
<1>9. 0 \in Lists /\ \A i \in Lists : i # 0 => i - 1 \in Lists /\ i \in Nat
  BY <1>1
<1>10. Shifted[0] = 1 /\ \A i \in Lists : i # 0 => Shifted[i] = 2 * Shifted[i - 1]
  BY <1>8, <1>9
<1> DEFINE P == {i \in Nat : i \in Lists => Shifted[i] \in Nat}
<1>11. 0 \in P
  BY <1>10
<1>12. \A i \in Nat : i \in P => i + 1 \in P
  <2> SUFFICES ASSUME NEW i \in P, i + 1 \in Lists PROVE Shifted[i + 1] \in Nat
    OBVIOUS
  <2>1. i \in Lists /\ i \in Nat /\ i + 1 # 0 /\ (i + 1) - 1 = i
    BY <1>1
  <2>2. Shifted[i + 1] = 2 * Shifted[i]
    BY <1>10, <2>1
  <2> QED
    BY <2>1, <2>2
<1>13. Nat \subseteq P
  <2> HIDE DEF P
  <2> QED
    BY <1>11, <1>12, NatInduct
<1>14. \A i \in Lists : Shifted[i] \in Nat
  BY <1>1, <1>13
<1>15. Shifted \in [Lists -> Nat]
  <2>1. DOMAIN Shifted = Lists /\ Shifted = [i \in Lists |-> Shifted[i]]
    BY <1>8
  <2> QED
    BY <1>14, <2>1
<1> QED
  BY <1>10, <1>15

\* The periods double: each is an even multiple of the shorter ones.
LEMMA Doubling ==
  /\ \A i \in Lists : Shifted[i] \in Nat \ {0}
  /\ \A j, i \in Lists : j < i => \E r \in Nat \ {0} : Shifted[i] = Shifted[j] * (2 * r)
<1> DEFINE Pos == {i \in Nat : i \in Lists => Shifted[i] \in Nat \ {0}}
<1>1. \A i \in Nat : i + 1 \in Lists => i \in Lists /\ Shifted[i + 1] = 2 * Shifted[i]
  <2> SUFFICES ASSUME NEW i \in Nat, i + 1 \in Lists PROVE i \in Lists /\ Shifted[i + 1] = 2 * Shifted[i]
    OBVIOUS
  <2>1. i \in Lists /\ i + 1 # 0 /\ (i + 1) - 1 = i
    BY ListsOK DEF Lists
  <2> QED
    BY <2>1, ShiftedDef
<1>2. \A i \in Lists : Shifted[i] \in Nat /\ i \in Nat
  BY ShiftedDef, ListsOK DEF Lists
<1>3. Nat \subseteq Pos
  <2>1. 0 \in Pos
    BY ShiftedDef
  <2>2. \A i \in Nat : i \in Pos => i + 1 \in Pos
    BY <1>1, <1>2
  <2> HIDE DEF Pos
  <2> QED
    BY <2>1, <2>2, NatInduct
<1>4. \A i \in Lists : Shifted[i] \in Nat \ {0}
  BY <1>2, <1>3
<1>5. ASSUME NEW j \in Lists, NEW i \in Lists, j < i
      PROVE  \E r \in Nat \ {0} : Shifted[i] = Shifted[j] * (2 * r)
  <2> DEFINE S == {d \in Nat : (j + d) + 1 \in Lists =>
                     \E r \in Nat \ {0} : Shifted[(j + d) + 1] = Shifted[j] * (2 * r)}
  <2>1. 0 \in S
    <3>1. j + 0 = j /\ j \in Nat
      BY <1>2
    <3>2. (j + 1) \in Lists => Shifted[j + 1] = 2 * Shifted[j] /\ Shifted[j] \in Nat
      BY <3>1, <1>1, <1>2
    <3>3. (j + 1) \in Lists => Shifted[j + 1] = Shifted[j] * (2 * 1)
      BY <3>2
    <3> QED
      BY <3>1, <3>3
  <2>2. ASSUME NEW d \in Nat, d \in S PROVE d + 1 \in S
    <3> SUFFICES ASSUME (j + (d + 1)) + 1 \in Lists
                 PROVE  \E r \in Nat \ {0} : Shifted[(j + (d + 1)) + 1] = Shifted[j] * (2 * r)
      OBVIOUS
    <3> DEFINE k == (j + d) + 1
    <3>1. k \in Nat /\ j + (d + 1) = k
      BY <1>2
    <3>2. k + 1 \in Lists
      BY <3>1
    <3>3. k \in Lists /\ Shifted[k + 1] = 2 * Shifted[k]
      BY <3>1, <3>2, <1>1
    <3>4. PICK r \in Nat \ {0} : Shifted[k] = Shifted[j] * (2 * r)
      BY <2>2, <3>3
    <3> HIDE DEF k
    <3>5. Shifted[k + 1] = Shifted[j] * (2 * (2 * r)) /\ 2 * r \in Nat \ {0}
      BY <3>3, <3>4, <1>2
    <3> QED
      BY <3>1, <3>5
  <2>3. Nat \subseteq S
    <3> HIDE DEF S
    <3> QED
      BY <2>1, <2>2, NatInduct
  <2> DEFINE d == i - j - 1
  <2>4. d \in Nat /\ (j + d) + 1 = i
    BY <1>2, <1>5
  <2>5. d \in S
    BY <2>3, <2>4
  <2> HIDE DEF d
  <2> QED
    BY <2>4, <2>5
<1> QED
  BY <1>4, <1>5

\* Division with remainder.
LEMMA Division ==
  ASSUME NEW a \in Nat, NEW b \in Nat \ {0}
  PROVE  /\ a \div b \in Nat /\ a % b \in Nat /\ a % b < b
         /\ a = b * (a \div b) + (a % b)
OBVIOUS

\* Time went on from l to c by no more than half of what the compared bits can
\* count, and the bits above the blocks of P ticks did not change.
SameBits(T, P, R, l, c) ==
  /\ T \in Nat \ {0} /\ P \in Nat \ {0} /\ R \in Nat \ {0} /\ l \in Nat /\ c \in Nat
  /\ l <= c /\ c - l <= T * (P * R)
  /\ LET m == P * (2 * R) IN ((c \div T) % m) \div P = ((l \div T) % m) \div P

\* Then no block of P ticks has ended.
LEMMA SameBlock ==
  ASSUME NEW T, NEW P, NEW R, NEW l, NEW c, SameBits(T, P, R, l, c),
         NEW n \in Nat, l < (T * P) * n
  PROVE  c < (T * P) * n
<1> DEFINE m == P * (2 * R)
           a == c \div T
           b == l \div T
<1>0. /\ T \in Nat \ {0} /\ P \in Nat \ {0} /\ R \in Nat \ {0} /\ l \in Nat /\ c \in Nat
      /\ l <= c /\ c - l <= T * (P * R)
      /\ (a % m) \div P = (b % m) \div P
  BY DEF SameBits
<1> USE <1>0
<1>1. a \in Nat /\ T * a <= c /\ c < T * (a + 1)
  BY Division
<1>2. b \in Nat /\ T * b <= l /\ l < T * (b + 1)
  BY Division
<1> HIDE DEF a, b
<1>3. b <= a
  <2> SUFFICES ASSUME a + 1 <= b PROVE FALSE
    BY <1>1, <1>2
  <2>1. T * (a + 1) <= T * b
    BY <1>1, <1>2
  <2> QED
    BY <1>1, <1>2, <2>1
<1> DEFINE h == P * R
<1>4. h \in Nat /\ m = 2 * h /\ P <= h /\ m \in Nat \ {0}
  OBVIOUS
<1>41. \A x \in Nat : m * x = P * ((2 * R) * x)
  OBVIOUS
<1> HIDE DEF m
<1>5. a - b <= h
  <2>0. c - l <= T * h
    OBVIOUS
  <2> HIDE DEF h
  <2> SUFFICES ASSUME b + h + 1 <= a PROVE FALSE
    BY <1>1, <1>2, <1>4
  <2>1. T * (b + h + 1) <= T * a
    BY <1>1, <1>2, <1>4
  <2>2. T * (b + h + 1) = T * (b + 1) + T * h
    BY <1>1, <1>2, <1>4
  <2> QED
    BY <1>1, <1>2, <1>4, <2>0, <2>1, <2>2
<1> HIDE DEF h
<1> DEFINE ra == a % m
           rb == b % m
           ka == a \div m
           kb == b \div m
<1>6. ra \in Nat /\ ka \in Nat /\ a = m * ka + ra
  BY <1>1, <1>4, Division
<1>7. rb \in Nat /\ kb \in Nat /\ b = m * kb + rb
  BY <1>2, <1>4, Division
<1> DEFINE s == ra \div P
           ua == ra % P
           ub == rb % P
<1>8. s \in Nat /\ ua \in Nat /\ ua < P /\ ra = P * s + ua
  BY <1>6, Division
<1>9. s = rb \div P
  OBVIOUS
<1>10. ub \in Nat /\ ub < P /\ rb = P * s + ub
  <2> DEFINE sb == rb \div P
  <2>1. ub \in Nat /\ ub < P /\ rb = P * sb + ub
    BY <1>7, Division
  <2>2. sb = s
    BY <1>9
  <2> HIDE DEF sb, s, ub, rb
  <2> QED
    BY <2>1, <2>2
<1> HIDE DEF ra, rb, ka, kb, s, ua, ub
<1>11. a - b = m * ka - m * kb + (ua - ub)
  <2> DEFINE x == m * ka
             y == m * kb
             z == P * s
  <2>1. x \in Nat /\ y \in Nat /\ z \in Nat
    BY <1>4, <1>6, <1>7, <1>8
  <2>2. a = x + (z + ua) /\ b = y + (z + ub)
    BY <1>6, <1>7, <1>8, <1>10
  <2> HIDE DEF x, y, z
  <2>3. a - b = x - y + (ua - ub)
    BY <1>8, <1>10, <2>1, <2>2
  <2> QED
    BY <2>3 DEF x, y
<1>12. ka = kb
  <2>1. ASSUME ka + 1 <= kb PROVE FALSE
    <3>1. m * (ka + 1) <= m * kb /\ m * (ka + 1) = m * ka + m
      BY <1>4, <1>6, <1>7, <2>1
    <3> DEFINE x == m * ka
               y == m * kb
    <3>2. x \in Nat /\ y \in Nat
      BY <1>4, <1>6, <1>7
    <3> QED
      BY <1>1, <1>2, <1>3, <1>4, <1>8, <1>10, <1>11, <3>1, <3>2
  <2>2. ASSUME kb + 1 <= ka PROVE FALSE
    <3>1. m * (kb + 1) <= m * ka /\ m * (kb + 1) = m * kb + m
      BY <1>4, <1>6, <1>7, <2>2
    <3> DEFINE x == m * ka
               y == m * kb
    <3>2. x \in Nat /\ y \in Nat
      BY <1>4, <1>6, <1>7
    <3> QED
      BY <1>1, <1>2, <1>5, <1>4, <1>8, <1>10, <1>11, <3>1, <3>2
  <2> QED
    BY <1>6, <1>7, <2>1, <2>2
<1> DEFINE g == (2 * R) * ka + s
<1>13. g \in Nat /\ b = P * g + ub /\ a = P * g + ua
  <2>1. m * ka = P * ((2 * R) * ka)
    BY <1>6, <1>41
  <2>2. P * g = P * ((2 * R) * ka) + P * s
    BY <1>6, <1>8
  <2>3. g \in Nat
    BY <1>6, <1>8
  <2> QED
    BY <1>6, <1>7, <1>8, <1>10, <1>12, <2>1, <2>2, <2>3
<1> HIDE DEF g
<1>14. b < P * n
  <2> SUFFICES ASSUME P * n <= b PROVE FALSE
    BY <1>2
  <2>1. T * (P * n) <= T * b
    BY <1>2
  <2>2. T * (P * n) = (T * P) * n
    OBVIOUS
  <2> QED
    BY <1>2, <2>1, <2>2
<1>15. g + 1 <= n
  <2> SUFFICES ASSUME n <= g PROVE FALSE
    BY <1>13
  <2>1. P * n <= P * g
    BY <1>13
  <2> QED
    BY <1>10, <1>13, <1>14, <2>1
<1>16. a + 1 <= P * n
  <2>1. P * (g + 1) <= P * n /\ P * (g + 1) = P * g + P
    BY <1>13, <1>15
  <2> QED
    BY <1>8, <1>13, <2>1
<1>17. T * (a + 1) <= T * (P * n) /\ T * (P * n) = (T * P) * n
  BY <1>1, <1>16
<1> QED
  BY <1>1, <1>17

\* The least element of a set of numbers.
LEMMA MinIsLeast ==
  ASSUME NEW S, S \subseteq Nat, S # {}
  PROVE  Min(S) \in S /\ \A y \in S : Min(S) <= y
<1>1. \E x \in S : \A y \in S : x <= y
  BY NatMin
<1> QED
  BY <1>1 DEF Min

\* What is on list i was put there with more than the period of the list below to
\* go, and what is on the first list with at most one tick.
LEMMA ListForFits ==
  ASSUME NEW d \in Int, NEW i, i = ListFor(d)
  PROVE  /\ i \in Lists
         /\ i = 0 => d <= Tick
         /\ i # 0 => i - 1 \in Lists /\ d > BucketTime(i - 1)
<1> DEFINE S == {k \in Lists : d <= BucketTime(k)} \cup {N_PQ_LIST - 1}
<1>1. N_PQ_LIST - 1 \in Lists /\ N_PQ_LIST - 1 # 0 /\ Lists \subseteq Nat /\ N_PQ_LIST \in Nat
  BY ListsOK DEF Lists
<1>2. S \subseteq Nat /\ S # {} /\ S \subseteq Lists /\ i = Min(S)
  BY <1>1 DEF ListFor
<1>3. i \in S /\ \A y \in S : i <= y
  <2> HIDE DEF S
  <2> QED
    BY <1>2, MinIsLeast
<1>4. i \in Lists /\ i \in Nat
  BY <1>1, <1>2, <1>3
<1>5. ASSUME i = 0 PROVE d <= Tick
  <2>1. d <= BucketTime(0)
    BY <1>1, <1>3, <1>5
  <2> QED
    BY <2>1, ShiftedDef, ListsOK DEF BucketTime
<1>6. ASSUME i # 0 PROVE i - 1 \in Lists /\ d > BucketTime(i - 1)
  <2>1. i - 1 \in Lists /\ ~ (i <= i - 1) /\ i - 1 \in Nat
    BY <1>1, <1>4, <1>6 DEF Lists
  <2>2. i - 1 \notin S
    BY <1>3, <2>1
  <2>3. ~ (d <= BucketTime(i - 1))
    BY <2>1, <2>2
  <2>4. BucketTime(i - 1) \in Nat
    BY <2>1, ShiftedDef, ListsOK DEF BucketTime
  <2> QED
    BY <2>1, <2>3, <2>4
<1> QED
  BY <1>4, <1>5, <1>6

\* The same for what check_ready moves down from list i.
LEMMA RelistFits ==
  ASSUME NEW e, NEW i \in Lists, NEW t \in Int, NEW j, j = Relist(e, i, t)
  PROVE  /\ j \in Lists /\ j <= i
         /\ j = 0 /\ i # 0 => t <= Tick
         /\ j # 0 => j - 1 \in Lists /\ t > BucketTime(j - 1)
<1> DEFINE S == {k \in 0 .. i : \A l \in k .. i - 1 : t <= BucketTime(l)}
<1>1. i \in Nat /\ i \in 0 .. i /\ \A l : l \notin i .. i - 1
  BY ListsOK DEF Lists
<1>2. S \subseteq Nat /\ i \in S /\ j = Min(S)
  BY <1>1 DEF Relist
<1>3. j \in S /\ \A y \in S : j <= y
  <2> HIDE DEF S
  <2> QED
    BY <1>2, MinIsLeast
<1>4. j \in Nat /\ j <= i /\ j \in Lists /\ \A l \in j .. i - 1 : t <= BucketTime(l)
  BY <1>1, <1>3, ListsOK DEF Lists
<1>5. ASSUME j = 0, i # 0 PROVE t <= Tick
  <2>1. 0 \in j .. i - 1
    BY <1>1, <1>5
  <2>2. t <= BucketTime(0)
    BY <1>4, <2>1
  <2> QED
    BY <2>2, ShiftedDef, ListsOK DEF BucketTime
<1>6. ASSUME j # 0 PROVE j - 1 \in Lists /\ t > BucketTime(j - 1)
  <2>1. j - 1 \in Lists /\ ~ (j <= j - 1) /\ j - 1 \in 0 .. i
    BY <1>1, <1>4, <1>6, ListsOK DEF Lists
  <2>2. j - 1 \notin S
    BY <1>3, <2>1
  <2>3. PICK l \in j - 1 .. i - 1 : ~ (t <= BucketTime(l))
    BY <2>1, <2>2
  <2>4. l = j - 1
    <3>1. l = j - 1 \/ l \in j .. i - 1
      BY <1>1, <1>4
    <3> QED
      BY <1>4, <2>3, <3>1
  <2>5. BucketTime(j - 1) \in Nat
    BY <2>1, ShiftedDef, ListsOK DEF BucketTime
  <2> QED
    BY <2>1, <2>3, <2>4, <2>5
<1> QED
  BY <1>4, <1>5, <1>6

\* Above the lists that check_ready looks at no bit has changed.
LEMMA ChangedListsFits ==
  ASSUME NEW a \in Nat, NEW b \in Nat, NEW k, k = ChangedLists(a, b), NEW m, m = Shifted[N_PQ_LIST - 1]
  PROVE  k \in Lists /\ (a % m) \div Shifted[k] = (b % m) \div Shifted[k]
<1> DEFINE S == {l \in 0 .. N_PQ_LIST - 1 : (a % m) \div Shifted[l] = (b % m) \div Shifted[l]}
<1>1. N_PQ_LIST - 1 \in Lists /\ Lists = 0 .. N_PQ_LIST - 1 /\ Lists \subseteq Nat
  BY ListsOK DEF Lists
<1>2. m \in Nat \ {0} /\ Shifted[N_PQ_LIST - 1] = m
  BY <1>1, Doubling
<1>3. a % m \in Nat /\ b % m \in Nat /\ a % m < m /\ b % m < m
  BY <1>2, Division
<1>4. N_PQ_LIST - 1 \in S
  <2>1. (a % m) \div m = 0 /\ (b % m) \div m = 0
    BY <1>2, <1>3
  <2> QED
    BY <1>1, <1>2, <2>1
<1>5. S \subseteq Nat /\ k = Min(S)
  BY <1>1 DEF ChangedLists
<1>6. k \in S
  <2> HIDE DEF S
  <2> QED
    BY <1>4, <1>5, MinIsLeast
<1> QED
  BY <1>1, <1>6

\* A period has a boundary within its length from now.
LEMMA NextBoundary ==
  ASSUME NEW l \in Nat, NEW B \in Nat \ {0}
  PROVE  \E n \in Nat : l < B * n /\ B * n <= l + B
<1> DEFINE n == (l \div B) + 1
           d == l \div B
<1>1. d \in Nat /\ l % B \in Nat /\ l % B < B /\ l = B * d + (l % B)
  BY Division
<1>2. n = d + 1 /\ n \in Nat
  BY <1>1
<1> HIDE DEF d, n
<1>3. B * n = B * d + B /\ B * d \in Nat
  BY <1>1, <1>2
<1>4. l < B * n /\ B * n <= l + B
  BY <1>1, <1>3
<1> QED
  BY <1>2, <1>4

-----------------------------------------------------------------------------
(* The timer queue                                                         *)

\* From l on, the period of the list below i has a boundary no later than t.
Boundary(l, t, i) ==
  \E n \in Nat : l < BucketTime(i - 1) * n /\ BucketTime(i - 1) * n <= t

\* The loop's time is that of the last check, or at most a round ahead of it.
Clock ==
  /\ last_check_time <= cur_time /\ cur_time <= last_check_time + MaxStep
  /\ pc = "sleep" \/ (pc = "ready" /\ ~done_one) => cur_time = last_check_time

\* The list of a waiting event is looked at again before the event is due: a
\* boundary of the period that check_ready watches for it comes first.
Ahead == \A e \in Events : Waiting(e) => Boundary(last_check_time, timeout_at[e], in_heap[e])

\* A thread sleeps at most half the period of any list in use, and the heartbeat.
Naps ==
  pc = "sleep" =>
    /\ next_time <= last_check_time + Heartbeat
    /\ \A e \in Events : Waiting(e) => next_time <= last_check_time + BucketTime(in_heap[e]) \div 2

\* The inductive invariant of the timer queue.
TimerInv == TypeOK /\ Clock /\ NotEarly /\ (ShortRounds => Ahead) /\ Naps

\* Types of the periods.
LEMMA Periods ==
  /\ \A i \in Lists : BucketTime(i) \in Nat \ {0}
  /\ \A i \in Lists : i # 0 => i - 1 \in Lists /\ i \in Nat
  /\ NotQueued \notin Lists /\ 0 \in Lists /\ Lists \subseteq Nat
<1>1. \A i \in Lists : Shifted[i] \in Nat \ {0}
  BY Doubling
<1>2. \A i \in Lists : BucketTime(i) \in Nat \ {0}
  BY <1>1, ListsOK DEF BucketTime
<1> QED
  BY <1>2, ListsOK DEF Lists, NotQueued

\* An event that has more to go than the period of the list below its own has a
\* boundary ahead.
LEMMA BoundaryAhead ==
  ASSUME NEW l \in Nat, NEW c \in Nat, l <= c, NEW t \in Nat, NEW i \in Lists, i # 0,
         t - c > BucketTime(i - 1)
  PROVE  Boundary(l, t, i)
<1> DEFINE B == BucketTime(i - 1)
<1>1. B \in Nat \ {0}
  BY Periods
<1>2. t - c > B
  OBVIOUS
<1>3. Boundary(l, t, i) <=> \E n \in Nat : l < B * n /\ B * n <= t
  BY DEF Boundary
<1> HIDE DEF B
<1>4. PICK n \in Nat : l < B * n /\ B * n <= l + B
  BY <1>1, NextBoundary
<1>5. B * n \in Nat
  BY <1>1
<1> QED
  BY <1>1, <1>2, <1>3, <1>4, <1>5

\* A boundary that no compared bit reports is not passed.
LEMMA BoundaryStays ==
  ASSUME ShortRounds, NEW l \in Nat, NEW c \in Nat, l <= c, c <= l + MaxStep, NEW t \in Nat,
         NEW i \in Lists, i # 0, Boundary(l, t, i),
         i > ChangedLists(c \div Tick, l \div Tick)
  PROVE  Boundary(c, t, i)
<1> DEFINE a == c \div Tick
           b == l \div Tick
           k == ChangedLists(a, b)
           m == Shifted[N_PQ_LIST - 1]
           P == Shifted[k]
           j == i - 1
           Q == Shifted[j]
<1>1. Tick \in Nat \ {0} /\ a \in Nat /\ b \in Nat /\ MaxStep \in Nat /\ N_PQ_LIST \in Nat \ {0, 1}
  BY ListsOK, Division
<1>2. k \in Lists /\ (a % m) \div P = (b % m) \div P
  <2> HIDE DEF a, b
  <2> QED
    BY <1>1, ChangedListsFits
<1>3. j \in Lists /\ k <= j /\ k < N_PQ_LIST - 1 /\ N_PQ_LIST - 1 \in Lists /\ N_PQ_LIST - 2 \in Lists
  <2>1. i > k
    OBVIOUS
  <2> HIDE DEF k
  <2> QED
    BY <1>1, <1>2, <2>1, Periods DEF Lists
<1>4. PICK R \in Nat \ {0} : m = P * (2 * R)
  BY <1>2, <1>3, Doubling
<1>5. PICK r \in Nat \ {0} : Q = P * r
  <2>0. P \in Nat \ {0}
    BY <1>2, Doubling
  <2>1. CASE j = k
    <3>1. Q = P * 1
      BY <2>0, <2>1
    <3> QED
      BY <3>1
  <2>2. CASE k < j
    <3>1. PICK x \in Nat \ {0} : Q = P * (2 * x)
      BY <1>2, <1>3, <2>2, Doubling
    <3>2. 2 * x \in Nat \ {0}
      OBVIOUS
    <3> QED
      BY <3>1, <3>2
  <2> HIDE DEF k, j
  <2> QED
    BY <1>2, <1>3, <2>1, <2>2, Periods
<1>6. P \in Nat \ {0} /\ Q \in Nat
  BY <1>2, <1>3, Doubling
<1>7. c - l <= Tick * (P * R)
  <2> DEFINE h == Shifted[N_PQ_LIST - 2]
  <2>1. h \in Nat /\ m = 2 * h
    <3>1. N_PQ_LIST - 1 # 0 /\ (N_PQ_LIST - 1) - 1 = N_PQ_LIST - 2
      BY <1>1
    <3> QED
      BY <1>3, <3>1, ShiftedDef
  <2>2. MaxStep <= Tick * h
    BY DEF ShortRounds, BucketTime
  <2> HIDE DEF h, m, P
  <2>3. h = P * R
    BY <1>4, <1>6, <2>1
  <2> QED
    BY <1>1, <2>1, <2>2, <2>3
<1>8. PICK n \in Nat : l < (Tick * Q) * n /\ (Tick * Q) * n <= t
  BY DEF Boundary, BucketTime
<1> DEFINE w == r * n
<1>9. w \in Nat /\ (Tick * Q) * n = (Tick * P) * w
  <2>1. (Tick * Q) * n = (Tick * (P * r)) * n
    BY <1>5
  <2> HIDE DEF P, Q
  <2>2. (Tick * (P * r)) * n = (Tick * P) * (r * n)
    BY <1>1, <1>6
  <2> QED
    BY <2>1, <2>2
<1>10. l < (Tick * P) * w
  BY <1>8, <1>9
<1>11. c < (Tick * P) * w
  <2>1. SameBits(Tick, P, R, l, c)
    <3> HIDE DEF P, m, k
    <3> QED
      BY <1>1, <1>2, <1>4, <1>6, <1>7 DEF SameBits
  <2> HIDE DEF P, w
  <2> QED
    BY <1>9, <1>10, <2>1, SameBlock
<1>12. c < (Tick * Q) * n
  BY <1>9, <1>11
<1> QED
  BY <1>8, <1>12 DEF Boundary, BucketTime

\* A step that keeps the clock and moves one event e, if at all to where it fits,
\* keeps what is said of the events.
LEMMA OneMoved ==
  ASSUME TimerInv, NEW e \in Events, UNCHANGED <<cur_time, last_check_time>>,
         \A f \in Events : f # e => in_heap'[f] = in_heap[f] /\ timeout_at'[f] = timeout_at[f],
         in_heap'[e] = 0 => timeout_at'[e] - cur_time <= Tick,
         in_heap'[e] \in Lists \ {0} => Boundary(last_check_time, timeout_at'[e], in_heap'[e])
  PROVE  NotEarly' /\ (ShortRounds => Ahead)'
<1>1. ASSUME NEW f \in Events, in_heap'[f] = 0 PROVE timeout_at'[f] - cur_time' <= Tick
  BY <1>1 DEF TimerInv, NotEarly
<1>2. ASSUME ShortRounds, NEW f \in Events, in_heap'[f] \in Lists \ {0}
      PROVE  Boundary(last_check_time', timeout_at'[f], in_heap'[f])
  <2>1. CASE f = e
    BY <1>2, <2>1
  <2>2. CASE f # e
    BY <1>2, <2>2 DEF TimerInv, Ahead, Waiting
  <2> QED
    BY <2>1, <2>2
<1>3. (ShortRounds => Ahead)' <=> (ShortRounds => Ahead')
  BY DEF ShortRounds, BucketTime, Shifted, Lists
<1> QED
  BY <1>1, <1>2, <1>3 DEF NotEarly, Ahead, Waiting

\* The initial states have the invariant.
LEMMA TimerStarts == Init => TimerInv
<1> SUFFICES ASSUME Init PROVE TimerInv
  OBVIOUS
<1>1. N_PQ_LIST - 1 \in Lists
  BY ListsOK DEF Lists
<1>2. BucketTime(N_PQ_LIST - 1) \in Nat /\ MaxStep \in Nat
  BY <1>1, Periods, ListsOK
<1>3. cur_time \in Nat
  BY <1>2 DEF Init
<1>4. \A e \in Events : in_heap[e] = NotQueued /\ ~Waiting(e) /\ in_heap[e] # 0
  BY Periods DEF Init, Waiting
<1>5. TypeOK
  <2>1. in_heap \in [Events -> Lists \cup {NotQueued}] /\ timeout_at \in [Events -> Nat]
    BY DEF Init
  <2>2. {cur_time, last_check_time, next_time} \subseteq Nat
    BY <1>3 DEF Init
  <2>3. cancelled \subseteq Events /\ done_one \in BOOLEAN /\ pc \in {"local", "check", "ready", "sleep"}
    BY DEF Init
  <2> QED
    BY <2>1, <2>2, <2>3 DEF TypeOK
<1>6. Clock
  BY <1>2, <1>3 DEF Init, Clock
<1>7. NotEarly /\ Ahead /\ Naps
  BY <1>4 DEF Init, NotEarly, Ahead, Naps
<1> QED
  BY <1>5, <1>6, <1>7 DEF TimerInv

\* Enqueue puts an event on the list for its time.
LEMMA EnqueueKeeps ==
  ASSUME TimerInv, NEW e \in Events, Enqueue(e)
  PROVE  TimerInv'
<1> USE DEF times
<1>0. TypeOK /\ Clock
  BY DEF TimerInv
<1>1. PICK d \in -1 .. MaxDelay :
        /\ cur_time + d > 0
        /\ timeout_at' = [timeout_at EXCEPT ![e] = cur_time + d]
        /\ in_heap' = [in_heap EXCEPT ![e] = ListFor(d)]
  BY DEF Enqueue
<1> DEFINE i == ListFor(d)
<1>2. d \in Int /\ cur_time \in Nat /\ last_check_time \in Nat /\ MaxDelay \in Nat
  BY <1>0, ListsOK DEF TypeOK
<1>3. i \in Lists /\ (i = 0 => d <= Tick) /\ (i # 0 => i - 1 \in Lists /\ d > BucketTime(i - 1))
  BY <1>2, ListForFits
<1>4. cur_time + d \in Nat
  BY <1>1, <1>2
<1> HIDE DEF i
<1>5. in_heap'[e] = i /\ timeout_at'[e] = cur_time + d
  BY <1>0, <1>1 DEF TypeOK, i
<1>6. \A f \in Events : f # e => in_heap'[f] = in_heap[f] /\ timeout_at'[f] = timeout_at[f]
  BY <1>0, <1>1 DEF TypeOK
<1>7. in_heap' \in [Events -> Lists \cup {NotQueued}] /\ timeout_at' \in [Events -> Nat]
  BY <1>0, <1>1, <1>3, <1>4 DEF TypeOK, i
<1>8. i # 0 => Boundary(last_check_time, cur_time + d, i)
  <2> SUFFICES ASSUME i # 0 PROVE Boundary(last_check_time, cur_time + d, i)
    OBVIOUS
  <2> DEFINE t == cur_time + d
  <2>1. BucketTime(i - 1) \in Nat
    BY <1>3, Periods
  <2>2. t \in Nat /\ t - cur_time > BucketTime(i - 1)
    BY <1>2, <1>3, <1>4, <2>1
  <2>3. last_check_time <= cur_time
    BY <1>0 DEF Clock
  <2> HIDE DEF t
  <2>4. Boundary(last_check_time, t, i)
    BY <1>2, <1>3, <2>2, <2>3, BoundaryAhead
  <2> QED
    BY <2>4 DEF t
<1>9. NotEarly' /\ (ShortRounds => Ahead)'
  <2>1. i = 0 => timeout_at'[e] - cur_time <= Tick
    BY <1>2, <1>3, <1>5
  <2>2. UNCHANGED <<cur_time, last_check_time>>
    BY DEF Enqueue
  <2>3. in_heap'[e] \in Lists \ {0} => Boundary(last_check_time, timeout_at'[e], in_heap'[e])
    BY <1>5, <1>8
  <2> QED
    BY <1>5, <1>6, <2>1, <2>2, <2>3, OneMoved
<1>10. TypeOK'
  BY <1>0, <1>7 DEF TypeOK, Enqueue
<1>11. Clock'
  BY <1>0 DEF Clock, Enqueue
<1>12. Naps'
  BY DEF Naps, Enqueue
<1> QED
  BY <1>9, <1>10, <1>11, <1>12 DEF TimerInv

\* An event that leaves its list is no concern of the queue any more.
LEMMA RemoveKeeps ==
  ASSUME TimerInv, NEW e \in Events, RemoveEvent(e)
  PROVE  TimerInv'
<1> USE DEF times
<1>0. TypeOK /\ Clock
  BY DEF TimerInv
<1>1. /\ in_heap' = [in_heap EXCEPT ![e] = NotQueued] /\ timeout_at' = [timeout_at EXCEPT ![e] = 0]
      /\ UNCHANGED <<cancelled, times, done_one, pc>> /\ pc \in {"local", "ready"}
  BY DEF RemoveEvent
<1>2. in_heap'[e] = NotQueued /\ NotQueued \notin Lists /\ NotQueued # 0
  BY <1>0, <1>1, Periods DEF TypeOK
<1>3. \A f \in Events : f # e => in_heap'[f] = in_heap[f] /\ timeout_at'[f] = timeout_at[f]
  BY <1>0, <1>1 DEF TypeOK
<1>4. NotEarly' /\ (ShortRounds => Ahead)'
  BY <1>1, <1>2, <1>3, OneMoved
<1>5. TypeOK'
  BY <1>0, <1>1 DEF TypeOK
<1>6. Clock' /\ Naps'
  BY <1>0, <1>1 DEF Clock, Naps
<1> QED
  BY <1>4, <1>5, <1>6 DEF TimerInv

\* Cancelling only sets a flag.
LEMMA CancelKeeps ==
  ASSUME TimerInv, NEW e \in Events, Cancel(e)
  PROVE  TimerInv'
<1> USE DEF times
<1>1. UNCHANGED <<timeout_at, in_heap, times, done_one, pc>> /\ cancelled' = cancelled \cup {e}
  BY DEF Cancel
<1>2. TypeOK'
  BY <1>1 DEF TimerInv, TypeOK
<1>3. Clock' /\ NotEarly' /\ Naps'
  BY <1>1 DEF TimerInv, Clock, NotEarly, Naps, Waiting
<1>4. (ShortRounds => Ahead)'
  BY <1>1 DEF TimerInv, Ahead, Waiting, ShortRounds, Boundary, BucketTime, Shifted, Lists
<1> QED
  BY <1>2, <1>3, <1>4 DEF TimerInv

\* An event is taken from the first list; the clock may be read again.
LEMMA DequeueKeeps ==
  ASSUME TimerInv, NEW e \in Events, DequeueReady(e)
  PROVE  TimerInv'
<1>0. TypeOK /\ Clock /\ NotEarly
  BY DEF TimerInv
<1>1. /\ pc = "ready" /\ pc' = "ready" /\ UNCHANGED <<last_check_time, next_time>>
      /\ in_heap' = [in_heap EXCEPT ![e] = NotQueued] /\ timeout_at' = [timeout_at EXCEPT ![e] = 0]
      /\ cancelled' = cancelled \ {e}
      /\ \/ UNCHANGED <<cur_time, done_one>>
         \/ done_one' = TRUE /\ cur_time' \in cur_time .. last_check_time + MaxStep
  BY DEF DequeueReady
<1>2. cur_time \in Nat /\ last_check_time \in Nat /\ MaxStep \in Nat /\ Tick \in Nat
  BY <1>0, ListsOK DEF TypeOK
<1>3. cur_time' \in Nat /\ cur_time <= cur_time' /\ cur_time' <= last_check_time + MaxStep
  BY <1>0, <1>1, <1>2 DEF Clock
<1>4. TypeOK'
  BY <1>0, <1>1, <1>3 DEF TypeOK
<1>5. Clock'
  BY <1>0, <1>1, <1>2, <1>3 DEF Clock
<1>6. \A f \in Events : in_heap'[f] = NotQueued \/ (in_heap'[f] = in_heap[f] /\ timeout_at'[f] = timeout_at[f])
  BY <1>0, <1>1 DEF TypeOK
<1>7. NotEarly'
  <2> SUFFICES ASSUME NEW f \in Events, in_heap'[f] = 0 PROVE timeout_at'[f] - cur_time' <= Tick
    BY DEF NotEarly
  <2>1. in_heap[f] = 0 /\ timeout_at'[f] = timeout_at[f] /\ timeout_at[f] \in Nat
    BY <1>0, <1>6, Periods DEF TypeOK
  <2>2. timeout_at[f] - cur_time <= Tick
    BY <1>0, <2>1 DEF NotEarly
  <2> QED
    BY <1>2, <1>3, <2>1, <2>2
<1>8. (ShortRounds => Ahead)'
  <2>1. ASSUME NEW f \in Events, in_heap'[f] \in Lists \ {0}, ShortRounds
        PROVE  Boundary(last_check_time', timeout_at'[f], in_heap'[f])
    <3>1. in_heap'[f] = in_heap[f] /\ timeout_at'[f] = timeout_at[f] /\ last_check_time' = last_check_time
      BY <1>1, <1>6, <2>1, Periods
    <3> QED
      BY <2>1, <3>1 DEF TimerInv, Ahead, Waiting
  <2>2. (ShortRounds => Ahead)' <=> (ShortRounds => Ahead')
    BY DEF ShortRounds, BucketTime, Shifted, Lists
  <2> QED
    BY <2>1, <2>2 DEF Ahead, Waiting
<1>9. Naps'
  BY <1>1 DEF Naps
<1> QED
  BY <1>4, <1>5, <1>7, <1>8, <1>9 DEF TimerInv

\* check_ready: an event that is looked at goes where it fits; the lists that are
\* left out have no boundary behind them.
LEMMA CheckKeeps ==
  ASSUME TimerInv, CheckReady
  PROVE  TimerInv'
<1> DEFINE k == ChangedLists(cur_time \div Tick, last_check_time \div Tick)
           looked == {e \in Events : in_heap[e] \in 1 .. k}
           to(e) == Relist(e, in_heap[e], timeout_at[e] - cur_time)
<1>0. TypeOK /\ Clock /\ NotEarly
  BY DEF TimerInv
<1>1. /\ in_heap' = [e \in Events |-> IF e \notin looked THEN in_heap[e]
                                      ELSE IF e \in cancelled THEN NotQueued ELSE to(e)]
      /\ cancelled' = cancelled \ looked
      /\ timeout_at' = [e \in Events |-> IF e \in looked \cap cancelled THEN 0 ELSE timeout_at[e]]
      /\ last_check_time' = cur_time /\ done_one' = FALSE /\ pc' = "ready"
      /\ UNCHANGED <<cur_time, next_time>>
  BY DEF CheckReady
<1>2. /\ cur_time \in Nat /\ last_check_time \in Nat /\ MaxStep \in Nat /\ Tick \in Nat \ {0}
      /\ \A e \in Events : timeout_at[e] \in Nat /\ timeout_at[e] - cur_time \in Int
      /\ \A e \in Events : in_heap[e] \in Lists \cup {NotQueued}
  BY <1>0, ListsOK DEF TypeOK
<1>3. k \in Lists /\ k \in Nat
  <2> DEFINE a == cur_time \div Tick
             b == last_check_time \div Tick
             m == Shifted[N_PQ_LIST - 1]
  <2>1. a \in Nat /\ b \in Nat
    BY <1>2, Division
  <2> HIDE DEF a, b
  <2>2. ChangedLists(a, b) \in Lists
    BY <2>1, ChangedListsFits
  <2> QED
    BY <2>2, Periods DEF a, b
<1>4. \A e \in looked : in_heap[e] \in Lists /\ in_heap[e] # 0
  BY <1>2, <1>3, Periods DEF NotQueued
<1>5. ASSUME NEW e \in looked
      PROVE  /\ to(e) \in Lists
             /\ to(e) = 0 => timeout_at[e] - cur_time <= Tick
             /\ to(e) # 0 => timeout_at[e] - cur_time > BucketTime(to(e) - 1)
  <2> DEFINE i == in_heap[e]
             t == timeout_at[e] - cur_time
             j == Relist(e, i, t)
  <2>1. i \in Lists /\ i # 0 /\ t \in Int
    BY <1>2, <1>4
  <2> HIDE DEF i, t
  <2>2. j \in Lists /\ (j = 0 => t <= Tick) /\ (j # 0 => t > BucketTime(j - 1))
    BY <2>1, RelistFits
  <2> QED
    BY <2>2 DEF i, t
<1>6. ASSUME NEW e \in Events, in_heap[e] \in Lists \ {0}, e \notin looked PROVE in_heap[e] > k
  <2>1. in_heap[e] \in Nat /\ in_heap[e] \notin 1 .. k
    BY <1>6, Periods
  <2> HIDE DEF k
  <2> QED
    BY <1>3, <1>6, <2>1
<1> HIDE DEF to, looked
<1>7. ASSUME NEW e \in Events
      PROVE  /\ e \notin looked => in_heap'[e] = in_heap[e] /\ timeout_at'[e] = timeout_at[e]
             /\ e \in looked /\ e \in cancelled => in_heap'[e] = NotQueued
             /\ e \in looked /\ e \notin cancelled => in_heap'[e] = to(e) /\ timeout_at'[e] = timeout_at[e]
  BY <1>1
<1>8. TypeOK'
  <2>1. \A e \in Events : in_heap'[e] \in Lists \cup {NotQueued} /\ timeout_at'[e] \in Nat
    BY <1>1, <1>2, <1>5
  <2>2. in_heap' \in [Events -> Lists \cup {NotQueued}] /\ timeout_at' \in [Events -> Nat]
    BY <1>1, <2>1
  <2>3. cancelled' \subseteq Events
    BY <1>0, <1>1 DEF TypeOK
  <2> QED
    BY <1>0, <1>1, <2>2, <2>3 DEF TypeOK
<1>9. Clock'
  BY <1>1, <1>2 DEF Clock
<1>10. NotEarly'
  <2> SUFFICES ASSUME NEW e \in Events, in_heap'[e] = 0 PROVE timeout_at'[e] - cur_time' <= Tick
    BY DEF NotEarly
  <2>1. CASE e \notin looked
    BY <1>0, <1>1, <1>7, <2>1 DEF NotEarly
  <2>2. CASE e \in looked
    BY <1>1, <1>5, <1>7, <2>2, Periods
  <2> QED
    BY <2>1, <2>2
<1>11. ASSUME ShortRounds PROVE Ahead'
  <2> SUFFICES ASSUME NEW e \in Events, in_heap'[e] \in Lists \ {0}
               PROVE  Boundary(cur_time, timeout_at'[e], in_heap'[e])
    BY <1>1 DEF Ahead, Waiting
  <2>1. CASE e \notin looked
    <3> DEFINE i == in_heap[e]
               t == timeout_at[e]
    <3>1. in_heap'[e] = i /\ timeout_at'[e] = t /\ i \in Lists /\ i # 0 /\ t \in Nat
      BY <1>2, <1>7, <2>1
    <3>2. Boundary(last_check_time, t, i)
      BY <1>11, <3>1 DEF TimerInv, Ahead, Waiting
    <3>3. i > k
      BY <1>6, <2>1, <3>1
    <3>4. last_check_time <= cur_time /\ cur_time <= last_check_time + MaxStep
      BY <1>0 DEF Clock
    <3> HIDE DEF i, t
    <3>5. Boundary(cur_time, t, i)
      BY <1>2, <1>11, <3>1, <3>2, <3>3, <3>4, BoundaryStays
    <3> QED
      BY <3>1, <3>5
  <2>2. CASE e \in looked
    <3> DEFINE j == to(e)
               t == timeout_at[e]
    <3>1. in_heap'[e] = j /\ timeout_at'[e] = t /\ t \in Nat
      BY <1>2, <1>7, <2>2, Periods
    <3>2. j \in Lists /\ j # 0 /\ t - cur_time > BucketTime(j - 1)
      BY <1>5, <2>2, <3>1
    <3> HIDE DEF j, t
    <3>3. Boundary(cur_time, t, j)
      BY <1>2, <3>1, <3>2, BoundaryAhead
    <3> QED
      BY <3>1, <3>3
  <2> QED
    BY <2>1, <2>2
<1>12. (ShortRounds => Ahead)'
  <2>1. (ShortRounds => Ahead)' <=> (ShortRounds => Ahead')
    BY DEF ShortRounds, BucketTime, Shifted, Lists
  <2> QED
    BY <1>11, <2>1
<1>13. Naps'
  BY <1>1 DEF Naps
<1> QED
  BY <1>8, <1>9, <1>10, <1>12, <1>13 DEF TimerInv

\* The thread goes to sleep until earliest_timeout.
LEMMA SleepKeeps ==
  ASSUME TimerInv, Sleep
  PROVE  TimerInv'
<1>0. TypeOK /\ Clock /\ NotEarly
  BY DEF TimerInv
<1>1. /\ pc = "ready" /\ ~done_one /\ next_time' = Earliest /\ pc' = "sleep"
      /\ UNCHANGED <<timeout_at, in_heap, cancelled, cur_time, last_check_time, done_one>>
  BY DEF Sleep
<1>2. cur_time \in Nat /\ last_check_time \in Nat /\ Heartbeat \in Nat /\ cur_time = last_check_time
  BY <1>0, <1>1, ListsOK DEF TypeOK, Clock
<1> DEFINE used == {in_heap[e] : e \in Events} \ {NotQueued}
           S == {cur_time + Heartbeat} \cup {last_check_time + BucketTime(i) \div 2 : i \in used}
<1>3. used \subseteq Lists
  BY <1>0 DEF TypeOK
<1>4. \A i \in Lists : last_check_time + BucketTime(i) \div 2 \in Nat
  <2> SUFFICES ASSUME NEW i \in Lists PROVE last_check_time + BucketTime(i) \div 2 \in Nat
    OBVIOUS
  <2> DEFINE B == BucketTime(i)
  <2>1. B \in Nat
    BY Periods
  <2> HIDE DEF B
  <2>2. last_check_time + B \div 2 \in Nat
    BY <1>2, <2>1
  <2> QED
    BY <2>2 DEF B
<1>5. S \subseteq Nat /\ S # {}
  BY <1>2, <1>3, <1>4
<1>6. Earliest = Min(S)
  BY DEF Earliest
<1>7. Earliest \in Nat /\ \A y \in S : Earliest <= y
  <2> HIDE DEF S
  <2> QED
    BY <1>5, <1>6, MinIsLeast
<1>8. Earliest <= last_check_time + Heartbeat
  BY <1>2, <1>7
<1>9. ASSUME NEW e \in Events, in_heap[e] \in Lists \ {0}
      PROVE  Earliest <= last_check_time + BucketTime(in_heap[e]) \div 2
  <2>1. in_heap[e] \in used
    BY <1>9, Periods
  <2> QED
    BY <1>7, <2>1
<1>10. Naps'
  BY <1>1, <1>8, <1>9 DEF Naps, Waiting
<1>11. TypeOK'
  BY <1>0, <1>1, <1>7 DEF TypeOK
<1>12. Clock' /\ NotEarly'
  BY <1>0, <1>1, <1>2 DEF Clock, NotEarly
<1>13. (ShortRounds => Ahead)'
  BY <1>1 DEF TimerInv, Ahead, Waiting, ShortRounds, Boundary, BucketTime, Shifted, Lists
<1> QED
  BY <1>10, <1>11, <1>12, <1>13 DEF TimerInv

\* The thread wakes up and begins a round.
LEMMA WakeKeeps ==
  ASSUME TimerInv, Wake
  PROVE  TimerInv'
<1>0. TypeOK /\ Clock /\ NotEarly
  BY DEF TimerInv
<1>1. /\ pc = "sleep" /\ cur_time' \in cur_time .. cur_time + MaxStep /\ next_time' = 0 /\ pc' = "local"
      /\ UNCHANGED <<timeout_at, in_heap, cancelled, last_check_time, done_one>>
  BY DEF Wake
<1>2. cur_time \in Nat /\ last_check_time \in Nat /\ MaxStep \in Nat /\ Tick \in Nat /\ cur_time = last_check_time
  BY <1>0, <1>1, ListsOK DEF TypeOK, Clock
<1>3. TypeOK'
  BY <1>0, <1>1, <1>2 DEF TypeOK
<1>4. Clock' /\ Naps'
  BY <1>1, <1>2 DEF Clock, Naps
<1>5. NotEarly'
  <2> SUFFICES ASSUME NEW e \in Events, in_heap[e] = 0 PROVE timeout_at[e] - cur_time' <= Tick
    BY <1>1 DEF NotEarly
  <2>1. timeout_at[e] \in Nat /\ timeout_at[e] - cur_time <= Tick
    BY <1>0 DEF TypeOK, NotEarly
  <2> QED
    BY <1>1, <1>2, <2>1
<1>6. (ShortRounds => Ahead)'
  BY <1>1 DEF TimerInv, Ahead, Waiting, ShortRounds, Boundary, BucketTime, Shifted, Lists
<1> QED
  BY <1>3, <1>4, <1>5, <1>6 DEF TimerInv

\* The other steps only change where the loop is.
LEMMA LoopKeeps ==
  ASSUME TimerInv, EndLocal \/ CheckAgain \/ UNCHANGED vars
  PROVE  TimerInv'
<1>1. UNCHANGED <<timeout_at, in_heap, cancelled, times, done_one>> /\ (pc' = "check" \/ pc' = pc)
  BY DEF EndLocal, CheckAgain, vars, times
<1> USE <1>1 DEF times
<1>2. TypeOK' /\ Clock' /\ NotEarly' /\ Naps'
  BY DEF TimerInv, TypeOK, Clock, NotEarly, Naps, Waiting
<1>3. (ShortRounds => Ahead)'
  BY DEF TimerInv, Ahead, Waiting, ShortRounds, Boundary, BucketTime, Shifted, Lists
<1> QED
  BY <1>2, <1>3 DEF TimerInv

\* The invariant of the timer queue holds in every reachable state.
THEOREM TimerInductive == Spec => []TimerInv
<1>1. TimerInv /\ [Next]_vars => TimerInv'
  BY EnqueueKeeps, RemoveKeeps, CancelKeeps, DequeueKeeps, CheckKeeps, SleepKeeps, WakeKeeps,
     LoopKeeps DEF Next
<1> QED
  BY <1>1, TimerStarts, PTL DEF Spec

\* TypeOK: times are numbers, and an event is on a list there is.
THEOREM TimerTypeCorrect == Spec => []TypeOK
BY TimerInductive, PTL DEF TimerInv

\* NotEarly: an event is handled at most one tick before its time.
THEOREM NoneEarly == Spec => []NotEarly
BY TimerInductive, PTL DEF TimerInv

\* What is waiting is not due yet.
LEMMA NotDue ==
  ASSUME ShortRounds, TimerInv, NEW e \in Events, Waiting(e)
  PROVE  last_check_time < timeout_at[e]
<1>1. PICK n \in Nat : /\ last_check_time < BucketTime(in_heap[e] - 1) * n
                       /\ BucketTime(in_heap[e] - 1) * n <= timeout_at[e]
  BY DEF TimerInv, Ahead, Boundary
<1> DEFINE B == BucketTime(in_heap[e] - 1)
<1>2. B \in Nat /\ last_check_time \in Nat /\ timeout_at[e] \in Nat
  BY Periods DEF TimerInv, TypeOK, Waiting
<1> HIDE DEF B
<1>3. B * n \in Nat
  BY <1>2
<1> QED
  BY <1>1, <1>2, <1>3 DEF B

\* NotOverdue: with rounds of at most half the period of the highest compared bit,
\* check_ready overlooks no event.
THEOREM NoneOverdue == ASSUME ShortRounds PROVE Spec => []NotOverdue
<1>1. TimerInv => NotOverdue
  <2> SUFFICES ASSUME TimerInv, NEW e \in Events, Waiting(e) PROVE timeout_at[e] > last_check_time
    BY DEF NotOverdue
  <2>1. last_check_time \in Nat /\ timeout_at[e] \in Nat
    BY DEF TimerInv, TypeOK
  <2> QED
    BY <2>1, NotDue
<1> QED
  BY <1>1, TimerInductive, PTL

\* OversleepBounded: what earliest_timeout answers is past an event by less than
\* half the period of its list, and by less than the heartbeat.
THEOREM SleepIsShort == ASSUME ShortRounds PROVE Spec => []OversleepBounded
<1>1. TimerInv => OversleepBounded
  <2> SUFFICES ASSUME TimerInv, pc = "sleep", NEW e \in Events, Waiting(e)
               PROVE  /\ next_time < timeout_at[e] + BucketTime(in_heap[e]) \div 2
                      /\ next_time < timeout_at[e] + Heartbeat
    BY DEF OversleepBounded
  <2> DEFINE B == BucketTime(in_heap[e])
             h == B \div 2
  <2>1. /\ last_check_time \in Nat /\ timeout_at[e] \in Nat /\ next_time \in Nat /\ Heartbeat \in Nat
        /\ B \in Nat
    BY Periods, ListsOK DEF TimerInv, TypeOK, Waiting
  <2>2. last_check_time < timeout_at[e]
    BY NotDue
  <2>3. next_time <= last_check_time + Heartbeat /\ next_time <= last_check_time + h
    BY DEF TimerInv, Naps
  <2> HIDE DEF B
  <2>4. h \in Nat
    BY <2>1
  <2> HIDE DEF h
  <2>5. next_time < timeout_at[e] + h /\ next_time < timeout_at[e] + Heartbeat
    BY <2>1, <2>2, <2>3, <2>4
  <2> QED
    BY <2>5 DEF h, B
<1> QED
  BY <1>1, TimerInductive, PTL

-----------------------------------------------------------------------------
(* The lock                                                                *)

\* A thread that has locked, or is between the acquisition of the mutex and
\* its release, has the mutex.
Owns ==
  \A t \in Threads :
    depth[t] > 0 \/ mpc[t] \in {"hold", "count", "dec", "clear", "release"} => the_mutex = t

\* thread_holding names a thread from SetHolder to ClearHolder.
Noted ==
  \A t \in Threads :
    /\ thread_holding = t => the_mutex = t /\ mpc[t] \notin {"hold", "release"}
    /\ depth[t] > 0 \/ mpc[t] \in {"count", "dec", "clear"} => thread_holding = t

\* The count is the depth of whoever has the mutex.
Counts ==
  /\ the_mutex = NULL => nthread_holding = 0
  /\ \A t \in Threads : the_mutex = t => nthread_holding = depth[t]

\* Where in the code a thread has nested locks and where it has none.
Depths ==
  \A t \in Threads :
    /\ mpc[t] = "dec" => depth[t] > 0
    /\ mpc[t] \in {"acquire", "hold", "clear", "release"} => depth[t] = 0

\* The inductive invariant.
MutexInv == MTypeOK /\ Owns /\ Noted /\ Counts /\ Depths

\* Every step of ProxyMutex preserves the invariant.
LEMMA MutexKeeps == MutexInv /\ [MNext]_mvars => MutexInv'
<1> SUFFICES ASSUME MutexInv, [MNext]_mvars PROVE MutexInv'
  OBVIOUS
<1> USE MutexOK DEF MutexInv, MTypeOK, PCs, Owns, Noted, Counts, Depths, MGoto
<1>1. ASSUME NEW t \in Threads, Call(t) PROVE MutexInv'
  BY <1>1 DEF Call
<1>2. ASSUME NEW t \in Threads, ReadHolder(t) PROVE MutexInv'
  BY <1>2 DEF ReadHolder
<1>3. ASSUME NEW t \in Threads, Acquire(t) PROVE MutexInv'
  BY <1>3 DEF Acquire
<1>4. ASSUME NEW t \in Threads, TryFail(t) PROVE MutexInv'
  BY <1>4 DEF TryFail
<1>5. ASSUME NEW t \in Threads, SetHolder(t) PROVE MutexInv'
  BY <1>5 DEF SetHolder
<1>6. ASSUME NEW t \in Threads, CountUp(t) PROVE MutexInv'
  BY <1>6 DEF CountUp
<1>7. ASSUME NEW t \in Threads, Unlock(t) PROVE MutexInv'
  BY <1>7 DEF Unlock
<1>8. ASSUME NEW t \in Threads, CountDown(t) PROVE MutexInv'
  BY <1>8 DEF CountDown
<1>9. ASSUME NEW t \in Threads, ClearHolder(t) PROVE MutexInv'
  BY <1>9 DEF ClearHolder
<1>10. ASSUME NEW t \in Threads, ReleaseMutex(t) PROVE MutexInv'
  BY <1>10 DEF ReleaseMutex
<1>11. CASE UNCHANGED mvars
  BY <1>11 DEF mvars
<1> QED
  BY <1>1, <1>2, <1>3, <1>4, <1>5, <1>6, <1>7, <1>8, <1>9, <1>10, <1>11 DEF MNext, Step

\* The invariant holds in every reachable state of the lock.
THEOREM MutexInductive == MSpec => []MutexInv
<1>1. MInit => MutexInv
  BY MutexOK DEF MInit, MutexInv, MTypeOK, PCs, Owns, Noted, Counts, Depths
<1> QED
  BY <1>1, MutexKeeps, PTL DEF MSpec

\* MTypeOK: every field of the lock has its type.
THEOREM MutexTypeCorrect == MSpec => []MTypeOK
BY MutexInductive, PTL DEF MutexInv

\* HolderIsTrue: what Mutex_lock and Mutex_trylock read without the lock is
\* right.
THEOREM UnlockedReadIsRight == MSpec => []HolderIsTrue
<1>1. MutexInv => HolderIsTrue
  BY DEF MutexInv, Noted, HolderIsTrue
<1> QED
  BY <1>1, MutexInductive, PTL

\* Exclusive: at most one thread has the lock.
THEOREM MutualExclusion == MSpec => []Exclusive
<1>1. MutexInv => Exclusive
  BY DEF MutexInv, Owns, Exclusive
<1> QED
  BY <1>1, MutexInductive, PTL

\* CountIsDepth: nthread_holding is the number of locks of the holder.
THEOREM CountIsRight == MSpec => []CountIsDepth
<1>1. MutexInv => CountIsDepth
  BY DEF MutexInv, Owns, Counts, CountIsDepth
<1> QED
  BY <1>1, MutexInductive, PTL

\* ImplementsLock: Mutex_lock, Mutex_trylock and Mutex_unlock are atomic
\* operations of a recursive lock.
THEOREM ImplementsRecursiveLock == MSpec => ImplementsLock
<1> USE MutexOK DEF Lock!Take, Lock!Give
<1>1. MInit => Lock!LockInit
  BY DEF MInit, Lock!LockInit
<1>2. MutexInv /\ [MNext]_mvars => [\E t \in Threads : Lock!Take(t) \/ Lock!Give(t)]_depth
  <2> SUFFICES ASSUME MutexInv, [MNext]_mvars, depth' # depth
               PROVE  \E t \in Threads : Lock!Take(t) \/ Lock!Give(t)
    OBVIOUS
  <2>1. PICK t \in Threads : CountUp(t) \/ CountDown(t)
    BY DEF MNext, Step, mvars, Call, ReadHolder, Acquire, TryFail, SetHolder, Unlock,
           ClearHolder, ReleaseMutex
  <2>2. CASE CountUp(t)
    <3>1. \A u \in Threads \ {t} : depth[u] = 0
      BY <2>2 DEF CountUp, MutexInv, MTypeOK, Owns
    <3> QED
      BY <2>2, <3>1 DEF CountUp
  <2>3. CASE CountDown(t)
    BY <2>3 DEF CountDown, MutexInv, Depths
  <2> QED
    BY <2>1, <2>2, <2>3
<1> QED
  BY <1>1, <1>2, MutexInductive, PTL DEF MSpec, ImplementsLock, Lock!LockSpec
=============================================================================
