------------------------ MODULE InkAtomicListProofs ------------------------
(***************************************************************************)
(* Proofs about InkAtomicList, for any number of threads and items and any *)
(* width of the version field.                                             *)
(***************************************************************************)
EXTENDS InkAtomicList, Integers, TLAPS

\* A thread that has loaded a head it means to take off.
Taking(t) == pc[t] \in {"pop_next", "pop_cas", "popall_cas", "rem_cas"}

\* The version tells how many takes there were since a pending load.
VersionsTell ==
  \A t \in Threads : Pending(t) =>
    /\ age[t] < VersionMod
    /\ \/ head.ver = snap[t].ver + age[t]
       \/ head.ver + VersionMod = snap[t].ver + age[t]

\* What a thread knows at each label.
LocalOK(t) ==
  /\ pc[t] \in {"push_load", "push_cas"} => 
       item[t] \in Items /\ owner[item[t]] = t
  /\ pc[t] = "push_cas" => next[item[t]] = snap[t].ptr
  /\ pc[t] \in {"pop_load", "pop_next", "pop_cas", "pop_fix", "popall_load", "popall_cas"} =>
       t \in Poppers
  /\ pc[t] \in {"pop_next", "pop_cas", "pop_fix", "popall_cas", "rem_cas"} =>
       snap[t].ptr \in Items
  /\ Taking(t) /\ age[t] = 0 => owner[snap[t].ptr] = LIST
  /\ pc[t] = "pop_cas" /\ age[t] = 0 => nxt[t] = next[snap[t].ptr]
  /\ pc[t] = "pop_fix" => owner[snap[t].ptr] = t
  /\ pc[t] \in {"rem_load", "rem_cas", "rem_walk"} =>
       /\ t \in Removers
       /\ item[t] \in Items
       /\ owner[item[t]] \in {LIST, t}
       /\ owner[item[t]] = LIST => nxt[t] = next[item[t]]
  /\ pc[t] = "rem_cas" => snap[t].ptr = item[t]
  /\ pc[t] = "rem_walk" => cur[t] \in Items /\ owner[cur[t]] = LIST

LocalsOK == \A t \in Threads : LocalOK(t)

IInv == TypeOK /\ ChainIsList /\ VersionsTell /\ LocalsOK /\ RemoveFinds

-----------------------------------------------------------------------------
(* Sequences and versions                                                  *)

\* Advancing a version: the next one, or 0 after the last.
LEMMA BumpLemma ==
  ASSUME NEW v \in 0 .. VersionMod - 1
  PROVE  /\ Bump(v) \in 0 .. VersionMod - 1
         /\ Bump(v) = v + 1 \/ (Bump(v) = 0 /\ v = VersionMod - 1)
<1>1. CASE v = VersionMod - 1
  <2>1. v + 1 = VersionMod
    BY <1>1, ConstantsOK
  <2>2. VersionMod % VersionMod = 0
    BY ConstantsOK
  <2> QED
    BY <1>1, <2>1, <2>2, ConstantsOK DEF Bump
<1>2. CASE v < VersionMod - 1
  <2>1. (v + 1) % VersionMod = v + 1
    BY <1>2, ConstantsOK
  <2> QED
    BY <1>2, <2>1, ConstantsOK DEF Bump
<1> QED
  BY <1>1, <1>2, ConstantsOK

\* Putting an item in front of a sequence.
LEMMA ConsLemma ==
  ASSUME NEW S, NEW s \in Seq(S), NEW e \in S
  PROVE  /\ <<e>> \o s \in Seq(S)
         /\ <<e>> \o s # <<>>
         /\ Len(<<e>> \o s) = Len(s) + 1
         /\ (<<e>> \o s)[1] = e
         /\ \A k \in 1 .. Len(s) : (<<e>> \o s)[k + 1] = s[k]
         /\ \A k \in 2 .. Len(s) + 1 : (<<e>> \o s)[k] = s[k - 1]
OBVIOUS

\* Taking the first element off a sequence.
LEMMA TailLemma ==
  ASSUME NEW S, NEW s \in Seq(S), s # <<>>
  PROVE  /\ Tail(s) \in Seq(S)
         /\ Len(s) \in Nat \ {0}
         /\ Len(Tail(s)) = Len(s) - 1
         /\ \A k \in 1 .. Len(s) - 1 : Tail(s)[k] = s[k + 1]
OBVIOUS

\* Taking the k-th element out of a sequence.
LEMMA WithoutLemma ==
  ASSUME NEW S, NEW s \in Seq(S), NEW k \in 1 .. Len(s)
  PROVE  /\ Without(s, k) \in Seq(S)
         /\ Len(Without(s, k)) = Len(s) - 1
         /\ \A j \in 1 .. Len(s) - 1 : Without(s, k)[j] = IF j < k THEN s[j] ELSE s[j + 1]
<1>1. \A j \in 1 .. Len(s) - 1 : (IF j < k THEN s[j] ELSE s[j + 1]) \in S
  OBVIOUS
<1>2. Len(s) - 1 \in Nat
  OBVIOUS
<1> QED
  BY <1>1, <1>2 DEF Without

-----------------------------------------------------------------------------
(* The inductive step                                                      *)

\* One step of thread t, with the role it needs.
Step(t) ==
  \/ t \in Pushers /\ Push(t)
  \/ t \in Poppers /\ (Pop(t) \/ PopAll(t))
  \/ t \in Removers /\ Remove(t)
  \/ EmptyReturn(t)
  \/ Scribble(t)

\* Every step of the system is a step of one thread.
LEMMA NextIsStep == Next => \E t \in Threads : Step(t)
BY DEF Next, Step, Threads

\* A cleared head is a head.
LEMMA NoHeadType == NoHead \in HeadP /\ NULL \in Ptr
BY ConstantsOK DEF NoHead, HeadP, Ptr

\* The invariant holds initially.
LEMMA InitIInv == Init => IInv
<1> SUFFICES ASSUME Init PROVE IInv
  OBVIOUS
<1>1. VersionMod - 1 \in Nat /\ 0 \in 0 .. VersionMod - 1
  BY ConstantsOK
<1>2. TypeOK
  BY <1>1, ConstantsOK DEF Init, TypeOK, HeadP, Ptr, PCs, Threads
<1>3. ChainIsList
  BY ConstantsOK DEF Init, ChainIsList, Threads
<1>4. VersionsTell /\ LocalsOK /\ RemoveFinds
  BY DEF Init, VersionsTell, LocalsOK, LocalOK, RemoveFinds, Pending, Taking, Threads
<1> QED
  BY <1>2, <1>3, <1>4 DEF IInv

\* A step preserves the types.
LEMMA TypeStep ==
  ASSUME IInv, NEW t \in Threads, Step(t)
  PROVE  TypeOK'
<1> USE NoHeadType DEF IInv, TypeOK, PCs, Goto, Return, Retry, Load
<1>1. CASE t \in Pushers /\ PushCall(t)
  BY <1>1 DEF PushCall, Ptr
<1>2. CASE t \in Pushers /\ PushLoad(t)
  BY <1>2 DEF PushLoad, HeadP
<1>3. CASE t \in Pushers /\ PushCas(t)
  <2>1. item[t] \in Items
    BY <1>3 DEF PushCas, LocalsOK, LocalOK
  <2>2. head' \in HeadP
    BY <1>3, <2>1 DEF PushCas, HeadP, Ptr
  <2> QED
    BY <1>3, <2>1, <2>2, ConsLemma DEF PushCas
<1>4. CASE t \in Pushers /\ PushRetry(t)
  BY <1>4 DEF PushRetry
<1>5. CASE t \in Poppers /\ PopCall(t)
  BY <1>5 DEF PopCall
<1>6. CASE t \in Poppers /\ PopLoad(t)
  BY <1>6 DEF PopLoad
<1>7. CASE t \in Poppers /\ PopNext(t)
  <2>1. snap[t].ptr \in Items
    BY <1>7 DEF PopNext, LocalsOK, LocalOK
  <2> QED
    BY <1>7, <2>1 DEF PopNext
<1>8. CASE t \in Poppers /\ PopCas(t)
  <2>1. lst # <<>>
    BY <1>8, ConstantsOK DEF PopCas, CasTake, LocalsOK, LocalOK, ChainIsList
  <2>3. Tail(lst) \in Seq(Items)
    BY <2>1, TailLemma
  <2>2. head'.ver = Bump(snap[t].ver) /\ head'.ptr = nxt[t] /\ head' \in HeadP
    BY <1>8, BumpLemma DEF PopCas, CasTake, HeadP
  <2>4. age' \in [Threads -> Nat]
    BY <1>8 DEF PopCas, CasTake
  <2>5. owner' \in [Items -> Threads \cup {LIST}] /\ lst' \in Seq(Items)
    BY <1>8, <2>3 DEF PopCas
  <2> QED
    BY <1>8, <2>2, <2>4, <2>5 DEF PopCas
<1>9. CASE t \in Poppers /\ PopRetry(t)
  BY <1>9 DEF PopRetry
<1>10. CASE t \in Poppers /\ PopFix(t)
  BY <1>10 DEF PopFix
<1>11. CASE t \in Poppers /\ PopAllCall(t)
  BY <1>11 DEF PopAllCall
<1>12. CASE t \in Poppers /\ PopAllLoad(t)
  BY <1>12 DEF PopAllLoad
<1>13. CASE t \in Poppers /\ PopAllCas(t)
  <2>2. head' \in HeadP
    BY <1>13, BumpLemma DEF PopAllCas, CasTake, HeadP
  <2> QED
    BY <1>13, <2>2 DEF PopAllCas, CasTake
<1>14. CASE t \in Poppers /\ PopAllRetry(t)
  BY <1>14 DEF PopAllRetry
<1>15. CASE t \in Removers /\ RemCall(t)
  BY <1>15 DEF RemCall, Ptr
<1>16. CASE t \in Removers /\ RemLoad(t)
  <2>1. head.ptr \in Ptr
    BY DEF HeadP
  <2>2. pc' \in [Threads -> PCs]
    BY <1>16 DEF RemLoad
  <2>4. age' = [age EXCEPT ![t] = 0] \/ age' = age
    BY <1>16 DEF RemLoad
  <2>3. snap' \in [Threads -> HeadP] /\ cur' \in [Threads -> Ptr]
    BY <1>16, <2>1 DEF RemLoad
  <2> QED
    BY <1>16, <2>2, <2>3, <2>4 DEF RemLoad
<1>17. CASE t \in Removers /\ RemCas(t)
  <2>1. lst # <<>>
    BY <1>17, ConstantsOK DEF RemCas, CasTake, LocalsOK, LocalOK, ChainIsList
  <2>3. Tail(lst) \in Seq(Items)
    BY <2>1, TailLemma
  <2>2. head'.ver = Bump(snap[t].ver) /\ head'.ptr = nxt[t] /\ head' \in HeadP
    BY <1>17, BumpLemma DEF RemCas, CasTake, HeadP
  <2>4. age' \in [Threads -> Nat]
    BY <1>17 DEF RemCas, CasTake
  <2>5. owner' \in [Items -> Threads \cup {LIST}] /\ lst' \in Seq(Items)
    BY <1>17, <2>3 DEF RemCas
  <2> QED
    BY <1>17, <2>2, <2>4, <2>5 DEF RemCas
<1>18. CASE t \in Removers /\ RemRetry(t)
  BY <1>18 DEF RemRetry
<1>19. CASE t \in Removers /\ RemWalk(t)
  <2>1. cur[t] \in Items
    BY <1>19 DEF RemWalk, LocalsOK, LocalOK
  <2> QED
    BY <1>19, <2>1 DEF RemWalk
<1>20. CASE t \in Removers /\ RemFail(t)
  BY <1>20 DEF RemFail
<1>21. CASE t \in Removers /\ RemUnlink(t)
  <2>1. PICK k \in 1 .. Len(lst) : lst' = Without(lst, k)
    BY <1>21 DEF RemUnlink
  <2>2. lst' \in Seq(Items)
    BY <2>1, WithoutLemma
  <2> QED
    BY <1>21, <2>2 DEF RemUnlink
<1>22. CASE EmptyReturn(t)
  BY <1>22 DEF EmptyReturn
<1>23. CASE Scribble(t)
  BY <1>23 DEF Scribble, Ptr
<1> QED
  BY <1>1, <1>2, <1>3, <1>4, <1>5, <1>6, <1>7, <1>8, <1>9, <1>10,
     <1>11, <1>12, <1>13, <1>14, <1>15, <1>16, <1>17, <1>18, <1>19, <1>20, <1>21, <1>22, <1>23 DEF Step, Push, Pop, PopAll, Remove

\* A pending compare-and-swap that would succeed has seen no take since its load.
LEMMA FreshCas ==
  ASSUME IInv, NEW t \in Threads, Pending(t), head = snap[t]
  PROVE  age[t] = 0
<1>1. head.ver \in Nat /\ age[t] \in Nat /\ VersionMod \in Nat
  BY ConstantsOK DEF IInv, TypeOK, HeadP
<1> QED
  BY <1>1 DEF IInv, VersionsTell

\* A take advances the version and the age of every pending load together.
LEMMA TakeVersions ==
  ASSUME IInv, NEW t \in Threads, NEW p, CasTake(t, p),
         ~Pending(t)',
         \A u \in Threads \ {t} : pc'[u] = pc[u] /\ snap'[u] = snap[u]
  PROVE  VersionsTell'
<1>1. head.ver = snap[t].ver /\ head.ver \in 0 .. VersionMod - 1 /\ VersionMod \in Nat
  BY ConstantsOK DEF CasTake, IInv, TypeOK, HeadP
<1>2. head'.ver = Bump(head.ver)
  BY <1>1 DEF CasTake 
<1>3. ASSUME NEW u \in Threads, Pending(u)'
      PROVE  u # t /\ Pending(u) /\ age'[u] = age[u] + 1 /\ age[u] < VersionMod - 1
  BY <1>3 DEF CasTake, Pending
<1>4. ASSUME NEW u \in Threads, Pending(u)'
      PROVE  snap'[u] = snap[u] /\ snap[u].ver \in 0 .. VersionMod - 1 /\ age[u] \in Nat
  BY <1>3, <1>4 DEF IInv, TypeOK, HeadP
<1>5. head'.ver = head.ver + 1 \/ (head'.ver = 0 /\ head.ver = VersionMod - 1)
  BY <1>1, <1>2, BumpLemma
<1> SUFFICES ASSUME NEW u \in Threads, Pending(u)'
             PROVE  /\ age'[u] < VersionMod
                    /\ \/ head'.ver = snap'[u].ver + age'[u]
                       \/ head'.ver + VersionMod = snap'[u].ver + age'[u]
  BY DEF VersionsTell
<1>6. \/ head.ver = snap[u].ver + age[u]
      \/ head.ver + VersionMod = snap[u].ver + age[u]
  BY <1>3 DEF IInv, VersionsTell
<1> QED
  BY <1>1, <1>3, <1>4, <1>5, <1>6

\* A load starts with the current version and age 0.
LEMMA LoadVersions ==
  ASSUME IInv, NEW t \in Threads, head' = head,
         (snap'[t] = head /\ age'[t] = 0) \/ ~Pending(t)',
         \A u \in Threads \ {t} : pc'[u] = pc[u] /\ snap'[u] = snap[u] /\ age'[u] = age[u]
  PROVE  VersionsTell'
<1>1. head.ver \in Nat /\ VersionMod \in Nat \ {0} /\ head' = head
  BY ConstantsOK DEF IInv, TypeOK, HeadP
<1>2. ASSUME NEW u \in Threads, Pending(u)'
      PROVE  \/ snap'[u] = head /\ age'[u] = 0
             \/ Pending(u) /\ snap'[u] = snap[u] /\ age'[u] = age[u]
  BY <1>2 DEF Pending
<1> SUFFICES ASSUME NEW u \in Threads, Pending(u)'
             PROVE  /\ age'[u] < VersionMod
                    /\ \/ head'.ver = snap'[u].ver + age'[u]
                       \/ head'.ver + VersionMod = snap'[u].ver + age'[u]
  BY DEF VersionsTell
<1>3. CASE snap'[u] = head /\ age'[u] = 0
  BY <1>1, <1>3
<1>4. CASE Pending(u) /\ snap'[u] = snap[u] /\ age'[u] = age[u]
  BY <1>1, <1>4 DEF IInv, VersionsTell
<1> QED
  BY <1>2, <1>3, <1>4

\* A step keeps versions telling the number of takes.
LEMMA VersionStep ==
  ASSUME IInv, NEW t \in Threads, Step(t)
  PROVE  VersionsTell'
<1> USE DEF IInv, TypeOK, Goto, Return, Retry, Load, CasTake
<1>1. CASE t \in Pushers /\ PushCall(t)
  BY <1>1 DEF PushCall, VersionsTell, Pending
<1>2. CASE t \in Pushers /\ PushLoad(t)
  BY <1>2, LoadVersions DEF PushLoad, Pending
<1>3. CASE t \in Pushers /\ PushCas(t)
  BY <1>3 DEF PushCas, VersionsTell, Pending
<1>4. CASE t \in Pushers /\ PushRetry(t)
  BY <1>4 DEF PushRetry, VersionsTell, Pending
<1>5. CASE t \in Poppers /\ PopCall(t)
  BY <1>5 DEF PopCall, VersionsTell, Pending
<1>6. CASE t \in Poppers /\ PopLoad(t)
  BY <1>6, LoadVersions DEF PopLoad, Pending
<1>7. CASE t \in Poppers /\ PopNext(t)
  BY <1>7 DEF PopNext, VersionsTell, Pending
<1>8. CASE t \in Poppers /\ PopCas(t)
  <2>1. ~Pending(t)' /\ \A u \in Threads \ {t} : pc'[u] = pc[u] /\ snap'[u] = snap[u]
    BY <1>8 DEF PopCas, Pending
  <2> HIDE DEF CasTake
  <2> QED
    BY <1>8, <2>1, TakeVersions DEF PopCas
<1>9. CASE t \in Poppers /\ PopRetry(t)
  BY <1>9 DEF PopRetry, VersionsTell, Pending
<1>10. CASE t \in Poppers /\ PopFix(t)
  BY <1>10 DEF PopFix, VersionsTell, Pending
<1>11. CASE t \in Poppers /\ PopAllCall(t)
  BY <1>11 DEF PopAllCall, VersionsTell, Pending
<1>12. CASE t \in Poppers /\ PopAllLoad(t)
  BY <1>12, LoadVersions DEF PopAllLoad, Pending
<1>13. CASE t \in Poppers /\ PopAllCas(t)
  <2>1. ~Pending(t)' /\ \A u \in Threads \ {t} : pc'[u] = pc[u] /\ snap'[u] = snap[u]
    BY <1>13 DEF PopAllCas, Pending
  <2> HIDE DEF CasTake
  <2> QED
    BY <1>13, <2>1, TakeVersions DEF PopAllCas
<1>14. CASE t \in Poppers /\ PopAllRetry(t)
  BY <1>14 DEF PopAllRetry, VersionsTell, Pending
<1>15. CASE t \in Removers /\ RemCall(t)
  BY <1>15 DEF RemCall, VersionsTell, Pending
<1>16. CASE t \in Removers /\ RemLoad(t)
  BY <1>16, LoadVersions DEF RemLoad, Pending
<1>17. CASE t \in Removers /\ RemCas(t)
  <2>1. ~Pending(t)' /\ \A u \in Threads \ {t} : pc'[u] = pc[u] /\ snap'[u] = snap[u]
    BY <1>17 DEF RemCas, Pending
  <2> HIDE DEF CasTake
  <2> QED
    BY <1>17, <2>1, TakeVersions DEF RemCas
<1>18. CASE t \in Removers /\ RemRetry(t)
  BY <1>18 DEF RemRetry, VersionsTell, Pending
<1>19. CASE t \in Removers /\ RemWalk(t)
  BY <1>19 DEF RemWalk, VersionsTell, Pending
<1>20. CASE t \in Removers /\ RemFail(t)
  BY <1>20 DEF RemFail, VersionsTell, Pending
<1>21. CASE t \in Removers /\ RemUnlink(t)
  BY <1>21 DEF RemUnlink, VersionsTell, Pending
<1>22. CASE EmptyReturn(t)
  BY <1>22 DEF EmptyReturn, VersionsTell, Pending
<1>23. CASE Scribble(t)
  BY <1>23 DEF Scribble, VersionsTell, Pending
<1> QED
  BY <1>1, <1>2, <1>3, <1>4, <1>5, <1>6, <1>7, <1>8, <1>9, <1>10,
     <1>11, <1>12, <1>13, <1>14, <1>15, <1>16, <1>17, <1>18, <1>19, <1>20, <1>21, <1>22, <1>23 DEF Step, Push, Pop, PopAll, Remove

\* The item a successful pop or remove takes off at the head is the first of
\* the list, and the head it installs is the second.
LEMMA TakesTop ==
  ASSUME IInv, NEW t \in Threads,
         pc[t] \in {"pop_cas", "rem_cas"}, head = snap[t]
  PROVE  /\ lst # <<>>
         /\ lst[1] = snap[t].ptr
         /\ snap[t].ptr \in Items
         /\ nxt[t] = next[lst[1]]
         /\ pc[t] = "rem_cas" => item[t] = lst[1]
<1>1. age[t] = 0
  BY FreshCas DEF Pending
<1>2. snap[t].ptr \in Items /\ owner[snap[t].ptr] = LIST
  BY <1>1 DEF IInv, LocalsOK, LocalOK, Taking
<1>3. lst # <<>> /\ lst[1] = snap[t].ptr
  BY <1>2, ConstantsOK DEF IInv, ChainIsList
<1>4. nxt[t] = next[snap[t].ptr]
  BY <1>1, <1>2 DEF IInv, LocalsOK, LocalOK
<1> QED
  BY <1>2, <1>3, <1>4 DEF IInv, LocalsOK, LocalOK

\* Taking the first item off the chain leaves the chain of the others.
LEMMA TailChain ==
  ASSUME IInv, NEW t \in Threads, lst # <<>>,
         head'.ptr = next[lst[1]], lst' = Tail(lst),
         owner' = [owner EXCEPT ![lst[1]] = t],
         next' = next \/ next' = [next EXCEPT ![lst[1]] = NULL]
  PROVE  ChainIsList'
<1> DEFINE n == Len(lst)
<1>1. /\ n \in Nat \ {0} /\ Len(lst') = n - 1 /\ lst' \in Seq(Items)
      /\ \A k \in 1 .. n - 1 : lst'[k] = lst[k + 1]
  BY TailLemma DEF IInv, TypeOK
<1>2. /\ \A k \in 1 .. n : lst[k] \in Items
      /\ \A k \in 1 .. n : next[lst[k]] = IF k = n THEN NULL ELSE lst[k + 1]
      /\ \A j, k \in 1 .. n : lst[j] = lst[k] => j = k
      /\ \A i \in Items : owner[i] = LIST <=> \E k \in 1 .. n : lst[k] = i
  BY DEF IInv, TypeOK, ChainIsList
<1>3. head'.ptr = IF lst' = <<>> THEN NULL ELSE lst'[1]
  <2>1. CASE n = 1
    BY <2>1, <1>1, <1>2
  <2>2. CASE n > 1
    <3>1. 1 \in 1 .. n - 1 /\ 1 \in 1 .. n /\ 1 # n
      BY <2>2, <1>1
    <3>2. lst'[1] = lst[1 + 1] /\ next[lst[1]] = lst[1 + 1]
      BY <3>1, <1>1, <1>2
    <3>3. lst' # <<>>
      <4>1. Len(lst') # 0
        BY <2>2, <1>1
      <4> QED
        BY <4>1
    <3> QED
      BY <3>2, <3>3
  <2> QED
    BY <1>1, <2>1, <2>2
<1>4. ASSUME NEW k \in 1 .. n - 1
      PROVE  /\ k + 1 \in 1 .. n /\ lst'[k] = lst[k + 1] /\ lst[k + 1] # lst[1]
             /\ next'[lst'[k]] = next[lst[k + 1]]
  <2>1. k + 1 \in 1 .. n /\ 1 \in 1 .. n /\ k + 1 # 1
    BY <1>1
  <2>2. lst[k + 1] # lst[1] /\ lst[k + 1] \in Items /\ lst[1] \in Items /\ lst'[k] = lst[k + 1]
    BY <2>1, <1>1, <1>2
  <2> QED
    BY <2>1, <2>2 DEF IInv, TypeOK
<1>5. ASSUME NEW k \in 1 .. Len(lst')
      PROVE  next'[lst'[k]] = IF k = Len(lst') THEN NULL ELSE lst'[k + 1]
  <2>0. n \in Int /\ k \in Int /\ Len(lst') = n - 1 /\ 1 <= k /\ k <= n - 1
    BY <1>1
  <2>1. k \in 1 .. n - 1 /\ (k # n - 1 => k + 1 \in 1 .. n - 1) /\ (k = n - 1 <=> k + 1 = n)
    <3> HIDE DEF n
    <3> QED
      BY <2>0
  <2>2. next'[lst'[k]] = IF k + 1 = n THEN NULL ELSE lst[(k + 1) + 1]
    BY <2>1, <1>4, <1>2
  <2>3. k # n - 1 => lst'[k + 1] = lst[(k + 1) + 1]
    BY <2>1, <1>4
  <2> QED
    BY <2>0, <2>1, <2>2, <2>3
<1>6. ASSUME NEW j \in 1 .. Len(lst'), NEW k \in 1 .. Len(lst'), lst'[j] = lst'[k]
      PROVE  j = k
  <2>1. j \in 1 .. n - 1 /\ k \in 1 .. n - 1
    BY <1>1
  <2>2. lst[j + 1] = lst[k + 1] /\ j + 1 \in 1 .. n /\ k + 1 \in 1 .. n
    BY <2>1, <1>4, <1>6
  <2>3. j + 1 = k + 1
    BY <2>2, <1>2
  <2> QED
    BY <2>3
<1>7. ASSUME NEW i \in Items
      PROVE  owner'[i] = LIST <=> \E k \in 1 .. Len(lst') : lst'[k] = i
  <2>1. t # LIST /\ 1 \in 1 .. n /\ lst[1] \in Items
    <3>1. 1 \in 1 .. n
      BY <1>1
    <3> QED
      BY <3>1, <1>2, ConstantsOK
  <2>2. owner'[i] = LIST <=> owner[i] = LIST /\ i # lst[1]
    BY <2>1 DEF IInv, TypeOK
  <2>3. owner[i] = LIST /\ i # lst[1] <=> \E k \in 1 .. n - 1 : lst[k + 1] = i
    <3>1. ASSUME owner[i] = LIST, i # lst[1]
          PROVE  \E k \in 1 .. n - 1 : lst[k + 1] = i
      <4>1. PICK k \in 1 .. n : lst[k] = i
        BY <3>1, <1>2
      <4>2. k - 1 \in 1 .. n - 1 /\ (k - 1) + 1 = k
        BY <3>1, <4>1, <1>1
      <4> QED
        BY <4>1, <4>2
    <3>2. ASSUME NEW k \in 1 .. n - 1, lst[k + 1] = i
          PROVE  owner[i] = LIST /\ i # lst[1]
      <4>1. k + 1 \in 1 .. n /\ 1 \in 1 .. n /\ k + 1 # 1
        BY <1>1
      <4> QED
        BY <3>2, <4>1, <1>2
    <3> QED
      BY <3>1, <3>2
  <2> QED
    BY <2>2, <2>3, <1>1
<1> QED
  BY <1>3, <1>5, <1>6, <1>7 DEF ChainIsList

\* A step keeps the chain of links equal to the list.
LEMMA ChainStep ==
  ASSUME IInv, NEW t \in Threads, Step(t)
  PROVE  ChainIsList'
<1> USE DEF IInv, TypeOK, Goto, Return, Retry, Load, CasTake
<1>1. CASE t \in Pushers /\ PushCall(t)
  BY <1>1 DEF PushCall, ChainIsList
<1>2. CASE t \in Pushers /\ PushLoad(t)
  <2>1. PICK i \in Items : owner[i] = t /\ \E p \in Ptr : next' = [next EXCEPT ![i] = p]
    BY <1>2 DEF PushLoad, LocalsOK, LocalOK, HeadP
  <2>2. t # LIST
    BY ConstantsOK
  <2> QED
    BY <1>2, <2>1, <2>2 DEF PushLoad, ChainIsList
<1>3. CASE t \in Pushers /\ PushCas(t)
  <2> DEFINE i == item[t]
             n == Len(lst)
  <2>1. i \in Items /\ owner[i] = t /\ next[i] = head.ptr /\ t # LIST
    BY <1>3, ConstantsOK DEF PushCas, LocalsOK, LocalOK
  <2>2. /\ lst' \in Seq(Items) /\ lst' # <<>> /\ n \in Nat /\ Len(lst') = n + 1 /\ lst'[1] = i
        /\ \A k \in 2 .. n + 1 : lst'[k] = lst[k - 1]
    BY <1>3, <2>1, ConsLemma DEF PushCas
  <2>3. head'.ptr = lst'[1]
    BY <1>3, <2>2 DEF PushCas
  <2>4. \A k \in 1 .. n : next[lst[k]] = IF k = n THEN NULL ELSE lst[k + 1]
    BY DEF ChainIsList
  <2>5. ASSUME NEW k \in 1 .. n + 1
        PROVE  next'[lst'[k]] = IF k = n + 1 THEN NULL ELSE lst'[k + 1]
    <3>1. CASE k = 1
      BY <1>3, <3>1, <2>1, <2>2 DEF PushCas, ChainIsList
    <3>2. CASE k # 1
      <4>1. k - 1 \in 1 .. n /\ k \in 2 .. n + 1 /\ (k - 1) + 1 = k
        BY <3>2, <2>2
      <4>2. next'[lst'[k]] = IF k - 1 = n THEN NULL ELSE lst[k]
        BY <1>3, <4>1, <2>2, <2>4 DEF PushCas
      <4>3. k # n + 1 => k + 1 \in 2 .. n + 1 /\ (k + 1) - 1 = k
        BY <4>1, <2>2
      <4> QED
        BY <4>1, <4>2, <4>3, <2>2
    <3> QED
      BY <3>1, <3>2
  <2>6. \A k \in 1 .. n : lst[k] # i
    BY <2>1 DEF ChainIsList
  <2>7. ASSUME NEW j \in 1 .. n + 1, NEW k \in 1 .. n + 1, lst'[j] = lst'[k]
        PROVE  j = k
    <3>1. \A x \in 1 .. n + 1 : x = 1 \/ (x \in 2 .. n + 1 /\ x - 1 \in 1 .. n)
      BY <2>2
    <3>2. CASE j = 1 \/ k = 1
      BY <3>1, <3>2, <2>2, <2>6, <2>7
    <3>3. CASE j # 1 /\ k # 1
      <4>1. lst[j - 1] = lst[k - 1] /\ j - 1 \in 1 .. n /\ k - 1 \in 1 .. n
        BY <3>1, <3>3, <2>2, <2>7
      <4>2. j - 1 = k - 1
        BY <4>1 DEF ChainIsList
      <4> QED
        BY <4>2
    <3> QED
      BY <3>2, <3>3
  <2>8. ASSUME NEW e \in Items
        PROVE  owner'[e] = LIST <=> \E k \in 1 .. n + 1 : lst'[k] = e
    <3>1. owner'[e] = LIST <=> e = i \/ owner[e] = LIST
      BY <1>3, <2>1 DEF PushCas
    <3>2. owner[e] = LIST => \E k \in 2 .. n + 1 : lst'[k] = e
      <4>1. SUFFICES ASSUME owner[e] = LIST PROVE \E k \in 2 .. n + 1 : lst'[k] = e
        OBVIOUS
      <4>2. PICK k \in 1 .. n : lst[k] = e
        BY <4>1 DEF ChainIsList
      <4>3. k + 1 \in 2 .. n + 1 /\ (k + 1) - 1 = k
        BY <2>2
      <4> QED
        BY <4>2, <4>3, <2>2
    <3>3. ASSUME NEW k \in 2 .. n + 1, lst'[k] = e PROVE owner[e] = LIST
      <4>1. k - 1 \in 1 .. n /\ lst[k - 1] = e
        BY <3>3, <2>2
      <4> QED
        BY <4>1 DEF ChainIsList
    <3>4. 1 \in 1 .. n + 1 /\ \A k \in 1 .. n + 1 : k = 1 \/ k \in 2 .. n + 1
      BY <2>2
    <3>5. \A k \in 2 .. n + 1 : k \in 1 .. n + 1
      BY <2>2
    <3> QED
      BY <3>1, <3>2, <3>3, <3>4, <3>5, <2>2
  <2> QED
    BY <2>2, <2>3, <2>5, <2>7, <2>8 DEF ChainIsList
<1>4. CASE t \in Pushers /\ PushRetry(t)
  BY <1>4 DEF PushRetry, ChainIsList
<1>5. CASE t \in Poppers /\ PopCall(t)
  BY <1>5 DEF PopCall, ChainIsList
<1>6. CASE t \in Poppers /\ PopLoad(t)
  BY <1>6 DEF PopLoad, ChainIsList
<1>7. CASE t \in Poppers /\ PopNext(t)
  BY <1>7 DEF PopNext, ChainIsList
<1>8. CASE t \in Poppers /\ PopCas(t)
  <2>1. /\ lst # <<>> /\ nxt[t] = next[lst[1]] /\ snap[t].ptr = lst[1]
        /\ pc[t] = "rem_cas" => item[t] = lst[1]
    BY <1>8, TakesTop DEF PopCas
  <2>2. head'.ptr = next[lst[1]]
    BY <1>8, <2>1 DEF PopCas
  <2> QED
    BY <1>8, <2>1, <2>2, TailChain DEF PopCas
<1>9. CASE t \in Poppers /\ PopRetry(t)
  BY <1>9 DEF PopRetry, ChainIsList
<1>10. CASE t \in Poppers /\ PopFix(t)
  <2>1. PICK i \in Items : owner[i] = t /\ \E p \in Ptr : next' = [next EXCEPT ![i] = p]
    BY NoHeadType, <1>10 DEF PopFix, LocalsOK, LocalOK, HeadP
  <2>2. t # LIST
    BY ConstantsOK
  <2> QED
    BY <1>10, <2>1, <2>2 DEF PopFix, ChainIsList
<1>11. CASE t \in Poppers /\ PopAllCall(t)
  BY <1>11 DEF PopAllCall, ChainIsList
<1>12. CASE t \in Poppers /\ PopAllLoad(t)
  BY <1>12 DEF PopAllLoad, ChainIsList
<1>13. CASE t \in Poppers /\ PopAllCas(t)
  <2>1. t # LIST
    BY ConstantsOK
  <2> QED
    BY <1>13, <2>1 DEF PopAllCas, ChainIsList
<1>14. CASE t \in Poppers /\ PopAllRetry(t)
  BY <1>14 DEF PopAllRetry, ChainIsList
<1>15. CASE t \in Removers /\ RemCall(t)
  BY <1>15 DEF RemCall, ChainIsList
<1>16. CASE t \in Removers /\ RemLoad(t)
  BY <1>16 DEF RemLoad, ChainIsList
<1>17. CASE t \in Removers /\ RemCas(t)
  <2>1. /\ lst # <<>> /\ nxt[t] = next[lst[1]] /\ snap[t].ptr = lst[1]
        /\ pc[t] = "rem_cas" => item[t] = lst[1]
    BY <1>17, TakesTop DEF RemCas
  <2>2. head'.ptr = next[lst[1]]
    BY <1>17, <2>1 DEF RemCas
  <2> QED
    BY <1>17, <2>1, <2>2, TailChain DEF RemCas
<1>18. CASE t \in Removers /\ RemRetry(t)
  BY <1>18 DEF RemRetry, ChainIsList
<1>19. CASE t \in Removers /\ RemWalk(t)
  BY <1>19 DEF RemWalk, ChainIsList
<1>20. CASE t \in Removers /\ RemFail(t)
  BY <1>20 DEF RemFail, ChainIsList
<1>21. CASE t \in Removers /\ RemUnlink(t)
  <2> DEFINE i == item[t]
             c == cur[t]
             n == Len(lst)
  <2>1. /\ c \in Items /\ i \in Items /\ owner[c] = LIST /\ t # LIST
        /\ owner[i] = LIST => nxt[t] = next[i]
    BY <1>21, ConstantsOK DEF RemUnlink, LocalsOK, LocalOK
  <2>2. PICK m \in 1 .. n : lst[m] = i /\ lst' = Without(lst, m)
    BY <1>21 DEF RemUnlink
  <2>3. /\ n \in Nat /\ Len(lst') = n - 1 /\ lst' \in Seq(Items)
        /\ \A j \in 1 .. n - 1 : lst'[j] = IF j < m THEN lst[j] ELSE lst[j + 1]
    BY <2>2, WithoutLemma
  <2>4. /\ \A k \in 1 .. n : lst[k] \in Items
        /\ \A k \in 1 .. n : next[lst[k]] = IF k = n THEN NULL ELSE lst[k + 1]
        /\ \A j, k \in 1 .. n : lst[j] = lst[k] => j = k
        /\ \A e \in Items : owner[e] = LIST <=> \E k \in 1 .. n : lst[k] = e
    BY DEF ChainIsList
  <2>5. PICK q \in 1 .. n : lst[q] = c
    BY <2>1, <2>4
  <2>6. q + 1 = m
    <3>1. next[lst[q]] = lst[m] /\ lst[m] # NULL
      BY <1>21, <2>1, <2>2, <2>5, ConstantsOK DEF RemUnlink
    <3>2. q # n /\ lst[q + 1] = lst[m]
      BY <3>1, <2>4
    <3>3. q + 1 \in 1 .. n
      BY <3>2, <2>3
    <3> QED
      BY <3>2, <3>3, <2>4
  <2>7. nxt[t] = IF m = n THEN NULL ELSE lst[m + 1]
    BY <2>1, <2>2, <2>4
  <2>8. /\ next'[c] = nxt[t]
        /\ \A e \in Items : e # c /\ e # i => next'[e] = next[e]
    <3>1. c # i
      BY <2>2, <2>4, <2>5, <2>6, <2>3
    <3> QED
      BY <1>21, <2>1, <3>1 DEF RemUnlink
  <2>9. head'.ptr = IF lst' = <<>> THEN NULL ELSE lst'[1]
    <3>1. 1 \in 1 .. n - 1 /\ 1 < m
      BY <2>3, <2>6
    <3>2. lst'[1] = lst[1] /\ lst' # <<>> /\ lst # <<>>
      BY <3>1, <2>3
    <3> QED
      BY <1>21, <3>2 DEF RemUnlink, ChainIsList
  <2>10. ASSUME NEW k \in 1 .. n - 1
         PROVE  next'[lst'[k]] = IF k = n - 1 THEN NULL ELSE lst'[k + 1]
    <3>1. CASE k < q
      BY <3>1, <2>2, <2>3, <2>4, <2>5, <2>6, <2>8
    <3>2. CASE k = q
      BY <3>2, <2>2, <2>3, <2>4, <2>5, <2>6, <2>7, <2>8
    <3>3. CASE k > q
      <4>1. /\ ~(k < m) /\ k + 1 \in 1 .. n /\ k + 1 # m /\ k + 1 # q
            /\ (k # n - 1 => k + 1 \in 1 .. n - 1 /\ ~(k + 1 < m))
        <5>1. n \in Int /\ k \in Int /\ q \in Int /\ q + 1 = m /\ k > q /\ 1 <= k /\ k <= n - 1
          BY <3>3, <2>3, <2>6
        <5> HIDE DEF n
        <5> QED
          BY <5>1
      <4>2. lst'[k] = lst[k + 1] /\ lst[k + 1] # c /\ lst[k + 1] # i /\ lst[k + 1] \in Items
        BY <4>1, <2>2, <2>3, <2>4, <2>5
      <4>3. next'[lst'[k]] = IF k + 1 = n THEN NULL ELSE lst[(k + 1) + 1]
        BY <4>1, <4>2, <2>4, <2>8
      <4>4. k # n - 1 => lst'[k + 1] = lst[(k + 1) + 1]
        BY <4>1, <2>3
      <4> QED
        BY <4>3, <4>4, <2>3
    <3> QED
      BY <3>1, <3>2, <3>3, <2>3
  <2>11. \A j, k \in 1 .. n - 1 : lst'[j] = lst'[k] => j = k
    BY <2>3, <2>4
  <2>12. ASSUME NEW e \in Items
         PROVE  owner'[e] = LIST <=> \E k \in 1 .. n - 1 : lst'[k] = e
    <3>1. owner'[e] = LIST <=> owner[e] = LIST /\ e # i
      BY <1>21, <2>1 DEF RemUnlink
    <3>2. ASSUME owner[e] = LIST, e # i
          PROVE  \E k \in 1 .. n - 1 : lst'[k] = e
      <4>1. PICK k \in 1 .. n : lst[k] = e
        BY <3>2, <2>4
      <4>2. CASE k < m
        <5>1. k \in 1 .. n - 1
          BY <4>2, <2>3
        <5> QED
          BY <4>1, <4>2, <5>1, <2>3
      <4>3. CASE k > m
        <5>1. k - 1 \in 1 .. n - 1 /\ (k - 1) + 1 = k /\ ~(k - 1 < m)
          BY <4>3, <2>3
        <5> QED
          BY <4>1, <5>1, <2>3
      <4> QED
        BY <3>2, <4>1, <4>2, <4>3, <2>2, <2>3
    <3>3. ASSUME NEW k \in 1 .. n - 1, lst'[k] = e
          PROVE  owner[e] = LIST /\ e # i
      BY <3>3, <2>2, <2>3, <2>4
    <3> QED
      BY <3>1, <3>2, <3>3
  <2> QED
    BY <2>3, <2>9, <2>10, <2>11, <2>12 DEF ChainIsList
<1>22. CASE EmptyReturn(t)
  BY <1>22 DEF EmptyReturn, ChainIsList
<1>23. CASE Scribble(t)
  <2>1. PICK i \in Items, p \in Ptr : owner[i] = t /\ next' = [next EXCEPT ![i] = p]
    BY <1>23 DEF Scribble
  <2>2. t # LIST
    BY ConstantsOK
  <2> QED
    BY <1>23, <2>1, <2>2 DEF Scribble, ChainIsList
<1> QED
  BY <1>1, <1>2, <1>3, <1>4, <1>5, <1>6, <1>7, <1>8, <1>9, <1>10,
     <1>11, <1>12, <1>13, <1>14, <1>15, <1>16, <1>17, <1>18, <1>19, <1>20, <1>21, <1>22, <1>23 DEF Step, Push, Pop, PopAll, Remove

\* The head, and the link of an item on the list, lead to items on the list.
LEMMA LinksStayOnList ==
  ASSUME IInv
  PROVE  /\ head.ptr # NULL => head.ptr \in Items /\ owner[head.ptr] = LIST
         /\ \A i \in Items : owner[i] = LIST /\ next[i] # NULL =>
                              next[i] \in Items /\ owner[next[i]] = LIST
<1>1. lst \in Seq(Items) /\ Len(lst) \in Nat
  BY DEF IInv, TypeOK
<1>2. ASSUME head.ptr # NULL PROVE head.ptr \in Items /\ owner[head.ptr] = LIST
  <2>1. lst # <<>> /\ head.ptr = lst[1]
    BY <1>2 DEF IInv, ChainIsList
  <2>2. 1 \in 1 .. Len(lst) /\ lst[1] \in Items
    BY <1>1, <2>1
  <2> QED
    BY <2>1, <2>2 DEF IInv, ChainIsList
<1>3. ASSUME NEW i \in Items, owner[i] = LIST, next[i] # NULL
      PROVE  next[i] \in Items /\ owner[next[i]] = LIST
  <2>1. PICK k \in 1 .. Len(lst) : lst[k] = i
    BY <1>3 DEF IInv, ChainIsList
  <2>2. k # Len(lst) /\ next[i] = lst[k + 1]
    BY <1>3, <2>1 DEF IInv, ChainIsList
  <2>3. k + 1 \in 1 .. Len(lst)
    BY <1>1, <2>2
  <2>4. lst[k + 1] \in Items
    BY <1>1, <2>3
  <2> QED
    BY <2>2, <2>3, <2>4 DEF IInv, ChainIsList
<1> QED
  BY <1>2, <1>3

\* A step keeps what every thread knows at its label.
LEMMA LocalStep ==
  ASSUME IInv, NEW t \in Threads, Step(t)
  PROVE  LocalsOK'
<1> USE DEF IInv, TypeOK, Goto, Return, Retry, Load, CasTake
<1>1. CASE t \in Pushers /\ PushCall(t)
  BY <1>1 DEF PushCall, LocalsOK, LocalOK, Taking
<1>2. CASE t \in Pushers /\ PushLoad(t)
  <2> SUFFICES ASSUME NEW u \in Threads PROVE LocalOK(u)'
    BY DEF LocalsOK
  <2> USE DEF LocalsOK, LocalOK, Taking
  <2>a. CASE u = t
    BY <1>2, <2>a, ConstantsOK DEF PushLoad, HeadP
  <2>b. CASE u # t
    BY <1>2, <2>b, ConstantsOK DEF PushLoad, HeadP
  <2> QED
    BY <2>a, <2>b
<1>3. CASE t \in Pushers /\ PushCas(t)
  <2> SUFFICES ASSUME NEW u \in Threads PROVE LocalOK(u)'
    BY DEF LocalsOK
  <2> USE DEF LocalsOK, LocalOK, Taking
  <2>a. CASE u = t
    BY <1>3, <2>a, ConstantsOK DEF PushCas
  <2>b. CASE u # t
    BY <1>3, <2>b, ConstantsOK DEF PushCas
  <2> QED
    BY <2>a, <2>b
<1>4. CASE t \in Pushers /\ PushRetry(t)
  BY <1>4 DEF PushRetry, LocalsOK, LocalOK, Taking
<1>5. CASE t \in Poppers /\ PopCall(t)
  BY <1>5 DEF PopCall, LocalsOK, LocalOK, Taking
<1>6. CASE t \in Poppers /\ PopLoad(t)
  <2>1. head.ptr # NULL => head.ptr \in Items /\ owner[head.ptr] = LIST
    BY LinksStayOnList
  <2> SUFFICES ASSUME NEW u \in Threads PROVE LocalOK(u)'
    BY DEF LocalsOK
  <2> USE DEF LocalsOK, LocalOK, Taking
  <2>a. CASE u = t
    BY <1>6, <2>a, <2>1 DEF PopLoad
  <2>b. CASE u # t
    BY <1>6, <2>b DEF PopLoad
  <2> QED
    BY <2>a, <2>b
<1>7. CASE t \in Poppers /\ PopNext(t)
  <2> SUFFICES ASSUME NEW u \in Threads PROVE LocalOK(u)'
    BY DEF LocalsOK
  <2> USE DEF LocalsOK, LocalOK, Taking
  <2>a. CASE u = t
    BY <1>7, <2>a DEF PopNext
  <2>b. CASE u # t
    BY <1>7, <2>b DEF PopNext
  <2> QED
    BY <2>a, <2>b
<1>8. CASE t \in Poppers /\ PopCas(t)
  <2>1. /\ snap[t].ptr \in Items /\ owner[snap[t].ptr] = LIST /\ t # LIST
        /\ \A u \in Threads : u # t /\ Pending(u) => age'[u] # 0
    BY <1>8, TakesTop, ConstantsOK, FreshCas DEF PopCas, LocalsOK, LocalOK, Taking, Pending
  <2> SUFFICES ASSUME NEW u \in Threads PROVE LocalOK(u)'
    BY DEF LocalsOK
  <2> USE DEF LocalsOK, LocalOK, Taking
  <2>a. CASE u = t
    BY <1>8, <2>a, <2>1 DEF PopCas, Pending
  <2>b. CASE u # t
    BY <1>8, <2>b, <2>1, SolePopper, ConstantsOK DEF PopCas, Pending
  <2> QED
    BY <2>a, <2>b
<1>9. CASE t \in Poppers /\ PopRetry(t)
  BY <1>9 DEF PopRetry, LocalsOK, LocalOK, Taking
<1>10. CASE t \in Poppers /\ PopFix(t)
  <2> SUFFICES ASSUME NEW u \in Threads PROVE LocalOK(u)'
    BY DEF LocalsOK
  <2> USE DEF LocalsOK, LocalOK, Taking
  <2>a. CASE u = t
    BY <1>10, <2>a, ConstantsOK DEF PopFix
  <2>b. CASE u # t
    BY <1>10, <2>b, ConstantsOK DEF PopFix
  <2> QED
    BY <2>a, <2>b
<1>11. CASE t \in Poppers /\ PopAllCall(t)
  BY <1>11 DEF PopAllCall, LocalsOK, LocalOK, Taking
<1>12. CASE t \in Poppers /\ PopAllLoad(t)
  <2>1. head.ptr # NULL => head.ptr \in Items /\ owner[head.ptr] = LIST
    BY LinksStayOnList
  <2> SUFFICES ASSUME NEW u \in Threads PROVE LocalOK(u)'
    BY DEF LocalsOK
  <2> USE DEF LocalsOK, LocalOK, Taking
  <2>a. CASE u = t
    BY <1>12, <2>a, <2>1 DEF PopAllLoad
  <2>b. CASE u # t
    BY <1>12, <2>b DEF PopAllLoad
  <2> QED
    BY <2>a, <2>b
<1>13. CASE t \in Poppers /\ PopAllCas(t)
  <2>1. t # LIST /\ \A u \in Threads : u # t /\ Pending(u) => age'[u] # 0
    BY <1>13, ConstantsOK DEF PopAllCas, Pending
  <2> SUFFICES ASSUME NEW u \in Threads PROVE LocalOK(u)'
    BY DEF LocalsOK
  <2> USE DEF LocalsOK, LocalOK, Taking
  <2>a. CASE u = t
    BY <1>13, <2>a, <2>1 DEF PopAllCas, Pending
  <2>b. CASE u # t
    BY <1>13, <2>b, <2>1, SolePopper, ConstantsOK DEF PopAllCas, Pending
  <2> QED
    BY <2>a, <2>b
<1>14. CASE t \in Poppers /\ PopAllRetry(t)
  BY <1>14 DEF PopAllRetry, LocalsOK, LocalOK, Taking
<1>15. CASE t \in Removers /\ RemCall(t)
  BY <1>15 DEF RemCall, LocalsOK, LocalOK, Taking
<1>16. CASE t \in Removers /\ RemLoad(t)
  <2>1. head.ptr # NULL => head.ptr \in Items /\ owner[head.ptr] = LIST
    BY LinksStayOnList
  <2> SUFFICES ASSUME NEW u \in Threads PROVE LocalOK(u)'
    BY DEF LocalsOK
  <2> USE DEF LocalsOK, LocalOK, Taking
  <2>a. CASE u = t
    BY <1>16, <2>a, <2>1 DEF RemLoad
  <2>b. CASE u # t
    BY <1>16, <2>b DEF RemLoad
  <2> QED
    BY <2>a, <2>b
<1>17. CASE t \in Removers /\ RemCas(t)
  <2>1. /\ snap[t].ptr \in Items /\ owner[snap[t].ptr] = LIST /\ t # LIST
        /\ \A u \in Threads : u # t /\ Pending(u) => age'[u] # 0
    BY <1>17, TakesTop, ConstantsOK, FreshCas DEF RemCas, LocalsOK, LocalOK, Taking, Pending
  <2> SUFFICES ASSUME NEW u \in Threads PROVE LocalOK(u)'
    BY DEF LocalsOK
  <2> USE DEF LocalsOK, LocalOK, Taking
  <2>a. CASE u = t
    BY <1>17, <2>a, <2>1 DEF RemCas, Pending
  <2>b. CASE u # t
    BY <1>17, <2>b, <2>1, SolePopper, ConstantsOK DEF RemCas, Pending
  <2> QED
    BY <2>a, <2>b
<1>18. CASE t \in Removers /\ RemRetry(t)
  BY <1>18 DEF RemRetry, LocalsOK, LocalOK, Taking
<1>19. CASE t \in Removers /\ RemWalk(t)
  <2>1. next[cur[t]] \in Items /\ owner[next[cur[t]]] = LIST
    BY <1>19, LinksStayOnList DEF RemWalk, LocalsOK, LocalOK
  <2> SUFFICES ASSUME NEW u \in Threads PROVE LocalOK(u)'
    BY DEF LocalsOK
  <2> USE DEF LocalsOK, LocalOK, Taking
  <2>a. CASE u = t
    BY <1>19, <2>a, <2>1 DEF RemWalk
  <2>b. CASE u # t
    BY <1>19, <2>b DEF RemWalk
  <2> QED
    BY <2>a, <2>b
<1>20. CASE t \in Removers /\ RemFail(t)
  BY <1>20 DEF RemFail, LocalsOK, LocalOK, Taking
<1>21. CASE t \in Removers /\ RemUnlink(t)
  <2>1. cur[t] \in Items /\ owner[cur[t]] = LIST /\ item[t] \in Items /\ t # LIST /\ owner[item[t]] \in {LIST, t}
    BY <1>21, ConstantsOK DEF RemUnlink, LocalsOK, LocalOK
  <2> SUFFICES ASSUME NEW u \in Threads PROVE LocalOK(u)'
    BY DEF LocalsOK
  <2> USE DEF LocalsOK, LocalOK, Taking
  <2>a. CASE u = t
    BY <1>21, <2>a, <2>1 DEF RemUnlink
  <2>b. CASE u # t
    BY <1>21, <2>b, <2>1, SolePopper, ConstantsOK DEF RemUnlink
  <2> QED
    BY <2>a, <2>b
<1>22. CASE EmptyReturn(t)
  BY <1>22 DEF EmptyReturn, LocalsOK, LocalOK, Taking
<1>23. CASE Scribble(t)
  <2>1. PICK i \in Items, p \in Ptr : owner[i] = t /\ next' = [next EXCEPT ![i] = p]
    BY <1>23 DEF Scribble
  <2> SUFFICES ASSUME NEW u \in Threads PROVE LocalOK(u)'
    BY DEF LocalsOK
  <2> USE DEF LocalsOK, LocalOK, Taking
  <2>a. CASE u = t
    BY <1>23, <2>a, <2>1, ConstantsOK DEF Scribble
  <2>b. CASE u # t
    BY <1>23, <2>b, <2>1, ConstantsOK DEF Scribble
  <2> QED
    BY <2>a, <2>b
<1> QED
  BY <1>1, <1>2, <1>3, <1>4, <1>5, <1>6, <1>7, <1>8, <1>9, <1>10,
     <1>11, <1>12, <1>13, <1>14, <1>15, <1>16, <1>17, <1>18, <1>19, <1>20, <1>21, <1>22, <1>23 DEF Step, Push, Pop, PopAll, Remove

\* A step never puts the item behind the walk that looks for it.
LEMMA FindStep ==
  ASSUME IInv, NEW t \in Threads, Step(t)
  PROVE  RemoveFinds'
<1> USE DEF IInv, TypeOK, Goto, Return, Retry, Load, CasTake
<1>1. CASE t \in Pushers /\ PushCall(t)
  <2> SUFFICES ASSUME NEW u \in Removers, (pc[u] = "rem_walk" /\ owner[item[u]] = LIST)'
               PROVE  \E j, k \in 1 .. Len(lst') : j < k /\ lst'[j] = cur'[u] /\ lst'[k] = item'[u]
    BY DEF RemoveFinds
  <2>1. pc[u] = "rem_walk" /\ item'[u] = item[u] /\ cur'[u] = cur[u] /\ owner' = owner /\ lst' = lst
    BY <1>1 DEF PushCall, Threads
  <2> QED
    BY <2>1 DEF RemoveFinds
<1>2. CASE t \in Pushers /\ PushLoad(t)
  BY <1>2 DEF PushLoad, RemoveFinds
<1>3. CASE t \in Pushers /\ PushCas(t)
  <2> SUFFICES ASSUME NEW u \in Removers, (pc[u] = "rem_walk" /\ owner[item[u]] = LIST)'
               PROVE  \E j, k \in 1 .. Len(lst') : j < k /\ lst'[j] = cur'[u] /\ lst'[k] = item'[u]
    BY DEF RemoveFinds
  <2>1. u \in Threads /\ u # t /\ pc[u] = "rem_walk" /\ item[t] \in Items /\ owner[item[t]] = t /\ t # LIST
    BY <1>3, ConstantsOK DEF PushCas, Threads, LocalsOK, LocalOK
  <2>2. item[u] \in Items /\ owner[item[u]] \in {LIST, u}
    BY <2>1 DEF LocalsOK, LocalOK
  <2>3. owner[item[u]] = LIST /\ cur'[u] = cur[u] /\ item'[u] = item[u]
    BY <1>3, <2>1, <2>2, ConstantsOK DEF PushCas
  <2>4. PICK j \in 1 .. Len(lst), k \in 1 .. Len(lst) : j < k /\ lst[j] = cur[u] /\ lst[k] = item[u]
    BY <2>1, <2>3 DEF RemoveFinds
  <2>5. Len(lst) \in Nat /\ Len(lst') = Len(lst) + 1 /\ \A x \in 1 .. Len(lst) : lst'[x + 1] = lst[x]
    BY <1>3, <2>1, ConsLemma DEF PushCas
  <2>6. j + 1 \in 1 .. Len(lst') /\ k + 1 \in 1 .. Len(lst') /\ j + 1 < k + 1
    BY <2>4, <2>5
  <2> QED
    BY <2>3, <2>4, <2>5, <2>6
<1>4. CASE t \in Pushers /\ PushRetry(t)
  BY <1>4 DEF PushRetry, RemoveFinds
<1>5. CASE t \in Poppers /\ PopCall(t)
  BY <1>5 DEF PopCall, RemoveFinds
<1>6. CASE t \in Poppers /\ PopLoad(t)
  BY <1>6 DEF PopLoad, RemoveFinds
<1>7. CASE t \in Poppers /\ PopNext(t)
  BY <1>7 DEF PopNext, RemoveFinds
<1>8. CASE t \in Poppers /\ PopCas(t)
  <2> SUFFICES ASSUME NEW u \in Removers, (pc[u] = "rem_walk")'
               PROVE  FALSE
    BY DEF RemoveFinds
  <2> QED
    BY <1>8, SolePopper DEF PopCas, Threads
<1>9. CASE t \in Poppers /\ PopRetry(t)
  BY <1>9 DEF PopRetry, RemoveFinds
<1>10. CASE t \in Poppers /\ PopFix(t)
  <2> SUFFICES ASSUME NEW u \in Removers, (pc[u] = "rem_walk" /\ owner[item[u]] = LIST)'
               PROVE  \E j, k \in 1 .. Len(lst') : j < k /\ lst'[j] = cur'[u] /\ lst'[k] = item'[u]
    BY DEF RemoveFinds
  <2>1. pc[u] = "rem_walk" /\ item'[u] = item[u] /\ cur'[u] = cur[u] /\ owner' = owner /\ lst' = lst
    BY <1>10 DEF PopFix, Threads
  <2> QED
    BY <2>1 DEF RemoveFinds
<1>11. CASE t \in Poppers /\ PopAllCall(t)
  BY <1>11 DEF PopAllCall, RemoveFinds
<1>12. CASE t \in Poppers /\ PopAllLoad(t)
  BY <1>12 DEF PopAllLoad, RemoveFinds
<1>13. CASE t \in Poppers /\ PopAllCas(t)
  <2> SUFFICES ASSUME NEW u \in Removers, (pc[u] = "rem_walk")'
               PROVE  FALSE
    BY DEF RemoveFinds
  <2> QED
    BY <1>13, SolePopper DEF PopAllCas, Threads
<1>14. CASE t \in Poppers /\ PopAllRetry(t)
  BY <1>14 DEF PopAllRetry, RemoveFinds
<1>15. CASE t \in Removers /\ RemCall(t)
  BY <1>15 DEF RemCall, RemoveFinds
<1>16. CASE t \in Removers /\ RemLoad(t)
  <2> SUFFICES ASSUME NEW u \in Removers, (pc[u] = "rem_walk" /\ owner[item[u]] = LIST)'
               PROVE  \E j, k \in 1 .. Len(lst') : j < k /\ lst'[j] = cur'[u] /\ lst'[k] = item'[u]
    BY DEF RemoveFinds
  <2>1. CASE u # t
    <3>1. pc[u] = "rem_walk" /\ item'[u] = item[u] /\ cur'[u] = cur[u] /\ owner' = owner /\ lst' = lst
      BY <1>16, <2>1 DEF RemLoad, Threads
    <3> QED
      BY <3>1 DEF RemoveFinds
  <2>2. CASE u = t
    <3>1. /\ lst' = lst /\ owner' = owner /\ item' = item
          /\ cur'[t] = head.ptr /\ head.ptr # NULL /\ head.ptr # item[t]
      BY <1>16, <2>2 DEF RemLoad
    <3>2. lst # <<>> /\ head.ptr = lst[1] /\ item[t] \in Items
      BY <1>16, <3>1 DEF RemLoad, ChainIsList, LocalsOK, LocalOK
    <3>3. PICK k \in 1 .. Len(lst) : lst[k] = item[t]
      BY <2>2, <3>1, <3>2 DEF ChainIsList
    <3>4. Len(lst) \in Nat /\ 1 \in 1 .. Len(lst) /\ 1 < k
      BY <3>1, <3>2, <3>3
    <3> QED
      BY <2>2, <3>1, <3>2, <3>3, <3>4
  <2> QED
    BY <2>1, <2>2
<1>17. CASE t \in Removers /\ RemCas(t)
  <2> SUFFICES ASSUME NEW u \in Removers, (pc[u] = "rem_walk")'
               PROVE  FALSE
    BY DEF RemoveFinds
  <2> QED
    BY <1>17, SolePopper DEF RemCas, Threads
<1>18. CASE t \in Removers /\ RemRetry(t)
  BY <1>18 DEF RemRetry, RemoveFinds
<1>19. CASE t \in Removers /\ RemWalk(t)
  <2> SUFFICES ASSUME NEW u \in Removers, (pc[u] = "rem_walk" /\ owner[item[u]] = LIST)'
               PROVE  \E j, k \in 1 .. Len(lst') : j < k /\ lst'[j] = cur'[u] /\ lst'[k] = item'[u]
    BY DEF RemoveFinds
  <2>0. u = t /\ pc[t] = "rem_walk" /\ lst' = lst /\ item' = item /\ owner' = owner
    BY <1>19, SolePopper DEF RemWalk
  <2>1. PICK j \in 1 .. Len(lst), k \in 1 .. Len(lst) : j < k /\ lst[j] = cur[t] /\ lst[k] = item[t]
    BY <2>0 DEF RemoveFinds
  <2>2. cur'[t] = next[cur[t]] /\ next[cur[t]] # item[t]
    BY <1>19 DEF RemWalk
  <2>3. Len(lst) \in Nat /\ j + 1 \in 1 .. Len(lst) /\ j # Len(lst)
    BY <2>1
  <2>4. next[cur[t]] = lst[j + 1]
    BY <2>1, <2>3 DEF ChainIsList
  <2>5. j + 1 # k
    BY <2>1, <2>2, <2>4
  <2>6. j + 1 < k
    BY <2>1, <2>5
  <2> QED
    BY <2>0, <2>1, <2>2, <2>3, <2>4, <2>6
<1>20. CASE t \in Removers /\ RemFail(t)
  <2> SUFFICES ASSUME NEW u \in Removers, (pc[u] = "rem_walk" /\ owner[item[u]] = LIST)'
               PROVE  \E j, k \in 1 .. Len(lst') : j < k /\ lst'[j] = cur'[u] /\ lst'[k] = item'[u]
    BY DEF RemoveFinds
  <2>1. pc[u] = "rem_walk" /\ item'[u] = item[u] /\ cur'[u] = cur[u] /\ owner' = owner /\ lst' = lst
    BY <1>20 DEF RemFail, Threads
  <2> QED
    BY <2>1 DEF RemoveFinds
<1>21. CASE t \in Removers /\ RemUnlink(t)
  <2> SUFFICES ASSUME NEW u \in Removers, (pc[u] = "rem_walk")'
               PROVE  FALSE
    BY DEF RemoveFinds
  <2> QED
    BY <1>21, SolePopper DEF RemUnlink, Threads
<1>22. CASE EmptyReturn(t)
  <2> SUFFICES ASSUME NEW u \in Removers, (pc[u] = "rem_walk" /\ owner[item[u]] = LIST)'
               PROVE  \E j, k \in 1 .. Len(lst') : j < k /\ lst'[j] = cur'[u] /\ lst'[k] = item'[u]
    BY DEF RemoveFinds
  <2>1. pc[u] = "rem_walk" /\ item'[u] = item[u] /\ cur'[u] = cur[u] /\ owner' = owner /\ lst' = lst
    BY <1>22 DEF EmptyReturn, Threads
  <2> QED
    BY <2>1 DEF RemoveFinds
<1>23. CASE Scribble(t)
  BY <1>23 DEF Scribble, RemoveFinds
<1> QED
  BY <1>1, <1>2, <1>3, <1>4, <1>5, <1>6, <1>7, <1>8, <1>9, <1>10,
     <1>11, <1>12, <1>13, <1>14, <1>15, <1>16, <1>17, <1>18, <1>19, <1>20, <1>21, <1>22, <1>23 DEF Step, Push, Pop, PopAll, Remove

-----------------------------------------------------------------------------
(* Theorems                                                                *)

\* The invariant is inductive.
THEOREM Inductive == Spec => []IInv
<1>1. Init => IInv
  BY InitIInv
<1>2. IInv /\ [Next]_vars => IInv'
  <2> SUFFICES ASSUME IInv, [Next]_vars PROVE IInv'
    OBVIOUS
  <2>1. CASE Next
    <3>1. PICK t \in Threads : Step(t)
      BY <2>1, NextIsStep
    <3> QED
      BY <3>1, TypeStep, ChainStep, VersionStep, LocalStep, FindStep DEF IInv
  <2>2. CASE UNCHANGED vars
    BY <2>2 DEF vars, IInv, TypeOK, ChainIsList, VersionsTell, LocalsOK, LocalOK,
                RemoveFinds, Pending, Taking
  <2> QED
    BY <2>1, <2>2
<1> QED
  BY <1>1, <1>2, PTL DEF Spec

\* Type correctness of the list's state.
THEOREM TypeCorrect == Spec => []TypeOK
<1>1. IInv => TypeOK
  BY DEF IInv
<1> QED
  BY <1>1, Inductive, PTL

\* No interleaving of push, pop, popall and remove loses, duplicates or
\* reorders an item of the list.
THEOREM ListIntact == Spec => []ChainIsList
<1>1. IInv => ChainIsList
  BY DEF IInv
<1> QED
  BY <1>1, Inductive, PTL

\* A compare-and-swap of push, pop, popall or remove succeeds only on a head
\* from which nothing was taken since it was loaded.
THEOREM NoABA == Spec => []NoStaleCas
<1>1. IInv => NoStaleCas
  <2> SUFFICES ASSUME IInv, NEW t \in Threads, Pending(t), snap[t] = head
               PROVE  /\ age[t] = 0
                      /\ pc[t] \in {"pop_cas", "rem_cas"} => nxt[t] = next[head.ptr]
    BY DEF NoStaleCas
  <2>1. age[t] = 0
    BY FreshCas
  <2> QED
    BY <2>1, TakesTop
<1> QED
  BY <1>1, Inductive, PTL

\* remove never misses an item that is on the list.
THEOREM RemoveIsComplete == Spec => []RemoveFinds
<1>1. IInv => RemoveFinds
  BY DEF IInv
<1> QED
  BY <1>1, Inductive, PTL

\* The items each thread owns.
Held == [u \in Threads |-> {e \in Items : owner[e] = u}]

\* Taking item i off the list adds it to what the taker owns.
LEMMA HeldTake ==
  ASSUME TypeOK, NEW t \in Threads, NEW i \in Items,
         owner[i] = LIST, owner' = [owner EXCEPT ![i] = t]
  PROVE  Held' = [Held EXCEPT ![t] = @ \cup {i}]
<1>1. t # LIST /\ LIST \notin Threads
  BY ConstantsOK
<1>2. ASSUME NEW u \in Threads
      PROVE  {e \in Items : owner'[e] = u} =
               IF u = t THEN {e \in Items : owner[e] = u} \cup {i} ELSE {e \in Items : owner[e] = u}
  BY <1>1 DEF TypeOK
<1> QED
  BY <1>2 DEF Held

\* Every step that changes the list or the ownership is an operation on the
\* stack.
LEMMA StepRefines ==
  ASSUME IInv, NEW t \in Threads, Step(t)
  PROVE  Stack!AbsNext \/ (lst' = lst /\ owner' = owner)
<1> USE DEF Held
<1>1. CASE t \in Pushers /\ PushCas(t)
  <2>1. item[t] \in Items /\ owner[item[t]] = t /\ t # LIST /\ LIST \notin Threads
    BY <1>1, ConstantsOK DEF PushCas, IInv, LocalsOK, LocalOK
  <2>2. ASSUME NEW u \in Threads
        PROVE  {e \in Items : owner'[e] = u} =
                 IF u = t THEN {e \in Items : owner[e] = u} \ {item[t]}
                          ELSE {e \in Items : owner[e] = u}
    BY <1>1, <2>1 DEF PushCas, IInv, TypeOK
  <2>3. Held' = [Held EXCEPT ![t] = @ \ {item[t]}]
    BY <2>2
  <2>4. item[t] \in Held[t] /\ lst' = <<item[t]>> \o lst
    BY <1>1, <2>1 DEF PushCas
  <2> QED
    BY <2>3, <2>4 DEF Stack!AbsNext, Stack!AbsPush
<1>2. CASE t \in Poppers /\ PopCas(t)
  <2>1. lst # <<>> /\ lst[1] = snap[t].ptr /\ lst[1] \in Items
    BY <1>2, TakesTop DEF PopCas, CasTake
  <2>2. owner[lst[1]] = LIST
    BY <1>2, <2>1, ConstantsOK, LinksStayOnList DEF PopCas, CasTake
  <2>3. Held' = [Held EXCEPT ![t] = @ \cup {lst[1]}]
    BY <1>2, <2>1, <2>2, HeldTake DEF PopCas, IInv
  <2> QED
    BY <1>2, <2>1, <2>3 DEF PopCas, Stack!AbsNext, Stack!AbsPop
<1>3. CASE t \in Removers /\ RemCas(t)
  <2>1. lst # <<>> /\ lst[1] = snap[t].ptr /\ lst[1] \in Items /\ item[t] = lst[1]
    BY <1>3, TakesTop DEF RemCas, CasTake
  <2>2. owner[lst[1]] = LIST
    BY <1>3, <2>1, ConstantsOK, LinksStayOnList DEF RemCas, CasTake
  <2>3. Held' = [Held EXCEPT ![t] = @ \cup {lst[1]}]
    BY <1>3, <2>1, <2>2, HeldTake DEF RemCas, IInv
  <2> QED
    BY <1>3, <2>1, <2>3 DEF RemCas, Stack!AbsNext, Stack!AbsPop
<1>4. CASE t \in Poppers /\ PopAllCas(t)
  <2>1. lst # <<>>
    BY <1>4, ConstantsOK DEF PopAllCas, CasTake, IInv, LocalsOK, LocalOK, ChainIsList
  <2>2. DOMAIN lst = 1 .. Len(lst)
    BY DEF IInv, TypeOK
  <2>3. t # LIST /\ LIST \notin Threads
    BY ConstantsOK
  <2>4. \A e \in Items : owner[e] = LIST <=> e \in {lst[k] : k \in DOMAIN lst}
    <3>1. \A e \in Items : owner[e] = LIST <=> \E k \in DOMAIN lst : lst[k] = e
      BY <2>2 DEF IInv, ChainIsList
    <3> QED
      BY <3>1
  <2>5. {lst[k] : k \in DOMAIN lst} \in SUBSET Items
    BY <2>2 DEF IInv, TypeOK
  <2>6. ASSUME NEW u \in Threads
        PROVE  {e \in Items : owner'[e] = u} =
                 IF u = t THEN {e \in Items : owner[e] = u} \cup {lst[k] : k \in DOMAIN lst}
                          ELSE {e \in Items : owner[e] = u}
    <3>1. \A e \in Items : owner'[e] = IF owner[e] = LIST THEN t ELSE owner[e]
      BY <1>4 DEF PopAllCas
    <3> QED
      BY <3>1, <2>3, <2>4, <2>5
  <2>7. Held' = [Held EXCEPT ![t] = @ \cup {lst[k] : k \in DOMAIN lst}]
    BY <2>6
  <2> QED
    BY <1>4, <2>1, <2>7 DEF PopAllCas, Stack!AbsNext, Stack!AbsPopAll
<1>5. CASE t \in Removers /\ RemUnlink(t)
  <2>1. PICK k \in DOMAIN lst : lst[k] = item[t] /\ lst' = Without(lst, k)
    BY <1>5 DEF RemUnlink
  <2>2. lst[k] \in Items /\ owner[lst[k]] = LIST
    BY <2>1 DEF IInv, TypeOK, ChainIsList
  <2>3. Held' = [Held EXCEPT ![t] = @ \cup {lst[k]}]
    BY <1>5, <2>1, <2>2, HeldTake DEF RemUnlink, IInv
  <2>4. Without(lst, k) = Stack!Without(lst, k)
    BY DEF Without, Stack!Without
  <2> QED
    BY <2>1, <2>3, <2>4 DEF Stack!AbsNext, Stack!AbsRemove
<1>6. CASE /\ ~PushCas(t) /\ ~PopCas(t) /\ ~RemCas(t) /\ ~PopAllCas(t) /\ ~RemUnlink(t)
  BY <1>6 DEF Step, Push, Pop, PopAll, Remove, PushCall, PushLoad, PushRetry, PopCall, PopLoad,
      PopNext, PopRetry, PopFix, PopAllCall, PopAllLoad, PopAllRetry, RemCall, RemLoad, RemRetry,
      RemWalk, RemFail, EmptyReturn, Scribble, Retry
<1> QED
  BY <1>1, <1>2, <1>3, <1>4, <1>5, <1>6 DEF Step, Push, Pop, PopAll, Remove, PushCall, PushLoad,
      PushRetry, PopCall, PopLoad, PopNext, PopRetry, PopFix, PopAllCall, PopAllLoad, PopAllRetry,
      RemCall, RemLoad, RemRetry, RemWalk, RemFail, EmptyReturn, Scribble, Retry

\* The lock-free list implements the atomic stack.
THEOREM Refinement == Spec => ImplementsStack
<1>1. Init => Stack!AbsInit
  BY DEF Init, Stack!AbsInit, Threads
<1>2. IInv /\ [Next]_vars => [Stack!AbsNext]_(Stack!absvars)
  <2> SUFFICES ASSUME IInv, [Next]_vars PROVE Stack!AbsNext \/ UNCHANGED Stack!absvars
    OBVIOUS
  <2>1. CASE Next
    <3>1. PICK t \in Threads : Step(t)
      BY <2>1, NextIsStep
    <3>2. CASE lst' = lst /\ owner' = owner
      BY <3>2 DEF Stack!absvars
    <3> QED
      BY <3>1, <3>2, StepRefines
  <2>2. CASE UNCHANGED vars
    BY <2>2 DEF vars, Stack!absvars
  <2> QED
    BY <2>1, <2>2
<1> QED
  BY <1>1, <1>2, Inductive, PTL DEF Spec, ImplementsStack, Stack!AbsSpec
=============================================================================
