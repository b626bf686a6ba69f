--------------------- MODULE RateHelperSelectionProofs ---------------------
(***************************************************************************)
(* Proofs about RateHelperSelection for lists of any length, any dates and  *)
(* any priorities: the removal loop stays within its vector; with one       *)
(* minimum distance what it leaves is as far apart as was asked; a helper   *)
(* of higher priority than all near it survives; the futures of each cycle  *)
(* are the front-most, as many as were asked for; and deposits make way for *)
(* the front futures as the criterion says.                                 *)
(***************************************************************************)
EXTENDS RateHelperSelection, SequenceTheorems, FiniteSetTheorems,
        WellFoundedInduction, TLAPS

Item == [objectID: Nat, kind: Kinds, priority: Priorities,
         earliestDate: Int, latestDate: Int, minDist: MinDists]

ByDate(s) == \A m, n \in DOMAIN s : m < n => s[m].latestDate <= s[n].latestDate

Types ==
  /\ rhsAll \in Seq(Item) /\ rhs \in Seq(Item)
  /\ i \in Nat /\ i # 0
  /\ phase \in {"select", "space", "done"}

\* The removal loop: the iterator is at a helper, and the helpers are in order.
Looping == phase = "space" => k \in 1 .. Len(rhs) /\ ByDate(rhs)

\* It has not begun before the selection has ended.
NotBegun == phase = "select" => k = 1

\* The inductive invariant of the removal loop.
LoopInv == Types /\ Looping /\ NotBegun

\* The distance d between any two helpers up to the nth.
ApartUpTo(s, n, d) ==
  \A m, p \in 1 .. n : m < p => s[p].latestDate - s[m].latestDate >= d

AllAsk(d) ==
  /\ \A n \in DOMAIN rhsAll : rhsAll[n].minDist = d
  /\ \A n \in DOMAIN rhs : rhs[n].minDist = d

\* The inductive invariant of spacing: what the iterator has left behind is apart.
SpaceInv ==
  /\ LoopInv
  /\ \E d \in MinDists :
       /\ AllAsk(d)
       /\ phase = "space" => ApartUpTo(rhs, k, d)
       /\ phase = "done" => ApartUpTo(rhs, Len(rhs), d)

-----------------------------------------------------------------------------
(* Sorting and erasing *)

\* A sorting has the length and the items of what it sorts, in the order of dates.
LEMMA SortingProperties ==
  ASSUME NEW s \in Seq(Item), NEW t \in Sortings(s)
  PROVE  /\ t \in Seq(Item) /\ Len(t) = Len(s)
         /\ ByDate(t)
         /\ \A n \in 1 .. Len(t) : \E m \in 1 .. Len(s) : t[n] = s[m]
<1>1. PICK p \in Bijection(DOMAIN s, DOMAIN s) : t = [n \in DOMAIN s |-> s[p[n]]]
  BY DEF Sortings
<1>2. p \in [DOMAIN s -> DOMAIN s]
  BY <1>1 DEF Bijection, Injection
<1>3. DOMAIN s = 1 .. Len(s) /\ Len(s) \in Nat /\ \A n \in DOMAIN s : s[n] \in Item
  BY ElementOfSeq
<1>4. t \in [1 .. Len(s) -> Item]
  BY <1>1, <1>2, <1>3
<1>5. t \in Seq(Item) /\ Len(t) = Len(s) /\ DOMAIN t = DOMAIN s
  BY <1>3, <1>4, SeqDef
<1>6. ByDate(t)
  <2> SUFFICES ASSUME NEW m \in DOMAIN t, NEW n \in DOMAIN t, m < n
               PROVE  t[m].latestDate <= t[n].latestDate
    BY DEF ByDate
  <2>1. ~PriorityBefore(t[n], t[m])
    BY <1>5 DEF Sortings
  <2>2. t[m].latestDate \in Int /\ t[n].latestDate \in Int
    BY <1>3, <1>4, <1>5 DEF Item
  <2> QED
    BY <2>1, <2>2 DEF PriorityBefore
<1>7. \A n \in 1 .. Len(t) : \E m \in 1 .. Len(s) : t[n] = s[m]
  BY <1>1, <1>2, <1>3, <1>5
<1> QED
  BY <1>5, <1>6, <1>7

\* Erasing one helper moves those behind it to the front by one.
LEMMA ErasedProperties ==
  ASSUME rhs \in Seq(Item), NEW n \in 1 .. Len(rhs)
  PROVE  /\ Erased(n) \in Seq(Item)
         /\ Len(Erased(n)) = Len(rhs) - 1
         /\ \A m \in 1 .. Len(rhs) - 1 : Erased(n)[m] = IF m < n THEN rhs[m] ELSE rhs[m + 1]
<1> DEFINE front == SubSeq(rhs, 1, n - 1)
           back == SubSeq(rhs, n + 1, Len(rhs))
<1>1. Len(rhs) \in Nat /\ \A m \in 1 .. Len(rhs) : rhs[m] \in Item
  BY ElementOfSeq
<1>2. /\ front \in Seq(Item)
      /\ Len(front) = IF 1 <= n - 1 THEN n - 1 - 1 + 1 ELSE 0
      /\ \A m \in 1 .. n - 1 - 1 + 1 : front[m] = rhs[1 + m - 1]
  <2>1. \A m \in 1 .. n - 1 : rhs[m] \in Item
    BY <1>1
  <2> HIDE DEF front
  <2> QED
    BY <1>1, <2>1, SubSeqProperties DEF front
<1>3. /\ back \in Seq(Item)
      /\ Len(back) = IF n + 1 <= Len(rhs) THEN Len(rhs) - (n + 1) + 1 ELSE 0
      /\ \A m \in 1 .. Len(rhs) - (n + 1) + 1 : back[m] = rhs[n + 1 + m - 1]
  <2>1. \A m \in n + 1 .. Len(rhs) : rhs[m] \in Item
    BY <1>1
  <2> QED
    BY <1>1, <2>1, SubSeqProperties
<1> HIDE DEF front, back
<1>4. Len(front) = n - 1 /\ Len(back) = Len(rhs) - n
  BY <1>1, <1>2, <1>3
<1>5. /\ front \o back \in Seq(Item)
      /\ Len(front \o back) = Len(front) + Len(back)
      /\ \A m \in 1 .. Len(front) + Len(back) : (front \o back)[m] =
           IF m <= Len(front) THEN front[m] ELSE back[m - Len(front)]
  BY <1>2, <1>3, ConcatProperties
<1>6. Erased(n) = front \o back
  BY DEF Erased, front, back
<1>7. ASSUME NEW m \in 1 .. Len(rhs) - 1
      PROVE  Erased(n)[m] = IF m < n THEN rhs[m] ELSE rhs[m + 1]
  <2>1. Erased(n)[m] = IF m <= n - 1 THEN front[m] ELSE back[m - (n - 1)]
    BY <1>1, <1>4, <1>5, <1>6
  <2>2. CASE m < n
    <3>1. m <= n - 1 /\ m \in 1 .. n - 1 - 1 + 1 /\ 1 + m - 1 = m
      BY <2>2, <1>1
    <3> QED
      BY <2>1, <2>2, <3>1, <1>2
  <2>3. CASE ~(m < n)
    <3>1. /\ ~(m <= n - 1) /\ m - (n - 1) \in 1 .. Len(rhs) - (n + 1) + 1
          /\ n + 1 + (m - (n - 1)) - 1 = m + 1
      BY <2>3, <1>1
    <3> QED
      BY <2>1, <2>3, <3>1, <1>3
  <2> QED
    BY <2>2, <2>3
<1>8. Erased(n) \in Seq(Item) /\ Len(Erased(n)) = Len(rhs) - 1
  BY <1>1, <1>4, <1>5, <1>6
<1> QED
  BY <1>7, <1>8, Zenon

\* In particular the rest stays in the order of dates.
LEMMA ErasedByDate ==
  ASSUME rhs \in Seq(Item), NEW n \in 1 .. Len(rhs), ByDate(rhs)
  PROVE  ByDate(Erased(n))
<1> DEFINE e == Erased(n)
<1>1. e \in Seq(Item) /\ Len(e) = Len(rhs) - 1
  BY ErasedProperties
<1>2. \A m \in 1 .. Len(rhs) - 1 : e[m] = IF m < n THEN rhs[m] ELSE rhs[m + 1]
  BY ErasedProperties, Zenon
<1>3. \A m \in 1 .. Len(rhs) : rhs[m] \in Item
  BY ElementOfSeq
<1>4. \A m \in 1 .. Len(rhs) : rhs[m].latestDate \in Int
  BY <1>3 DEF Item
<1>5. \A m, p \in 1 .. Len(rhs) : m < p => rhs[m].latestDate <= rhs[p].latestDate
  BY DEF ByDate
<1> HIDE DEF e
<1>6. DOMAIN e = 1 .. Len(rhs) - 1 /\ Len(rhs) \in Nat
  BY <1>1
<1> SUFFICES ASSUME NEW a \in 1 .. Len(rhs) - 1, NEW b \in 1 .. Len(rhs) - 1, a < b
             PROVE  e[a].latestDate <= e[b].latestDate
  BY <1>6 DEF ByDate, e
<1> DEFINE Was(m) == IF m < n THEN m ELSE m + 1
<1>7. /\ Was(a) \in 1 .. Len(rhs) /\ Was(b) \in 1 .. Len(rhs) /\ Was(a) < Was(b)
      /\ e[a] = rhs[Was(a)] /\ e[b] = rhs[Was(b)]
  BY <1>2, <1>6
<1> HIDE DEF Was
<1> QED
  BY <1>5, <1>7

-----------------------------------------------------------------------------
(* The loop *)

\* The items of the instruments that a trader lists.
LEMMA ItemsAreItems ==
  ASSUME NEW size \in 1 .. MaxInstruments, NEW list \in [1 .. size -> Instruments],
         NEW priority \in [1 .. size -> Priorities], NEW minDist \in [1 .. size -> MinDists]
  PROVE  /\ Items(list, priority, minDist) \in Seq(Item)
         /\ \A n \in DOMAIN Items(list, priority, minDist) :
              n \in 1 .. size /\ Items(list, priority, minDist)[n].minDist = minDist[n]
<1> DEFINE s == Items(list, priority, minDist)
<1>1. \A n \in 1 .. size : list[n] \in Instruments /\ priority[n] \in Priorities
                           /\ minDist[n] \in MinDists
  OBVIOUS
<1>2. s \in [1 .. size -> Item]
  BY <1>1, InstrumentsAssumption DEF Items, Item
<1>3. \A n \in 1 .. size : s[n].minDist = minDist[n]
  BY DEF Items
<1> HIDE DEF s
<1>4. size \in Nat
  BY InstrumentsAssumption
<1>5. s \in Seq(Item) /\ DOMAIN s = 1 .. size
  BY <1>2, <1>4, SeqDef
<1> QED
  BY <1>3, <1>5 DEF s

\* The items are sorted, and the removal loop has not begun.
LEMMA InitLoop == Init => LoopInv
<1> SUFFICES ASSUME Init PROVE LoopInv
  OBVIOUS
<1>1. PICK size \in 1 .. MaxInstruments :
        \E list \in [1 .. size -> Instruments], priority \in [1 .. size -> Priorities],
           minDist \in [1 .. size -> MinDists] : rhsAll \in Sortings(Items(list, priority, minDist))
  BY DEF Init
<1>2. rhsAll \in Seq(Item)
  BY <1>1, ItemsAreItems, SortingProperties
<1>3. rhs \in Seq(Item)
  BY DEF Init
<1> QED
  BY <1>2, <1>3 DEF Init, LoopInv, Types, Looping, NotBegun

\* Each step keeps the iterator within the vector.
LEMMA LoopStep == LoopInv /\ [Next]_vars => LoopInv'
<1> SUFFICES ASSUME LoopInv, [Next]_vars PROVE LoopInv'
  OBVIOUS
<1> USE DEF LoopInv, Types, Looping, NotBegun
<1>1. CASE Admit
  <2>1. i \in 1 .. Len(rhsAll)
    BY <1>1 DEF Admit
  <2>2. rhsAll[i] \in Item
    BY <2>1, ElementOfSeq
  <2>3. rhs' \in Seq(Item)
    BY <1>1, <2>2 DEF Admit
  <2> QED
    BY <1>1, <2>3 DEF Admit
<1>2. CASE PassOver
  BY <1>2 DEF PassOver
<1>3. CASE FinishSelection
  <2>1. CASE Len(rhs) > 1
    <3>1. rhs' \in Sortings(rhs) /\ phase' = "space" /\ k' = 1
      BY <1>3, <2>1 DEF FinishSelection
    <3>2. rhs' \in Seq(Item) /\ Len(rhs') = Len(rhs) /\ ByDate(rhs')
      BY <3>1, SortingProperties
    <3>3. ByDate(rhs)'
      BY <3>2 DEF ByDate
    <3> QED
      BY <1>3, <2>1, <3>1, <3>2, <3>3 DEF FinishSelection
  <2>2. CASE ~(Len(rhs) > 1)
    BY <1>3, <2>2 DEF FinishSelection
  <2> QED
    BY <2>1, <2>2
<1>4. CASE Erase
  <2>1. PICK n \in {k, k + 1} : rhs' = Erased(n)
    BY <1>4 DEF Erase
  <2>2. /\ phase = "space" /\ phase' = "space" /\ k' = k
        /\ k \in 1 .. Len(rhs) /\ k # Len(rhs) /\ Len(rhs) \in Nat /\ ByDate(rhs)
    BY <1>4 DEF Erase
  <2>3. n \in 1 .. Len(rhs)
    BY <2>2
  <2>4. rhs' \in Seq(Item) /\ Len(rhs') = Len(rhs) - 1
    BY <2>1, <2>3, ErasedProperties
  <2>5. ByDate(rhs')
    BY <2>1, <2>2, <2>3, ErasedByDate
  <2>6. ByDate(rhs)'
    BY <2>5 DEF ByDate
  <2>7. k' \in 1 .. Len(rhs')
    BY <2>2, <2>4
  <2> QED
    BY <1>4, <2>2, <2>4, <2>6, <2>7 DEF Erase
<1>5. CASE Keep
  BY <1>5 DEF Keep, ByDate
<1>6. CASE FinishSpacing
  BY <1>6 DEF FinishSpacing
<1>7. CASE UNCHANGED vars
  BY <1>7 DEF vars, ByDate
<1> QED
  BY <1>1, <1>2, <1>3, <1>4, <1>5, <1>6, <1>7 DEF Next

\* The iterator is at a helper of the vector throughout the removal loop of
\* qlRateHelperSelection, and the helpers are in the order of their dates.
THEOREM LoopInvariant == Spec => []LoopInv
BY InitLoop, LoopStep, PTL DEF Spec

\* Neither the iterator nor its successor is ever past the end when it is used.
THEOREM IteratorStaysInRange == Spec => []IteratorInRange
<1>1. LoopInv => IteratorInRange
  BY DEF LoopInv, Looping, IteratorInRange
<1> QED
  BY <1>1, LoopInvariant, PTL
-----------------------------------------------------------------------------
(* Spacing, with one minimum distance *)

\* One distance is given for all.
LEMMA InitSpace ==
  ASSUME OneMinDist, Init PROVE SpaceInv
<1>1. PICK size \in 1 .. MaxInstruments :
        \E list \in [1 .. size -> Instruments], priority \in [1 .. size -> Priorities],
           minDist \in [1 .. size -> MinDists] :
          /\ \A n \in 1 .. size : minDist[n] = minDist[1]
          /\ rhsAll \in Sortings(Items(list, priority, minDist))
  BY DEF Init
<1>2. PICK list \in [1 .. size -> Instruments], priority \in [1 .. size -> Priorities],
           minDist \in [1 .. size -> MinDists] :
          /\ \A n \in 1 .. size : minDist[n] = minDist[1]
          /\ rhsAll \in Sortings(Items(list, priority, minDist))
  BY <1>1
<1> DEFINE items == Items(list, priority, minDist)
<1>3. /\ items \in Seq(Item)
      /\ \A n \in DOMAIN items : n \in 1 .. size /\ items[n].minDist = minDist[n]
  BY ItemsAreItems
<1> HIDE DEF items
<1>4. /\ rhsAll \in Seq(Item)
      /\ \A n \in 1 .. Len(rhsAll) : \E m \in 1 .. Len(items) : rhsAll[n] = items[m]
  BY <1>2, <1>3, SortingProperties DEF items
<1>5. minDist[1] \in MinDists
  BY InstrumentsAssumption
<1>6. \A n \in DOMAIN rhsAll : rhsAll[n].minDist = minDist[1]
  <2> SUFFICES ASSUME NEW n \in DOMAIN rhsAll PROVE rhsAll[n].minDist = minDist[1]
    OBVIOUS
  <2>1. n \in 1 .. Len(rhsAll)
    BY <1>4
  <2>2. PICK m \in 1 .. Len(items) : rhsAll[n] = items[m]
    BY <1>4, <2>1, Zenon
  <2>3. m \in DOMAIN items
    BY <1>3
  <2>4. m \in 1 .. size /\ items[m].minDist = minDist[m]
    BY <1>3, <2>3, Zenon
  <2> QED
    BY <1>2, <2>2, <2>4, Zenon
<1>7. AllAsk(minDist[1])
  BY <1>6 DEF AllAsk, Init
<1>8. phase = "select"
  BY DEF Init
<1> QED
  BY <1>5, <1>7, <1>8, InitLoop DEF SpaceInv

\* The helpers of the removal loop all ask for the one distance.
LEMMA AskNext ==
  ASSUME LoopInv, Next, NEW d, AllAsk(d)
  PROVE  AllAsk(d)'
<1> USE DEF LoopInv, Types, AllAsk
<1>1. rhsAll' = rhsAll
  BY DEF Next, Admit, PassOver, FinishSelection, Erase, Keep, FinishSpacing
<1> SUFFICES \A n \in DOMAIN rhs' : rhs'[n].minDist = d
  BY <1>1
<1>2. DOMAIN rhs = 1 .. Len(rhs) /\ Len(rhs) \in Nat
  OBVIOUS
<1>3. CASE Admit
  <2>1. i \in DOMAIN rhsAll /\ rhs' = Append(rhs, rhsAll[i])
    BY <1>3 DEF Admit
  <2>2. rhsAll[i].minDist = d /\ rhsAll[i] \in Item
    BY <2>1, ElementOfSeq
  <2>3. /\ DOMAIN rhs' = 1 .. Len(rhs) + 1
        /\ \A n \in 1 .. Len(rhs) : rhs'[n] = rhs[n]
        /\ rhs'[Len(rhs) + 1] = rhsAll[i]
    BY <2>1, <2>2
  <2> QED
    BY <1>2, <2>2, <2>3
<1>4. CASE FinishSelection
  <2>1. CASE Len(rhs) > 1
    <3>1. rhs' \in Sortings(rhs)
      BY <1>4, <2>1 DEF FinishSelection
    <3>2. /\ rhs' \in Seq(Item)
          /\ \A n \in 1 .. Len(rhs') : \E m \in 1 .. Len(rhs) : rhs'[n] = rhs[m]
      BY <3>1, SortingProperties
    <3> QED
      BY <1>2, <3>2
  <2>2. CASE ~(Len(rhs) > 1)
    BY <1>4, <2>2 DEF FinishSelection
  <2> QED
    BY <2>1, <2>2
<1>5. CASE Erase
  <2>1. PICK n \in {k, k + 1} : rhs' = Erased(n)
    BY <1>5 DEF Erase
  <2>2. n \in 1 .. Len(rhs)
    BY <1>2, <1>5, <2>1 DEF Erase, Looping
  <2>3. rhs' \in Seq(Item) /\ Len(rhs') = Len(rhs) - 1
    BY <2>1, <2>2, ErasedProperties
  <2>4. \A m \in 1 .. Len(rhs) - 1 : rhs'[m] = IF m < n THEN rhs[m] ELSE rhs[m + 1]
    BY <2>1, <2>2, ErasedProperties, Zenon
  <2>5. DOMAIN rhs' = 1 .. Len(rhs) - 1
    BY <2>3
  <2> QED
    BY <1>2, <2>4, <2>5
<1>6. CASE PassOver \/ Keep \/ FinishSpacing
  BY <1>6 DEF PassOver, Keep, FinishSpacing
<1> QED
  BY <1>3, <1>4, <1>5, <1>6 DEF Next

\* What was erased can only have been nearer: those before k are as far from the
\* helper that takes its place.
LEMMA EraseKeepsApart ==
  ASSUME LoopInv, Erase, NEW d \in MinDists, ApartUpTo(rhs, k, d)
  PROVE  ApartUpTo(rhs', k', d)
<1>1. /\ rhs \in Seq(Item) /\ k \in 1 .. Len(rhs) /\ k # Len(rhs) /\ Len(rhs) \in Nat
      /\ ByDate(rhs) /\ k' = k
  BY DEF LoopInv, Types, Looping, Erase
<1>2. PICK n \in {k, k + 1} : rhs' = Erased(n)
  BY DEF Erase
<1>3. n \in 1 .. Len(rhs)
  BY <1>1
<1>4. \A m \in 1 .. Len(rhs) - 1 : rhs'[m] = IF m < n THEN rhs[m] ELSE rhs[m + 1]
  BY <1>1, <1>2, <1>3, ErasedProperties, Zenon
<1>5. \A m \in 1 .. Len(rhs) : rhs[m] \in Item
  BY <1>1, ElementOfSeq
<1>6. \A m \in 1 .. Len(rhs) : rhs[m].latestDate \in Int
  BY <1>5 DEF Item
<1>7. d \in Int
  BY InstrumentsAssumption
<1>8. rhs[k].latestDate <= rhs[k + 1].latestDate
  BY <1>1 DEF ByDate
<1> SUFFICES ASSUME NEW m \in 1 .. k, NEW p \in 1 .. k, m < p
             PROVE  rhs'[p].latestDate - rhs'[m].latestDate >= d
  BY <1>1 DEF ApartUpTo
<1>9. rhs[p].latestDate - rhs[m].latestDate >= d
  BY DEF ApartUpTo
<1>10. m < n /\ m \in 1 .. Len(rhs) - 1 /\ p \in 1 .. Len(rhs) - 1
  BY <1>1
<1>11. rhs'[m] = rhs[m]
  BY <1>4, <1>10
<1>12. CASE p < n
  BY <1>4, <1>9, <1>10, <1>11, <1>12
<1>13. CASE ~(p < n)
  <2>1. p = k /\ rhs'[p] = rhs[k + 1]
    BY <1>1, <1>4, <1>10, <1>13
  <2>2. /\ rhs[k].latestDate \in Int /\ rhs[k + 1].latestDate \in Int
        /\ rhs[m].latestDate \in Int
    BY <1>1, <1>6
  <2> QED
    BY <1>7, <1>8, <1>9, <1>11, <2>1, <2>2
<1> QED
  BY <1>12, <1>13

\* The iterator moves on only past a helper that is apart from the next one.
LEMMA KeepExtendsApart ==
  ASSUME LoopInv, Keep, NEW d \in MinDists, AllAsk(d), ApartUpTo(rhs, k, d)
  PROVE  ApartUpTo(rhs', k', d)
<1>1. /\ rhs \in Seq(Item) /\ k \in 1 .. Len(rhs) /\ k # Len(rhs) /\ Len(rhs) \in Nat
      /\ ByDate(rhs) /\ k' = k + 1 /\ rhs' = rhs /\ ~Near(rhs[k], rhs[k + 1])
  BY DEF LoopInv, Types, Looping, Keep
<1>2. \A m \in 1 .. Len(rhs) : rhs[m] \in Item
  BY <1>1, ElementOfSeq
<1>3. \A m \in 1 .. Len(rhs) : rhs[m].latestDate \in Int /\ rhs[m].minDist = d
  <2>1. \A m \in 1 .. Len(rhs) : rhs[m].latestDate \in Int
    BY <1>2 DEF Item
  <2>2. DOMAIN rhs = 1 .. Len(rhs)
    BY <1>1
  <2>3. \A m \in 1 .. Len(rhs) : rhs[m].minDist = d
    BY <2>2 DEF AllAsk
  <2> QED
    BY <2>1, <2>3
<1>4. d \in Int
  BY InstrumentsAssumption
<1>5. rhs[k + 1].latestDate - rhs[k].latestDate >= d
  <2>1. rhs[k].minDist = d /\ rhs[k + 1].minDist = d
    BY <1>1, <1>3
  <2>2. rhs[k].latestDate \in Int /\ rhs[k + 1].latestDate \in Int
    BY <1>1, <1>3
  <2> QED
    BY <1>1, <1>4, <2>1, <2>2 DEF Near
<1> SUFFICES ASSUME NEW m \in 1 .. k + 1, NEW p \in 1 .. k + 1, m < p
             PROVE  rhs[p].latestDate - rhs[m].latestDate >= d
  BY <1>1 DEF ApartUpTo
<1>6. CASE p \in 1 .. k
  <2>1. \A x, y \in 1 .. k : x < y => rhs[y].latestDate - rhs[x].latestDate >= d
    BY DEF ApartUpTo
  <2>2. k \in Nat
    BY <1>1
  <2>3. m \in 1 .. k
    BY <1>6, <2>2
  <2> QED
    BY <1>6, <2>1, <2>3
<1>7. CASE p = k + 1
  <2>1. m \in 1 .. k /\ rhs[m].latestDate <= rhs[k].latestDate
    <3>1. CASE m = k
      BY <1>1, <1>3, <3>1
    <3>2. CASE m < k
      BY <1>1, <3>2 DEF ByDate
    <3> QED
      BY <1>1, <1>7, <3>1, <3>2
  <2>2. /\ rhs[m].latestDate \in Int /\ rhs[k].latestDate \in Int
        /\ rhs[k + 1].latestDate \in Int
    BY <1>1, <1>3
  <2> QED
    BY <1>4, <1>5, <1>7, <2>1, <2>2
<1> QED
  BY <1>1, <1>6, <1>7

\* Each step preserves the spacing of what the iterator has left behind.
LEMMA SpaceStep == SpaceInv /\ [Next]_vars => SpaceInv'
<1> SUFFICES ASSUME SpaceInv, [Next]_vars PROVE SpaceInv'
  OBVIOUS
<1>1. LoopInv /\ LoopInv'
  BY LoopStep DEF SpaceInv
<1>2. CASE UNCHANGED vars
  BY <1>1, <1>2 DEF SpaceInv, AllAsk, ApartUpTo, vars
<1>3. CASE Next
  <2>1. PICK d \in MinDists :
          /\ AllAsk(d)
          /\ phase = "space" => ApartUpTo(rhs, k, d)
          /\ phase = "done" => ApartUpTo(rhs, Len(rhs), d)
    BY DEF SpaceInv
  <2>2. AllAsk(d)'
    BY <1>1, <1>3, <2>1, AskNext
  <2>3. CASE Admit \/ PassOver
    BY <1>1, <2>2, <2>3 DEF SpaceInv, Admit, PassOver
  <2>4. CASE FinishSelection
    <3>1. CASE phase' = "space"
      <4>1. k' = 1
        BY <1>1, <2>4 DEF FinishSelection, LoopInv, NotBegun
      <4>2. ApartUpTo(rhs', k', d)
        BY <4>1 DEF ApartUpTo
      <4> QED
        BY <1>1, <2>2, <3>1, <4>2 DEF SpaceInv, ApartUpTo
    <3>2. CASE phase' = "done"
      <4>1. rhs' = rhs /\ ~(Len(rhs) > 1) /\ Len(rhs) \in Nat
        BY <1>1, <2>4, <3>2 DEF FinishSelection, LoopInv, Types
      <4>2. ApartUpTo(rhs', Len(rhs'), d)
        BY <4>1 DEF ApartUpTo
      <4> QED
        BY <1>1, <2>2, <3>2, <4>2 DEF SpaceInv, ApartUpTo
    <3> QED
      BY <2>4, <3>1, <3>2 DEF FinishSelection
  <2>5. CASE Erase
    <3>1. phase = "space" /\ phase' = "space"
      BY <2>5 DEF Erase
    <3>2. ApartUpTo(rhs', k', d)
      BY <1>1, <2>1, <2>5, <3>1, EraseKeepsApart
    <3> QED
      BY <1>1, <2>2, <3>1, <3>2 DEF SpaceInv, ApartUpTo
  <2>6. CASE Keep
    <3>1. phase = "space" /\ phase' = "space"
      BY <2>6 DEF Keep
    <3>2. ApartUpTo(rhs', k', d)
      BY <1>1, <2>1, <2>6, <3>1, KeepExtendsApart
    <3> QED
      BY <1>1, <2>2, <3>1, <3>2 DEF SpaceInv, ApartUpTo
  <2>7. CASE FinishSpacing
    <3>1. /\ phase = "space" /\ phase' = "done" /\ k = Len(rhs)
          /\ rhs' = rhs
      BY <2>7 DEF FinishSpacing
    <3>2. ApartUpTo(rhs', Len(rhs'), d)
      BY <2>1, <3>1
    <3> QED
      BY <1>1, <2>2, <3>1, <3>2 DEF SpaceInv, ApartUpTo
  <2> QED
    BY <1>3, <2>3, <2>4, <2>5, <2>6, <2>7 DEF Next
<1> QED
  BY <1>2, <1>3

\* Given one minimum distance, any two helpers that qlRateHelperSelection returns
\* are as far apart as it asks, whatever the dates and priorities.
THEOREM SpacedWithOneDistance ==
  ASSUME OneMinDist PROVE Spec => []Spaced
<1>1. SpaceInv => Spaced
  <2> SUFFICES ASSUME SpaceInv, Done, NEW m \in DOMAIN rhs, NEW n \in DOMAIN rhs, m # n
               PROVE  Apart(rhs[m], rhs[n])
    BY DEF Spaced
  <2>1. PICK d \in MinDists : AllAsk(d) /\ ApartUpTo(rhs, Len(rhs), d)
    BY DEF SpaceInv, Done
  <2>2. rhs \in Seq(Item) /\ m \in 1 .. Len(rhs) /\ n \in 1 .. Len(rhs)
    BY DEF SpaceInv, LoopInv, Types
  <2>3. m < n \/ n < m
    BY <2>2
  <2>4. rhs[m].minDist = d /\ rhs[n].minDist = d
    BY <2>1 DEF AllAsk
  <2> QED
    BY <2>1, <2>2, <2>3, <2>4 DEF Apart, ApartUpTo
<1>2. Init => SpaceInv
  BY InitSpace
<1> QED
  BY <1>1, <1>2, SpaceStep, PTL DEF Spec
-----------------------------------------------------------------------------
(* Dominant helpers survive *)

\* The nth helper admitted has a higher priority than every helper near it.
Dominant(n) ==
  \A m \in DOMAIN admitted \ {n} :
    Apart(admitted[m], admitted[n]) \/ admitted[m].priority < admitted[n].priority

\* The removal loop works on helpers that were admitted, and has kept the dominant ones.
DominantKept ==
  phase # "select" =>
    /\ \A m \in DOMAIN rhs : \E n \in DOMAIN admitted : rhs[m] = admitted[n]
    /\ \A n \in DOMAIN admitted : Dominant(n) => \E m \in DOMAIN rhs : rhs[m] = admitted[n]

\* Neighbours that are near in the order of dates are not apart, whichever comes first.
LEMMA NearIsNotApart ==
  ASSUME NEW a \in Item, NEW b \in Item, a.latestDate <= b.latestDate, Near(a, b)
  PROVE  ~Apart(a, b) /\ ~Apart(b, a)
<1>1. /\ a.latestDate \in Int /\ b.latestDate \in Int
      /\ a.minDist \in Nat \ {0} /\ b.minDist \in Nat \ {0}
  BY InstrumentsAssumption DEF Item
<1>2. PICK d \in {a.minDist, b.minDist} : b.latestDate - a.latestDate < d
  BY DEF Near
<1>3. d \in Nat \ {0}
  BY <1>1
<1>4. ~(b.latestDate - a.latestDate >= d) /\ ~(a.latestDate - b.latestDate >= d)
  BY <1>1, <1>2, <1>3
<1> QED
  BY <1>4 DEF Apart

LEMMA PrioritiesAreNumbers == \A h \in Item : h.priority \in Int
<1>1. \A h \in Item : h.priority \in Priorities
  BY DEF Item
<1>2. Priorities \subseteq Int
  BY InstrumentsAssumption
<1> QED
  BY <1>1, <1>2, Zenon

\* Of two near neighbours the one that is erased has no higher priority.
LEMMA ErasedIsNoBetter ==
  ASSUME LoopInv, Erase
  PROVE  \E e \in 1 .. Len(rhs), s \in 1 .. Len(rhs) :
           /\ e # s /\ rhs' = Erased(e)
           /\ rhs[e].priority <= rhs[s].priority
           /\ ~Apart(rhs[s], rhs[e])
<1>1. /\ rhs \in Seq(Item) /\ k \in 1 .. Len(rhs) /\ k # Len(rhs) /\ Len(rhs) \in Nat
      /\ ByDate(rhs) /\ Near(rhs[k], rhs[k + 1])
  BY DEF LoopInv, Types, Looping, Erase
<1>2. k + 1 \in 1 .. Len(rhs) /\ k < k + 1
  BY <1>1
<1>3. rhs[k] \in Item /\ rhs[k + 1] \in Item
  BY <1>1, <1>2, ElementOfSeq
<1>4. rhs[k].latestDate <= rhs[k + 1].latestDate
  BY <1>1, <1>2 DEF ByDate
<1>5. ~Apart(rhs[k], rhs[k + 1]) /\ ~Apart(rhs[k + 1], rhs[k])
  BY <1>1, <1>3, <1>4, NearIsNotApart
<1>6. rhs[k].priority \in Int /\ rhs[k + 1].priority \in Int
  BY <1>3, PrioritiesAreNumbers
<1>7. CASE rhs[k].priority <= rhs[k + 1].priority
  <2>1. rhs' = Erased(k)
    BY <1>7 DEF Erase
  <2> QED
    BY <1>1, <1>2, <1>5, <1>7, <2>1
<1>8. CASE ~(rhs[k].priority <= rhs[k + 1].priority)
  <2>1. rhs' = Erased(k + 1) /\ rhs[k + 1].priority <= rhs[k].priority
    BY <1>6, <1>8 DEF Erase
  <2> QED
    BY <1>1, <1>2, <1>5, <2>1
<1> QED
  BY <1>7, <1>8

\* A dominant helper is not erased: the survivor of the pair would have to be apart
\* from it, or of a lower priority, unless it is that helper again.
LEMMA EraseKeepsDominant ==
  ASSUME LoopInv, DominantKept, Erase
  PROVE  DominantKept'
<1>1. PICK e \in 1 .. Len(rhs), s \in 1 .. Len(rhs) :
        /\ e # s /\ rhs' = Erased(e)
        /\ rhs[e].priority <= rhs[s].priority /\ ~Apart(rhs[s], rhs[e])
  BY ErasedIsNoBetter
<1>2. rhs \in Seq(Item) /\ Len(rhs) \in Nat /\ phase # "select" /\ admitted' = admitted
  BY DEF LoopInv, Types, Erase
<1>3. rhs' \in Seq(Item) /\ Len(rhs') = Len(rhs) - 1
  BY <1>1, <1>2, ErasedProperties
<1>4. \A m \in 1 .. Len(rhs) - 1 : rhs'[m] = IF m < e THEN rhs[m] ELSE rhs[m + 1]
  BY <1>1, <1>2, ErasedProperties, Zenon
<1>5. DOMAIN rhs' = 1 .. Len(rhs) - 1 /\ DOMAIN rhs = 1 .. Len(rhs)
  BY <1>2, <1>3
<1>6. \A m \in DOMAIN rhs' : \E p \in DOMAIN rhs : rhs'[m] = rhs[p]
  <2> SUFFICES ASSUME NEW m \in 1 .. Len(rhs) - 1 PROVE \E p \in 1 .. Len(rhs) : rhs'[m] = rhs[p]
    BY <1>5
  <2>1. m \in 1 .. Len(rhs) /\ m + 1 \in 1 .. Len(rhs)
    BY <1>2
  <2> QED
    BY <1>4, <2>1
<1>7. \A p \in DOMAIN rhs \ {e} : \E m \in DOMAIN rhs' : rhs'[m] = rhs[p]
  <2> SUFFICES ASSUME NEW p \in 1 .. Len(rhs), p # e
               PROVE  \E m \in 1 .. Len(rhs) - 1 : rhs'[m] = rhs[p]
    BY <1>5
  <2>1. CASE p < e
    <3>1. p \in 1 .. Len(rhs) - 1
      BY <1>2, <2>1
    <3> QED
      BY <1>4, <2>1, <3>1
  <2>2. CASE e < p
    <3>1. p - 1 \in 1 .. Len(rhs) - 1 /\ ~(p - 1 < e) /\ p - 1 + 1 = p
      BY <1>2, <2>2
    <3> QED
      BY <1>4, <3>1
  <2> QED
    BY <1>2, <2>1, <2>2
<1>8. \A m \in DOMAIN rhs' : \E n \in DOMAIN admitted : rhs'[m] = admitted[n]
  BY <1>2, <1>6 DEF DominantKept
<1>9. ASSUME NEW n \in DOMAIN admitted, Dominant(n)
      PROVE  \E m \in DOMAIN rhs' : rhs'[m] = admitted[n]
  <2>1. PICK p \in DOMAIN rhs : rhs[p] = admitted[n]
    BY <1>2, <1>9 DEF DominantKept
  <2>2. CASE p # e
    BY <1>7, <2>1, <2>2
  <2>3. CASE p = e
    <3>1. PICK q \in DOMAIN admitted : rhs[s] = admitted[q]
      BY <1>2, <1>5 DEF DominantKept
    <3>2. rhs[e].priority \in Int /\ rhs[s].priority \in Int
      <4>1. rhs[e] \in Item /\ rhs[s] \in Item
        BY <1>2, ElementOfSeq
      <4> QED
        BY <4>1, PrioritiesAreNumbers
    <3>3. ~(admitted[q].priority < admitted[n].priority) /\ ~Apart(admitted[q], admitted[n])
      BY <1>1, <2>1, <2>3, <3>1, <3>2
    <3>4. q = n
      BY <1>9, <3>3 DEF Dominant
    <3> QED
      BY <1>1, <1>5, <1>7, <3>1, <3>4
  <2> QED
    BY <2>2, <2>3
<1>10. \A n \in DOMAIN admitted' : Dominant(n)' => \E m \in DOMAIN rhs' : rhs'[m] = admitted'[n]
  BY <1>2, <1>9 DEF Dominant
<1> QED
  BY <1>2, <1>8, <1>10 DEF DominantKept

LEMMA DominantStep == LoopInv /\ DominantKept /\ [Next]_vars => DominantKept'
<1> SUFFICES ASSUME LoopInv, DominantKept, [Next]_vars PROVE DominantKept'
  OBVIOUS
<1>1. CASE Admit \/ PassOver
  BY <1>1 DEF Admit, PassOver, DominantKept
<1>2. CASE FinishSelection
  BY <1>2 DEF FinishSelection, DominantKept
<1>3. CASE Keep \/ FinishSpacing \/ UNCHANGED vars
  <2>1. rhs' = rhs /\ admitted' = admitted /\ (phase' # "select" => phase # "select")
    BY <1>3 DEF Keep, FinishSpacing, vars
  <2> QED
    BY <2>1 DEF DominantKept, Dominant
<1> QED
  BY <1>1, <1>2, <1>3, EraseKeepsDominant DEF Next

\* A helper that was admitted and has a higher priority than every helper near it is
\* returned, whatever the minimum distances and whatever is erased before.
THEOREM DominantAlwaysSurvives == Spec => []DominantSurvives
<1>1. Init => DominantKept
  BY DEF Init, DominantKept
<1>2. DominantKept => DominantSurvives
  BY DEF DominantKept, Dominant, DominantSurvives, Done
<1> QED
  BY <1>1, <1>2, DominantStep, LoopInvariant, PTL DEF Spec
-----------------------------------------------------------------------------
(* Deposits make way for futures *)

\* Of two futures the one that matures no later starts no later: the futures of one
\* curve have one tenor, and QuantLib's calendars keep the order of dates.
FuturesInOrder ==
  \A a, b \in Instruments :
    IsFutures(a) /\ IsFutures(b) /\ a.latestDate <= b.latestDate => a.earliestDate <= b.earliestDate

\* An item has the kind and the dates of an instrument.
IsListed(h) ==
  \E x \in Instruments :
    x.kind = h.kind /\ x.earliestDate = h.earliestDate /\ x.latestDate = h.latestDate

\* What the list and the counters are throughout.
ListInv ==
  /\ ByDate(rhsAll) /\ \A n \in DOMAIN rhsAll : IsListed(rhsAll[n])
  /\ nFutures \in [{"main", "serial"} -> Nat] /\ included \in [{"main", "serial"} -> Nat]
  /\ criteria \in Criteria

\* A futures admitted is one that may be the front one; a deposit, one that makes way
\* for that.
AdmittedAs(h) ==
  /\ IsFutures(h) => \E n \in Usable : h = rhsAll[n]
  /\ h.kind = "depo" /\ Criterion = "BeforeStart" => h.latestDate < FrontFutures.earliestDate
  /\ h.kind = "depo" /\ Criterion = "BeforeExpiry" => h.latestDate < FrontFutures.latestDate

AllAdmitted(s) == \A n \in DOMAIN s : AdmittedAs(s[n])
NoneLate(s) == \A n \in DOMAIN s : ~TakesPlusOne(s[n])
AtMostOneLate(s) == \A m, n \in DOMAIN s : TakesPlusOne(s[m]) /\ TakesPlusOne(s[n]) => m = n

\* The inductive invariant of admission, which sorting and erasing keep.
DepoInv ==
  /\ ListInv
  /\ AllAdmitted(rhs) /\ AtMostOneLate(rhs)
  /\ phase = "select" /\ ~depoAfterFrontFuturesAlreadyIncluded => NoneLate(rhs)

\* Sorting and erasing select from different positions.
Selects(p, s, t) ==
  /\ \A n \in DOMAIN t : p[n] \in DOMAIN s /\ t[n] = s[p[n]]
  /\ \A m, n \in DOMAIN t : p[m] = p[n] => m = n

LEMMA SortingSelects ==
  ASSUME NEW s \in Seq(Item), NEW t \in Sortings(s)
  PROVE  \E p : Selects(p, s, t)
<1>1. PICK p \in Bijection(DOMAIN s, DOMAIN s) : t = [n \in DOMAIN s |-> s[p[n]]]
  BY DEF Sortings
<1>2. /\ p \in [DOMAIN s -> DOMAIN s]
      /\ \A m, n \in DOMAIN s : p[m] = p[n] => m = n
  BY <1>1 DEF Bijection, Injection, IsInjective
<1>3. DOMAIN t = DOMAIN s
  BY <1>1
<1> QED
  BY <1>1, <1>2, <1>3 DEF Selects

LEMMA ErasingSelects ==
  ASSUME LoopInv, Erase
  PROVE  \E p : Selects(p, rhs, rhs')
<1>1. rhs \in Seq(Item) /\ k \in 1 .. Len(rhs) /\ k # Len(rhs) /\ Len(rhs) \in Nat
  BY DEF LoopInv, Types, Looping, Erase
<1>2. PICK e \in {k, k + 1} : rhs' = Erased(e)
  BY DEF Erase
<1>3. e \in 1 .. Len(rhs)
  BY <1>1
<1>4. rhs' \in Seq(Item) /\ Len(rhs') = Len(rhs) - 1
  BY <1>1, <1>2, <1>3, ErasedProperties
<1>5. \A m \in 1 .. Len(rhs) - 1 : rhs'[m] = IF m < e THEN rhs[m] ELSE rhs[m + 1]
  BY <1>1, <1>2, <1>3, ErasedProperties, Zenon
<1>6. DOMAIN rhs' = 1 .. Len(rhs) - 1 /\ DOMAIN rhs = 1 .. Len(rhs)
  BY <1>1, <1>4
<1> DEFINE p == [m \in 1 .. Len(rhs) - 1 |-> IF m < e THEN m ELSE m + 1]
<1>7. ASSUME NEW m \in 1 .. Len(rhs) - 1
      PROVE  p[m] \in 1 .. Len(rhs) /\ rhs'[m] = rhs[p[m]]
  BY <1>1, <1>5
<1>8. ASSUME NEW m \in 1 .. Len(rhs) - 1, NEW n \in 1 .. Len(rhs) - 1, p[m] = p[n]
      PROVE  m = n
  BY <1>1, <1>3, <1>8
<1> HIDE DEF p
<1>9. Selects(p, rhs, rhs')
  BY <1>6, <1>7, <1>8 DEF Selects
<1> QED
  BY <1>9

\* What is selected from the helpers admitted has been admitted, and no more are late.
LEMMA SelectionKeeps ==
  ASSUME NEW p, NEW s, NEW t, Selects(p, s, t), AllAdmitted(s), AtMostOneLate(s)
  PROVE  AllAdmitted(t) /\ AtMostOneLate(t)
<1>1. ASSUME NEW n \in DOMAIN t PROVE p[n] \in DOMAIN s /\ t[n] = s[p[n]]
  BY DEF Selects
<1>2. AllAdmitted(t)
  BY <1>1 DEF AllAdmitted
<1>3. ASSUME NEW m \in DOMAIN t, NEW n \in DOMAIN t, TakesPlusOne(t[m]), TakesPlusOne(t[n])
      PROVE  m = n
  <2>1. TakesPlusOne(s[p[m]]) /\ TakesPlusOne(s[p[n]])
    BY <1>1, <1>3
  <2>2. p[m] = p[n]
    BY <1>1, <2>1 DEF AtMostOneLate
  <2> QED
    BY <2>2 DEF Selects
<1> QED
  BY <1>2, <1>3 DEF AtMostOneLate

\* Neither the front futures nor the criterion changes during the selection, so that
\* what is kept or selected of the helpers admitted stays admitted.
LEMMA RulesStand ==
  ASSUME UNCHANGED <<rhsAll, nFutures, criteria>>
  PROVE  /\ AllAdmitted(rhs)' <=> AllAdmitted(rhs')
         /\ AtMostOneLate(rhs)' <=> AtMostOneLate(rhs')
         /\ NoneLate(rhs)' <=> NoneLate(rhs')
<1>1. Usable' = Usable
  BY DEF Usable, NotRolled, IsFutures
<1>2. Criterion' = Criterion /\ FrontFutures' = FrontFutures
  BY <1>1 DEF Criterion, FrontFutures
<1>3. AllAdmitted(rhs)' <=> AllAdmitted(rhs')
  BY <1>1, <1>2 DEF AllAdmitted, AdmittedAs, IsFutures
<1>4. /\ AtMostOneLate(rhs)' <=> AtMostOneLate(rhs')
      /\ NoneLate(rhs)' <=> NoneLate(rhs')
  BY <1>2 DEF AtMostOneLate, NoneLate, TakesPlusOne
<1> QED
  BY <1>3, <1>4

LEMMA DepoInit == Init => DepoInv
<1> SUFFICES ASSUME Init PROVE DepoInv
  OBVIOUS
<1>1. PICK size \in 1 .. MaxInstruments :
        \E list \in [1 .. size -> Instruments], priority \in [1 .. size -> Priorities],
           minDist \in [1 .. size -> MinDists] : rhsAll \in Sortings(Items(list, priority, minDist))
  BY DEF Init
<1>2. PICK list \in [1 .. size -> Instruments], priority \in [1 .. size -> Priorities],
           minDist \in [1 .. size -> MinDists] : rhsAll \in Sortings(Items(list, priority, minDist))
  BY <1>1
<1> DEFINE items == Items(list, priority, minDist)
<1>3. /\ items \in Seq(Item)
      /\ \A n \in DOMAIN items : n \in 1 .. size
  BY ItemsAreItems
<1>4. \A n \in DOMAIN items : IsListed(items[n])
  <2> SUFFICES ASSUME NEW n \in DOMAIN items PROVE IsListed(items[n])
    OBVIOUS
  <2>1. n \in DOMAIN list /\ list[n] \in Instruments
    BY <1>3
  <2>2. /\ items[n].kind = list[n].kind
        /\ items[n].earliestDate = list[n].earliestDate
        /\ items[n].latestDate = list[n].latestDate
    BY <2>1 DEF Items
  <2> QED
    BY <2>1, <2>2 DEF IsListed
<1> HIDE DEF items
<1>5. /\ rhsAll \in Seq(Item) /\ ByDate(rhsAll)
      /\ \A n \in 1 .. Len(rhsAll) : \E m \in 1 .. Len(items) : rhsAll[n] = items[m]
  BY <1>2, <1>3, SortingProperties DEF items
<1>6. \A n \in DOMAIN rhsAll : IsListed(rhsAll[n])
  <2> SUFFICES ASSUME NEW n \in 1 .. Len(rhsAll) PROVE IsListed(rhsAll[n])
    BY <1>5
  <2>1. PICK m \in 1 .. Len(items) : rhsAll[n] = items[m]
    BY <1>5, Zenon
  <2>2. m \in DOMAIN items
    BY <1>3
  <2> QED
    BY <1>4, <2>1, <2>2
<1>7. nFutures \in [{"main", "serial"} -> Nat] /\ included \in [{"main", "serial"} -> Nat]
  <2>1. 0 .. MaxFutures \subseteq Nat
    OBVIOUS
  <2> QED
    BY <2>1 DEF Init
<1> QED
  BY <1>5, <1>6, <1>7 DEF Init, DepoInv, ListInv, AllAdmitted, AtMostOneLate, NoneLate

\* The list never changes, and the counters count.
LEMMA ListStep ==
  LoopInv /\ ListInv /\ [Next]_vars => ListInv' /\ UNCHANGED <<rhsAll, nFutures, criteria>>
<1> SUFFICES ASSUME LoopInv, ListInv, [Next]_vars
             PROVE  ListInv' /\ UNCHANGED <<rhsAll, nFutures, criteria>>
  OBVIOUS
<1>1. UNCHANGED <<rhsAll, nFutures, criteria>>
  BY DEF Next, Admit, PassOver, FinishSelection, Erase, Keep, FinishSpacing, vars
<1>2. included' \in [{"main", "serial"} -> Nat]
  <2>1. CASE Admit
    BY <2>1 DEF Admit, ListInv, IsFutures
  <2>2. CASE ~Admit
    BY <2>2 DEF Next, PassOver, FinishSelection, Erase, Keep, FinishSpacing, vars, ListInv
  <2> QED
    BY <2>1, <2>2
<1> QED
  BY <1>1, <1>2 DEF ListInv, ByDate, IsListed

\* The front futures is the first that is usable.
LEMMA FrontFuturesIsFirst ==
  ASSUME LoopInv, Usable # {}
  PROVE  \E f \in Usable : FrontFutures = rhsAll[f] /\ \A m \in Usable : f <= m
<1>1. Usable \subseteq Nat
  BY DEF Usable, LoopInv, Types
<1>2. PICK f \in Usable : \A m \in Usable : ~(<<m, f>> \in OpToRel(<, Nat))
  BY <1>1, NatLessThanWellFounded, WFMin
<1>3. ASSUME NEW m \in Usable PROVE f <= m
  <2>1. m \in Nat /\ f \in Nat
    BY <1>1
  <2>2. ~(m < f)
    BY <1>2, <2>1 DEF OpToRel
  <2> QED
    BY <2>1, <2>2
<1> DEFINE first == CHOOSE n \in Usable : \A m \in Usable : n <= m
<1>4. first \in Usable /\ \A m \in Usable : first <= m
  BY <1>3
<1>5. FrontFutures = rhsAll[first]
  BY DEF FrontFutures
<1> QED
  BY <1>4, <1>5

\* What admission asks of deposits and of futures.
LEMMA IncludedRules ==
  ASSUME NEW h, Included(h)
  PROVE  /\ h.kind = "depo" => DepoIncluded(h)
         /\ IsFutures(h) => included[h.kind] < nFutures[h.kind] /\ NotRolled(h)
<1>1. CASE h.kind = "depo"
  BY <1>1 DEF Included, IsFutures
<1>2. CASE IsFutures(h)
  <2>1. h.kind # "depo"
    BY <1>2 DEF IsFutures
  <2> QED
    BY <1>2, <2>1 DEF Included
<1> QED
  BY <1>1, <1>2

LEMMA DepoRules ==
  ASSUME NEW h, DepoIncluded(h)
  PROVE  /\ Criterion = "BeforeStart" => h.latestDate < FrontFutures.earliestDate
         /\ Criterion = "BeforeStartPlusOne" =>
              h.latestDate < FrontFutures.earliestDate \/ ~depoAfterFrontFuturesAlreadyIncluded
         /\ Criterion = "BeforeExpiry" => h.latestDate < FrontFutures.latestDate
<1>1. CASE Criterion = "BeforeStart"
  BY <1>1 DEF DepoIncluded
<1>2. CASE Criterion = "BeforeStartPlusOne"
  BY <1>2 DEF DepoIncluded
<1>3. CASE Criterion = "BeforeExpiry"
  BY <1>3 DEF DepoIncluded
<1> QED
  BY <1>1, <1>2, <1>3

\* A helper is admitted by the rules.
LEMMA AdmitKeeps ==
  ASSUME LoopInv, DepoInv, Admit
  PROVE  /\ AllAdmitted(rhs') /\ AtMostOneLate(rhs')
         /\ ~depoAfterFrontFuturesAlreadyIncluded' => NoneLate(rhs')
<1> DEFINE h == rhsAll[i]
<1>1. i \in DOMAIN rhsAll /\ h \in Item /\ rhs \in Seq(Item) /\ rhsAll \in Seq(Item)
  <2>1. rhsAll \in Seq(Item) /\ i \in 1 .. Len(rhsAll) /\ rhs \in Seq(Item)
    BY DEF LoopInv, Types, Admit
  <2> QED
    BY <2>1, ElementOfSeq
<1>2. /\ Included(h) /\ rhs' = Append(rhs, h) /\ phase = "select"
      /\ depoAfterFrontFuturesAlreadyIncluded' =
           (depoAfterFrontFuturesAlreadyIncluded \/ TakesPlusOne(h))
  BY DEF Admit
<1>3. AdmittedAs(h)
  <2>1. ASSUME IsFutures(h) PROVE i \in Usable
    <3>1. h.kind \in {"main", "serial"}
      BY <2>1 DEF IsFutures
    <3>2. included[h.kind] < nFutures[h.kind] /\ NotRolled(h)
      BY <1>2, <2>1, IncludedRules
    <3>3. nFutures[h.kind] > 0
      BY <3>1, <3>2 DEF DepoInv, ListInv
    <3> QED
      BY <1>1, <2>1, <3>2, <3>3 DEF Usable
  <2>2. ASSUME h.kind = "depo"
        PROVE  /\ Criterion = "BeforeStart" => h.latestDate < FrontFutures.earliestDate
               /\ Criterion = "BeforeExpiry" => h.latestDate < FrontFutures.latestDate
    BY <1>2, <2>2, IncludedRules, DepoRules
  <2> QED
    BY <2>1, <2>2 DEF AdmittedAs
<1>4. TakesPlusOne(h) => ~depoAfterFrontFuturesAlreadyIncluded
  <2> SUFFICES ASSUME TakesPlusOne(h) PROVE ~depoAfterFrontFuturesAlreadyIncluded
    OBVIOUS
  <2>1. /\ h.kind = "depo" /\ Criterion = "BeforeStartPlusOne"
        /\ h.latestDate >= FrontFutures.earliestDate
    BY DEF TakesPlusOne
  <2>2. h.latestDate < FrontFutures.earliestDate \/ ~depoAfterFrontFuturesAlreadyIncluded
    BY <1>2, <2>1, IncludedRules, DepoRules
  <2>3. Usable # {}
    BY <2>1 DEF Criterion
  <2>4. PICK f \in DOMAIN rhsAll : FrontFutures = rhsAll[f]
    BY <2>3, FrontFuturesIsFirst DEF Usable
  <2>5. FrontFutures \in Item
    BY <1>1, <2>4, ElementOfSeq
  <2>6. h.latestDate \in Int /\ FrontFutures.earliestDate \in Int
    BY <1>1, <2>5 DEF Item
  <2> QED
    BY <2>1, <2>2, <2>6
<1> HIDE DEF h
<1>5. /\ DOMAIN rhs' = 1 .. Len(rhs) + 1 /\ DOMAIN rhs = 1 .. Len(rhs) /\ Len(rhs) \in Nat
      /\ \A n \in 1 .. Len(rhs) : rhs'[n] = rhs[n]
      /\ rhs'[Len(rhs) + 1] = h
  BY <1>1, <1>2
<1>6. \A n \in DOMAIN rhs' : \/ n \in DOMAIN rhs /\ rhs'[n] = rhs[n]
                             \/ n = Len(rhs) + 1 /\ rhs'[n] = h
  BY <1>5
<1>7. AllAdmitted(rhs')
  BY <1>3, <1>6 DEF AllAdmitted, DepoInv
<1>8. ~depoAfterFrontFuturesAlreadyIncluded => NoneLate(rhs)
  BY <1>2 DEF DepoInv
<1>9. AtMostOneLate(rhs')
  BY <1>4, <1>6, <1>8 DEF AtMostOneLate, NoneLate, DepoInv
<1>10. ~depoAfterFrontFuturesAlreadyIncluded' => NoneLate(rhs')
  BY <1>2, <1>6, <1>8 DEF NoneLate
<1> QED
  BY <1>7, <1>9, <1>10

LEMMA DepoStep == LoopInv /\ DepoInv /\ [Next]_vars => DepoInv'
<1> SUFFICES ASSUME LoopInv, DepoInv, [Next]_vars PROVE DepoInv'
  OBVIOUS
<1>1. ListInv' /\ UNCHANGED <<rhsAll, nFutures, criteria>>
  BY ListStep DEF DepoInv
<1>2. SUFFICES /\ AllAdmitted(rhs') /\ AtMostOneLate(rhs')
               /\ phase' = "select" /\ ~depoAfterFrontFuturesAlreadyIncluded' => NoneLate(rhs')
  BY <1>1, RulesStand DEF DepoInv
<1>3. CASE Admit
  BY <1>3, AdmitKeeps
<1>4. CASE FinishSelection
  <2>1. phase' # "select"
    BY <1>4 DEF FinishSelection
  <2>2. CASE Len(rhs) > 1
    <3>1. rhs' \in Sortings(rhs) /\ rhs \in Seq(Item)
      BY <1>4, <2>2 DEF FinishSelection, LoopInv, Types
    <3>2. PICK p : Selects(p, rhs, rhs')
      BY <3>1, SortingSelects
    <3> QED
      BY <2>1, <3>2, SelectionKeeps DEF DepoInv
  <2>3. CASE ~(Len(rhs) > 1)
    BY <1>4, <2>1, <2>3 DEF FinishSelection, DepoInv
  <2> QED
    BY <2>2, <2>3
<1>5. CASE Erase
  <2>1. PICK p : Selects(p, rhs, rhs')
    BY <1>5, ErasingSelects
  <2>2. phase' # "select"
    BY <1>5 DEF Erase
  <2> QED
    BY <2>1, <2>2, SelectionKeeps DEF DepoInv
<1>6. CASE PassOver \/ Keep \/ FinishSpacing \/ UNCHANGED vars
  BY <1>6 DEF PassOver, Keep, FinishSpacing, vars, DepoInv
<1> QED
  BY <1>3, <1>4, <1>5, <1>6 DEF Next

\* Whatever the futures, deposits make way for the front one as the trader asks, through
\* sorting and thinning.
THEOREM DeposMakeWayForFront == Spec => []DepoInv
BY DepoInit, DepoStep, LoopInvariant, PTL DEF Spec

\* A futures that was admitted neither starts nor expires before the front one.
LEMMA NoneBeforeFront ==
  ASSUME FuturesInOrder, LoopInv, DepoInv, NEW n \in DOMAIN rhs, IsFutures(rhs[n])
  PROVE  /\ Usable # {}
         /\ FrontFutures.earliestDate <= rhs[n].earliestDate
         /\ FrontFutures.latestDate <= rhs[n].latestDate
         /\ FrontFutures \in Item /\ rhs[n] \in Item
<1>1. PICK u \in Usable : rhs[n] = rhsAll[u]
  BY DEF DepoInv, AllAdmitted, AdmittedAs
<1>2. PICK f \in Usable : FrontFutures = rhsAll[f] /\ \A m \in Usable : f <= m
  BY <1>1, FrontFuturesIsFirst
<1>3. /\ rhsAll \in Seq(Item)
      /\ u \in 1 .. Len(rhsAll) /\ f \in 1 .. Len(rhsAll)
      /\ IsFutures(rhsAll[f]) /\ f <= u
  BY <1>2 DEF Usable, LoopInv, Types
<1>4. rhsAll[u] \in Item /\ rhsAll[f] \in Item
  BY <1>3, ElementOfSeq
<1>5. rhsAll[f].latestDate <= rhsAll[u].latestDate
  <2>1. CASE f = u
    BY <1>4, <2>1 DEF Item
  <2>2. CASE f < u
    BY <1>3, <2>2 DEF DepoInv, ListInv, ByDate
  <2> QED
    BY <1>3, <2>1, <2>2
<1>6. PICK a \in Instruments : /\ a.kind = rhsAll[f].kind /\ a.earliestDate = rhsAll[f].earliestDate
                               /\ a.latestDate = rhsAll[f].latestDate
  BY <1>3 DEF DepoInv, ListInv, IsListed
<1>7. PICK b \in Instruments : /\ b.kind = rhsAll[u].kind /\ b.earliestDate = rhsAll[u].earliestDate
                               /\ b.latestDate = rhsAll[u].latestDate
  BY <1>3 DEF DepoInv, ListInv, IsListed
<1>8. a.earliestDate <= b.earliestDate
  BY <1>1, <1>3, <1>5, <1>6, <1>7 DEF FuturesInOrder, IsFutures
<1> QED
  BY <1>1, <1>2, <1>4, <1>5, <1>6, <1>7, <1>8

\* If later futures do not start earlier, the deposits that are selected next to any
\* futures make way for it as the trader asks, for lists of any length.
THEOREM DeposAlwaysMakeWay ==
  ASSUME FuturesInOrder PROVE Spec => []DeposMakeWay
<1>1. LoopInv /\ DepoInv => DeposMakeWay
  <2> SUFFICES ASSUME LoopInv, DepoInv PROVE DeposMakeWay
    OBVIOUS
  <2> DEFINE
        Late(n) == {m \in DOMAIN rhs : rhs[m].kind = "depo" /\
                      rhs[m].latestDate >= IF criteria = "BeforeExpiry" THEN rhs[n].latestDate
                                                                       ELSE rhs[n].earliestDate}
  <2>1. SUFFICES ASSUME NEW n \in DOMAIN rhs, IsFutures(rhs[n])
                 PROVE  CASE criteria = "AllDepos"           -> TRUE
                          [] criteria = "BeforeStartPlusOne" -> Cardinality(Late(n)) <= 1
                          [] OTHER                           -> Late(n) = {}
    BY DEF DeposMakeWay
  <2>2. /\ Usable # {} /\ FrontFutures \in Item /\ rhs[n] \in Item
        /\ FrontFutures.earliestDate <= rhs[n].earliestDate
        /\ FrontFutures.latestDate <= rhs[n].latestDate
    BY <2>1, NoneBeforeFront
  <2>3. /\ FrontFutures.earliestDate \in Int /\ FrontFutures.latestDate \in Int
        /\ rhs[n].earliestDate \in Int /\ rhs[n].latestDate \in Int
    BY <2>2 DEF Item
  <2>4. \A m \in DOMAIN rhs : rhs[m].latestDate \in Int /\ AdmittedAs(rhs[m])
    <3>1. \A m \in DOMAIN rhs : rhs[m] \in Item
      BY ElementOfSeq DEF LoopInv, Types
    <3> QED
      BY <3>1 DEF Item, DepoInv, AllAdmitted
  <2>5. Criterion = criteria
    BY <2>2 DEF Criterion
  <2>6. CASE criteria = "BeforeStart"
    <3>1. \A m \in Late(n) : FALSE
      BY <2>2, <2>3, <2>4, <2>5, <2>6 DEF AdmittedAs
    <3> QED
      BY <2>6, <3>1
  <2>7. CASE criteria = "BeforeExpiry"
    <3>1. \A m \in Late(n) : FALSE
      BY <2>2, <2>3, <2>4, <2>5, <2>7 DEF AdmittedAs
    <3> QED
      BY <2>7, <3>1
  <2>8. CASE criteria = "BeforeStartPlusOne"
    <3>1. \A m \in Late(n) : m \in DOMAIN rhs /\ TakesPlusOne(rhs[m])
      BY <2>2, <2>3, <2>4, <2>5, <2>8 DEF TakesPlusOne
    <3>2. \A l, m \in Late(n) : l = m
      BY <3>1 DEF DepoInv, AtMostOneLate
    <3> HIDE DEF Late
    <3>3. Late(n) = {} \/ \E m : Late(n) = {m}
      BY <3>2
    <3>4. Cardinality(Late(n)) \in {0, 1}
      BY <3>3, FS_EmptySet, FS_Singleton
    <3> QED
      BY <2>8, <3>4
  <2>9. criteria \in {"AllDepos", "BeforeStart", "BeforeStartPlusOne", "BeforeExpiry"}
    BY DEF DepoInv, ListInv, Criteria
  <2> HIDE DEF Late
  <2> QED
    BY <2>6, <2>7, <2>8, <2>9
<1> QED
  BY <1>1, LoopInvariant, DeposMakeWayForFront, PTL
-----------------------------------------------------------------------------
(* The front futures fill the places *)

Cycles == {"main", "serial"}

\* What the selection has passed when it is at the jth instrument.
OpenBefore(f, j) == {n \in Open(f) : n < j}
ForemostBefore(f, j) == {n \in Foremost(f) : n < j}

Taken(f, s) == {n \in DOMAIN s : s[n].kind = f}

\* The futures in s are the foremost that were passed.
Fills(s, j) ==
  \A f \in Cycles : \E p \in Bijection(Taken(f, s), ForemostBefore(f, j)) :
    \A n \in Taken(f, s) : s[n] = rhsAll[p[n]]

\* The counter of a cycle counts the open futures passed until it has reached the
\* number asked for.
Counted(f, j, count) ==
  LET open == Cardinality(OpenBefore(f, j))
  IN count = IF open < nFutures[f] THEN open ELSE nFutures[f]

\* The inductive invariant of the places for futures.
FillInv ==
  /\ phase = "select" => /\ i <= Len(rhsAll) + 1
                         /\ \A f \in Cycles : Counted(f, i, included[f])
                         /\ Fills(rhs, i)
  /\ phase # "select" => Fills(admitted, Len(rhsAll) + 1)

\* One element more on both sides of a bijection.
LEMMA BijectionExtended ==
  ASSUME NEW S, NEW T, NEW p \in Bijection(S, T), NEW a, a \notin S, NEW b, b \notin T
  PROVE  [x \in S \cup {a} |-> IF x = a THEN b ELSE p[x]] \in Bijection(S \cup {a}, T \cup {b})
<1> DEFINE q == [x \in S \cup {a} |-> IF x = a THEN b ELSE p[x]]
<1>1. /\ p \in [S -> T]
      /\ \A x, y \in S : p[x] = p[y] => x = y
      /\ \A t \in T : \E x \in S : p[x] = t
  BY DEF Bijection, Injection, Surjection, IsInjective
<1>2. q[a] = b /\ \A x \in S : q[x] = p[x] /\ q[x] \in T
  BY <1>1
<1>3. q \in [S \cup {a} -> T \cup {b}]
  BY <1>1
<1>4. DOMAIN q = S \cup {a}
  OBVIOUS
<1> HIDE DEF q
<1>5. \A x, y \in S \cup {a} : q[x] = q[y] => x = y
  BY <1>1, <1>2
<1>6. \A t \in T \cup {b} : \E x \in S \cup {a} : q[x] = t
  BY <1>1, <1>2
<1>7. q \in Bijection(S \cup {a}, T \cup {b})
  BY <1>3, <1>4, <1>5, <1>6 DEF Bijection, Injection, Surjection, IsInjective
<1> QED
  BY <1>7 DEF q

\* One bijection after another.
LEMMA BijectionComposed ==
  ASSUME NEW R, NEW S, NEW T, NEW q \in Bijection(R, S), NEW p \in Bijection(S, T)
  PROVE  [x \in R |-> p[q[x]]] \in Bijection(R, T)
<1> DEFINE c == [x \in R |-> p[q[x]]]
<1>1. /\ p \in [S -> T]
      /\ \A x, y \in S : p[x] = p[y] => x = y
      /\ \A t \in T : \E x \in S : p[x] = t
  BY DEF Bijection, Injection, Surjection, IsInjective
<1>2. /\ q \in [R -> S]
      /\ \A x, y \in R : q[x] = q[y] => x = y
      /\ \A t \in S : \E x \in R : q[x] = t
  BY DEF Bijection, Injection, Surjection, IsInjective
<1>3. /\ c \in [R -> T] /\ DOMAIN c = R
      /\ \A x \in R : c[x] = p[q[x]] /\ q[x] \in S
  BY <1>1, <1>2
<1> HIDE DEF c
<1>4. \A x, y \in R : c[x] = c[y] => x = y
  BY <1>1, <1>2, <1>3
<1>5. \A t \in T : \E x \in R : c[x] = t
  BY <1>1, <1>2, <1>3
<1>6. c \in Bijection(R, T)
  BY <1>3, <1>4, <1>5 DEF Bijection, Injection, Surjection, IsInjective
<1> QED
  BY <1>6 DEF c

\* A sorting permutes the futures of each cycle.
LEMMA SortingFills ==
  ASSUME NEW s \in Seq(Item), NEW t \in Sortings(s), NEW j, Fills(s, j)
  PROVE  Fills(t, j)
<1>1. PICK q \in Bijection(DOMAIN s, DOMAIN s) : t = [n \in DOMAIN s |-> s[q[n]]]
  BY DEF Sortings
<1>2. /\ q \in [DOMAIN s -> DOMAIN s]
      /\ \A x, y \in DOMAIN s : q[x] = q[y] => x = y
      /\ \A m \in DOMAIN s : \E x \in DOMAIN s : q[x] = m
  BY <1>1 DEF Bijection, Injection, Surjection, IsInjective
<1>3. DOMAIN t = DOMAIN s /\ \A n \in DOMAIN s : t[n] = s[q[n]]
  BY <1>1
<1> SUFFICES ASSUME NEW f \in Cycles
             PROVE  \E p \in Bijection(Taken(f, t), ForemostBefore(f, j)) :
                      \A n \in Taken(f, t) : t[n] = rhsAll[p[n]]
  BY DEF Fills
<1>4. PICK p \in Bijection(Taken(f, s), ForemostBefore(f, j)) :
        \A n \in Taken(f, s) : s[n] = rhsAll[p[n]]
  BY DEF Fills
<1> DEFINE qf == [n \in Taken(f, t) |-> q[n]]
           c == [n \in Taken(f, t) |-> p[qf[n]]]
<1>5. qf \in Bijection(Taken(f, t), Taken(f, s))
  <2>1. \A n \in Taken(f, t) : n \in DOMAIN s /\ qf[n] = q[n] /\ qf[n] \in Taken(f, s)
    BY <1>2, <1>3 DEF Taken
  <2>2. \A m \in Taken(f, s) : \E n \in Taken(f, t) : qf[n] = m
    <3> SUFFICES ASSUME NEW m \in Taken(f, s) PROVE \E n \in Taken(f, t) : qf[n] = m
      OBVIOUS
    <3>1. PICK n \in DOMAIN s : q[n] = m
      BY <1>2 DEF Taken
    <3>2. n \in Taken(f, t)
      BY <1>3, <3>1 DEF Taken
    <3> QED
      BY <3>1, <3>2
  <2>3. \A x, y \in Taken(f, t) : qf[x] = qf[y] => x = y
    BY <1>2, <2>1
  <2>4. qf \in [Taken(f, t) -> Taken(f, s)] /\ DOMAIN qf = Taken(f, t)
    BY <2>1
  <2> HIDE DEF qf
  <2> QED
    BY <2>2, <2>3, <2>4 DEF Bijection, Injection, Surjection, IsInjective
<1>6. \A n \in Taken(f, t) : t[n] = rhsAll[c[n]]
  <2> SUFFICES ASSUME NEW n \in Taken(f, t) PROVE t[n] = rhsAll[c[n]]
    OBVIOUS
  <2>1. n \in DOMAIN s /\ t[n] = s[q[n]] /\ q[n] \in Taken(f, s)
    BY <1>2, <1>3 DEF Taken
  <2> QED
    BY <1>4, <2>1
<1> HIDE DEF qf
<1>7. c \in Bijection(Taken(f, t), ForemostBefore(f, j))
  BY <1>4, <1>5, BijectionComposed
<1> QED
  BY <1>6, <1>7

\* What passing the jth instrument adds to what is open, and to the foremost.
LEMMA PassedNext ==
  ASSUME LoopInv, ListInv, NEW f \in Cycles, NEW j \in DOMAIN rhsAll
  PROVE  /\ Cardinality(OpenBefore(f, j)) \in Nat /\ nFutures[f] \in Nat
         /\ j \in Open(f) =>
              /\ Cardinality(OpenBefore(f, j + 1)) = Cardinality(OpenBefore(f, j)) + 1
              /\ Cardinality(OpenBefore(f, j)) < nFutures[f] =>
                   ForemostBefore(f, j + 1) = ForemostBefore(f, j) \cup {j}
              /\ ~(Cardinality(OpenBefore(f, j)) < nFutures[f]) =>
                   ForemostBefore(f, j + 1) = ForemostBefore(f, j)
         /\ j \notin Open(f) => /\ OpenBefore(f, j + 1) = OpenBefore(f, j)
                                /\ ForemostBefore(f, j + 1) = ForemostBefore(f, j)
         /\ j \notin ForemostBefore(f, j)
<1>1. Len(rhsAll) \in Nat /\ DOMAIN rhsAll = 1 .. Len(rhsAll) /\ Open(f) \subseteq 1 .. Len(rhsAll)
  BY DEF LoopInv, Types, Open
<1>2. \A n \in Open(f) : n \in Int
  BY <1>1
<1>3. IsFiniteSet(OpenBefore(f, j))
  <2>1. IsFiniteSet(1 .. Len(rhsAll))
    BY <1>1, FS_Interval
  <2>2. OpenBefore(f, j) \subseteq 1 .. Len(rhsAll)
    BY <1>1 DEF OpenBefore
  <2> QED
    BY <2>1, <2>2, FS_Subset
<1>4. Cardinality(OpenBefore(f, j)) \in Nat
  BY <1>3, FS_CardinalityType
<1>5. nFutures[f] \in Nat
  BY DEF ListInv, Cycles
<1>6. \A n \in Open(f) : n < j + 1 <=> n < j \/ n = j
  BY <1>1, <1>2
<1>7. j \notin OpenBefore(f, j) /\ j \notin ForemostBefore(f, j)
  BY <1>1 DEF OpenBefore, ForemostBefore
<1>8. Foremost(f) \subseteq Open(f)
  BY DEF Foremost
<1>9. j \in Foremost(f) <=> j \in Open(f) /\ Cardinality(OpenBefore(f, j)) < nFutures[f]
  BY DEF Foremost, OpenBefore
<1>10. ASSUME j \in Open(f)
       PROVE  Cardinality(OpenBefore(f, j + 1)) = Cardinality(OpenBefore(f, j)) + 1
  <2>1. OpenBefore(f, j + 1) = OpenBefore(f, j) \cup {j}
    BY <1>6, <1>10 DEF OpenBefore
  <2> QED
    BY <1>3, <1>7, <2>1, FS_AddElement
<1>11. j \notin Open(f) => OpenBefore(f, j + 1) = OpenBefore(f, j)
  BY <1>6 DEF OpenBefore
<1>12. /\ j \in Foremost(f) => ForemostBefore(f, j + 1) = ForemostBefore(f, j) \cup {j}
       /\ j \notin Foremost(f) => ForemostBefore(f, j + 1) = ForemostBefore(f, j)
  BY <1>6, <1>8 DEF ForemostBefore
<1> QED
  BY <1>4, <1>5, <1>7, <1>8, <1>9, <1>10, <1>11, <1>12

LEMMA FillInit == Init => FillInv
<1> SUFFICES ASSUME Init PROVE FillInv
  OBVIOUS
<1>1. phase = "select" /\ i = 1 /\ rhs = <<>> /\ Len(rhsAll) \in Nat
  <2>1. LoopInv
    BY InitLoop
  <2> QED
    BY <2>1 DEF Init, LoopInv, Types
<1>2. \A n \in DOMAIN rhsAll : n \in Nat /\ n >= 1
  BY InitLoop DEF LoopInv, Types
<1> SUFFICES ASSUME NEW f \in Cycles
             PROVE  /\ Counted(f, 1, 0)
                    /\ \E p \in Bijection(Taken(f, <<>>), ForemostBefore(f, 1)) :
                         \A n \in Taken(f, <<>>) : <<>>[n] = rhsAll[p[n]]
  BY <1>1 DEF Init, FillInv, Fills, Cycles
<1>3. OpenBefore(f, 1) = {} /\ ForemostBefore(f, 1) = {}
  <2>1. \A n \in Open(f) : n \in Nat /\ n >= 1
    BY <1>2 DEF Open
  <2>2. \A n \in Open(f) : ~(n < 1)
    BY <2>1
  <2>3. Foremost(f) \subseteq Open(f)
    BY DEF Foremost
  <2> QED
    BY <2>2, <2>3 DEF OpenBefore, ForemostBefore
<1>4. Counted(f, 1, 0)
  <2>1. nFutures[f] \in Nat
    BY DepoInit DEF DepoInv, ListInv, Cycles
  <2>2. nFutures[f] = 0 \/ 0 < nFutures[f]
    BY <2>1
  <2> QED
    BY <1>3, <2>2, FS_EmptySet DEF Counted
<1>5. Taken(f, <<>>) = {}
  BY DEF Taken
<1>6. <<>> \in Bijection({}, {})
  BY DEF Bijection, Injection, Surjection, IsInjective
<1> QED
  BY <1>3, <1>4, <1>5, <1>6

\* The list, and with it what is open, never changes.
LEMMA PlacesStand ==
  ASSUME UNCHANGED <<rhsAll, nFutures>>
  PROVE  /\ Fills(rhs, i)' <=> Fills(rhs', i')
         /\ Fills(admitted, Len(rhsAll) + 1)' <=> Fills(admitted', Len(rhsAll) + 1)
         /\ \A f \in Cycles : Counted(f, i, included[f])' <=> Counted(f, i', included'[f])
<1>1. \A f : Open(f)' = Open(f)
  BY DEF Open, NotRolled
<1>2. \A f : Foremost(f)' = Foremost(f)
  BY <1>1 DEF Foremost
<1>3. Fills(rhs, i)' <=> Fills(rhs', i')
  BY <1>2 DEF Fills, Taken, ForemostBefore
<1>4. Fills(admitted, Len(rhsAll) + 1)' <=> Fills(admitted', Len(rhsAll) + 1)
  <2>1. rhsAll' = rhsAll /\ (Len(rhsAll) + 1)' = Len(rhsAll) + 1
    OBVIOUS
  <2>2. \A f : ForemostBefore(f, Len(rhsAll) + 1)' = ForemostBefore(f, Len(rhsAll) + 1)
    BY <1>2, <2>1 DEF ForemostBefore
  <2>3. \A f : Taken(f, admitted)' = Taken(f, admitted')
    BY DEF Taken
  <2> QED
    BY <2>1, <2>2, <2>3 DEF Fills
<1>5. \A f \in Cycles : Counted(f, i, included[f])' <=> Counted(f, i', included'[f])
  BY <1>1 DEF Counted, OpenBefore
<1> QED
  BY <1>3, <1>4, <1>5

\* A futures that is admitted takes the next place of its cycle.
LEMMA AdmitFills ==
  ASSUME LoopInv, ListInv, FillInv, Admit
  PROVE  /\ \A f \in Cycles : Counted(f, i + 1, included'[f])
         /\ Fills(rhs', i + 1)
<1> DEFINE h == rhsAll[i]
<1>1. i \in DOMAIN rhsAll /\ h \in Item /\ rhs \in Seq(Item)
  <2>1. rhsAll \in Seq(Item) /\ i \in 1 .. Len(rhsAll) /\ rhs \in Seq(Item)
    BY DEF LoopInv, Types, Admit
  <2> QED
    BY <2>1, ElementOfSeq
<1>2. /\ Included(h) /\ rhs' = Append(rhs, h) /\ phase = "select"
      /\ included' = IF IsFutures(h) THEN [included EXCEPT ![h.kind] = @ + 1] ELSE included
  BY DEF Admit
<1>3. IsFutures(h) => included[h.kind] < nFutures[h.kind] /\ NotRolled(h)
  BY <1>2, IncludedRules
<1>4. \A f \in Cycles : i \in Open(f) <=> h.kind = f /\ NotRolled(h)
  BY <1>1 DEF Open
<1>5. \A f \in Cycles : h.kind = f => IsFutures(h)
  BY DEF Cycles, IsFutures
<1>6. included \in [Cycles -> Nat]
  BY DEF ListInv, Cycles
<1> HIDE DEF h
<1>7. /\ DOMAIN rhs' = 1 .. Len(rhs) + 1 /\ DOMAIN rhs = 1 .. Len(rhs) /\ Len(rhs) \in Nat
      /\ \A n \in 1 .. Len(rhs) : rhs'[n] = rhs[n]
      /\ rhs'[Len(rhs) + 1] = h
  BY <1>1, <1>2
<1> SUFFICES ASSUME NEW f \in Cycles
             PROVE  /\ Counted(f, i + 1, included'[f])
                    /\ \E p \in Bijection(Taken(f, rhs'), ForemostBefore(f, i + 1)) :
                         \A n \in Taken(f, rhs') : rhs'[n] = rhsAll[p[n]]
  BY DEF Fills
<1>8. Counted(f, i, included[f])
  BY <1>2 DEF FillInv
<1>9. PICK p \in Bijection(Taken(f, rhs), ForemostBefore(f, i)) :
        \A n \in Taken(f, rhs) : rhs[n] = rhsAll[p[n]]
  BY <1>2 DEF FillInv, Fills
<1>10. CASE h.kind = f
  <2> DEFINE new == Len(rhs) + 1
             q == [n \in Taken(f, rhs) \cup {new} |-> IF n = new THEN i ELSE p[n]]
  <2>1. i \in Open(f) /\ included[f] < nFutures[f] /\ included'[f] = included[f] + 1
    BY <1>2, <1>3, <1>4, <1>5, <1>6, <1>10
  <2>2. Cardinality(OpenBefore(f, i)) \in Nat /\ nFutures[f] \in Nat
    BY <1>1, PassedNext
  <2>3. Cardinality(OpenBefore(f, i)) < nFutures[f] /\ included[f] = Cardinality(OpenBefore(f, i))
    BY <1>8, <2>1, <2>2 DEF Counted
  <2>4. /\ Cardinality(OpenBefore(f, i + 1)) = Cardinality(OpenBefore(f, i)) + 1
        /\ ForemostBefore(f, i + 1) = ForemostBefore(f, i) \cup {i} /\ i \notin ForemostBefore(f, i)
    BY <1>1, <2>1, <2>3, PassedNext
  <2>5. Counted(f, i + 1, included'[f])
    BY <2>1, <2>2, <2>3, <2>4 DEF Counted
  <2>6. Taken(f, rhs') = Taken(f, rhs) \cup {new} /\ new \notin Taken(f, rhs)
    BY <1>7, <1>10 DEF Taken
  <2>7. \A n \in Taken(f, rhs) : rhs'[n] = rhs[n]
    BY <1>7 DEF Taken
  <2>8. rhs'[new] = rhsAll[i]
    BY <1>7 DEF h
  <2> HIDE DEF new
  <2>9. q \in Bijection(Taken(f, rhs'), ForemostBefore(f, i + 1))
    BY <2>4, <2>6, BijectionExtended
  <2>10. \A n \in Taken(f, rhs') : rhs'[n] = rhsAll[q[n]]
    BY <1>9, <2>6, <2>7, <2>8
  <2> HIDE DEF q
  <2> QED
    BY <2>5, <2>9, <2>10
<1>11. CASE h.kind # f
  <2>1. i \notin Open(f) /\ included'[f] = included[f]
    BY <1>2, <1>4, <1>6, <1>11
  <2>2. /\ OpenBefore(f, i + 1) = OpenBefore(f, i)
        /\ ForemostBefore(f, i + 1) = ForemostBefore(f, i)
    BY <1>1, <2>1, PassedNext
  <2>3. Counted(f, i + 1, included'[f])
    BY <1>8, <2>1, <2>2 DEF Counted
  <2>4. Taken(f, rhs') = Taken(f, rhs) /\ \A n \in Taken(f, rhs) : rhs'[n] = rhs[n]
    BY <1>7, <1>11 DEF Taken
  <2> QED
    BY <1>9, <2>2, <2>3, <2>4
<1> QED
  BY <1>10, <1>11

\* A futures that is passed over is rolled, or its cycle has all its places taken.
LEMMA PassOverFills ==
  ASSUME LoopInv, ListInv, FillInv, PassOver
  PROVE  /\ \A f \in Cycles : Counted(f, i + 1, included[f])
         /\ Fills(rhs, i + 1)
<1> DEFINE h == rhsAll[i]
<1>1. i \in DOMAIN rhsAll /\ h \in Item
  <2>1. rhsAll \in Seq(Item) /\ i \in 1 .. Len(rhsAll)
    BY DEF LoopInv, Types, PassOver
  <2> QED
    BY <2>1, ElementOfSeq
<1>2. phase = "select" /\ ~(h.earliestDate >= EvalDate /\ Included(h))
  BY DEF PassOver
<1>3. NotRolled(h) => h.earliestDate >= EvalDate
  <2>1. h.earliestDate \in Int
    BY <1>1 DEF Item
  <2> QED
    BY <2>1, InstrumentsAssumption DEF NotRolled
<1>4. \A f \in Cycles : h.kind = f => h.kind # "depo" /\ IsFutures(h)
  BY DEF Cycles, IsFutures
<1>5. \A f \in Cycles : i \in Open(f) <=> h.kind = f /\ NotRolled(h)
  BY <1>1 DEF Open
<1>6. \A f \in Cycles : h.kind = f /\ NotRolled(h) => ~(included[f] < nFutures[f])
  <2> SUFFICES ASSUME NEW f \in Cycles, h.kind = f, NotRolled(h), included[f] < nFutures[f]
               PROVE  FALSE
    OBVIOUS
  <2>1. Included(h)
    BY <1>4 DEF Included
  <2> QED
    BY <1>2, <1>3, <2>1
<1> HIDE DEF h
<1> SUFFICES ASSUME NEW f \in Cycles
             PROVE  /\ Counted(f, i + 1, included[f])
                    /\ ForemostBefore(f, i + 1) = ForemostBefore(f, i)
  BY <1>2 DEF Fills, FillInv
<1>7. Counted(f, i, included[f])
  BY <1>2 DEF FillInv
<1>8. Cardinality(OpenBefore(f, i)) \in Nat /\ nFutures[f] \in Nat
  BY <1>1, PassedNext
<1>9. CASE i \in Open(f)
  <2>1. ~(included[f] < nFutures[f])
    BY <1>5, <1>6, <1>9
  <2>2. ~(Cardinality(OpenBefore(f, i)) < nFutures[f]) /\ included[f] = nFutures[f]
    BY <1>7, <1>8, <2>1 DEF Counted
  <2>3. /\ Cardinality(OpenBefore(f, i + 1)) = Cardinality(OpenBefore(f, i)) + 1
        /\ ForemostBefore(f, i + 1) = ForemostBefore(f, i)
    BY <1>1, <1>9, <2>2, PassedNext
  <2>4. ~(Cardinality(OpenBefore(f, i + 1)) < nFutures[f])
    BY <1>8, <2>2, <2>3
  <2> QED
    BY <2>2, <2>3, <2>4 DEF Counted
<1>10. CASE i \notin Open(f)
  BY <1>1, <1>7, <1>10, PassedNext DEF Counted
<1> QED
  BY <1>9, <1>10

LEMMA FillStep == LoopInv /\ ListInv /\ FillInv /\ [Next]_vars => FillInv'
<1> SUFFICES ASSUME LoopInv, ListInv, FillInv, [Next]_vars PROVE FillInv'
  OBVIOUS
<1>1. UNCHANGED <<rhsAll, nFutures>>
  BY ListStep
<1>2. SUFFICES /\ phase' = "select" => /\ i' <= Len(rhsAll) + 1
                                       /\ \A f \in Cycles : Counted(f, i', included'[f])
                                       /\ Fills(rhs', i')
               /\ phase' # "select" => Fills(admitted', Len(rhsAll) + 1)
  <2>1. Len(rhsAll)' = Len(rhsAll)
    BY <1>1
  <2> QED
    BY <1>1, <1>2, <2>1, PlacesStand DEF FillInv
<1>3. Len(rhsAll) \in Nat /\ i \in Nat
  BY DEF LoopInv, Types
<1>4. CASE Admit
  <2>1. phase' = "select" /\ i' = i + 1 /\ i <= Len(rhsAll)
    BY <1>4 DEF Admit
  <2> QED
    BY <1>3, <1>4, <2>1, AdmitFills
<1>5. CASE PassOver
  <2>1. phase' = "select" /\ i' = i + 1 /\ i <= Len(rhsAll) /\ rhs' = rhs /\ included' = included
    BY <1>5 DEF PassOver
  <2> QED
    BY <1>3, <1>5, <2>1, PassOverFills
<1>6. CASE FinishSelection
  <2>1. /\ phase = "select" /\ phase' # "select" /\ admitted' = rhs' /\ i = Len(rhsAll) + 1
        /\ rhs' = rhs \/ rhs' \in Sortings(rhs)
    BY <1>3, <1>6 DEF FinishSelection, FillInv
  <2>2. Fills(rhs, i) /\ rhs \in Seq(Item)
    BY <2>1 DEF FillInv, LoopInv, Types
  <2>3. Fills(rhs', i)
    BY <2>1, <2>2, SortingFills
  <2> QED
    BY <2>1, <2>3
<1>7. CASE Erase \/ Keep \/ FinishSpacing
  <2>1. phase # "select" /\ phase' # "select" /\ admitted' = admitted
    BY <1>7 DEF Erase, Keep, FinishSpacing
  <2> QED
    BY <2>1 DEF FillInv
<1>8. CASE UNCHANGED vars
  BY <1>8 DEF vars, FillInv
<1> QED
  BY <1>4, <1>5, <1>6, <1>7, <1>8 DEF Next

\* For lists of any length, the futures admitted are the foremost of each cycle that
\* are not rolled, as many as were asked for if there are that many.
THEOREM FrontFuturesAlwaysFill == Spec => []FrontFuturesFill
<1>1. LoopInv /\ ListInv /\ FillInv => FrontFuturesFill
  <2> SUFFICES ASSUME LoopInv, FillInv, phase # "select", NEW f \in Cycles
               PROVE  \E p \in Bijection(Taken(f, admitted), Foremost(f)) :
                        \A n \in Taken(f, admitted) : admitted[n] = rhsAll[p[n]]
    BY DEF FrontFuturesFill, Taken, Cycles
  <2>1. ForemostBefore(f, Len(rhsAll) + 1) = Foremost(f)
    <3>1. \A n \in DOMAIN rhsAll : n < Len(rhsAll) + 1
      BY DEF LoopInv, Types
    <3> QED
      BY <3>1 DEF ForemostBefore, Foremost, Open
  <2> QED
    BY <2>1 DEF FillInv, Fills
<1>2. DepoInv => ListInv
  BY DEF DepoInv
<1> QED
  BY <1>1, <1>2, FillInit, FillStep, LoopInvariant, DeposMakeWayForFront, PTL DEF Spec
=============================================================================
