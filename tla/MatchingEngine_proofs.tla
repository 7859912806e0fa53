------------------------ MODULE MatchingEngine_proofs ------------------------
(***************************************************************************)
(* Proofs about the matching engine, for every number of levels, of order  *)
(* slots and every bound on quantities.                                    *)
(***************************************************************************)
EXTENDS MatchingEngine, FiniteSetTheorems, SequenceTheorems, TLAPS

(***************************************************************************)
(* BoundsHold and ListsExact in terms of places in lists, the form that    *)
(* the steps of match() preserve one place at a time.                      *)
(***************************************************************************)
Places(l) == 1..Len(levels[l])

PlacedInBounds ==
  /\ best_bid < best_ask
  /\ \A l \in AllLevels : \A i \in Places(l) :
       IF orders[levels[l][i]].side = Buy THEN l <= best_bid ELSE l >= best_ask

PlacedExactly ==
  /\ \A l \in AllLevels : \A i \in Places(l) :
       /\ levels[l][i] < orders_num
       /\ levels[l][i] # taker
       /\ orders[levels[l][i]].level = l
       /\ orders[levels[l][i]].size > 0
       /\ \A j \in 1..(i - 1) : levels[l][j] < levels[l][i]
  /\ \A id \in Slots : orders[id].size > 0 /\ id # taker =>
       \E i \in Places(orders[id].level) : levels[orders[id].level][i] = id

\* The inductive invariant.
IInv == TypeOK /\ PlacedInBounds /\ PlacedExactly /\ SweepInv /\ TradesInLimits

-----------------------------------------------------------------------------
\* What order_remove leaves: the other entries, in their order.

LEMMA UnlinkLemma ==
  ASSUME NEW S, NEW list \in Seq(S), NEW id \in Range(list)
  PROVE  LET k == Place(list, id) IN
         /\ k \in 1..Len(list) /\ list[k] = id
         /\ Unlink(list, id) \in Seq(S)
         /\ Len(Unlink(list, id)) = Len(list) - 1
         /\ \A j \in 1..(Len(list) - 1) :
              Unlink(list, id)[j] = IF j < k THEN list[j] ELSE list[j + 1]
<1> DEFINE k == Place(list, id)
<1>1. k \in 1..Len(list) /\ list[k] = id
  BY LenProperties, RangeEquality DEF Place
<1>2. DEFINE a == SubSeq(list, 1, k - 1)
             b == SubSeq(list, k + 1, Len(list))
<1>3. /\ a \in Seq(S) /\ Len(a) = k - 1
      /\ \A j \in 1..(k - 1) : a[j] = list[j]
  BY <1>1, SubSeqProperties, LenProperties, ElementOfSeq
<1>4. /\ b \in Seq(S) /\ Len(b) = Len(list) - k
      /\ \A j \in 1..(Len(list) - k) : b[j] = list[k + j]
  BY <1>1, SubSeqProperties, LenProperties, ElementOfSeq
<1>5. Unlink(list, id) = a \o b
  BY DEF Unlink, RemoveAt
<1>6. Len(list) \in Nat
  BY LenProperties
<1>7. /\ a \o b \in Seq(S)
      /\ Len(a \o b) = Len(a) + Len(b)
      /\ \A j \in 1..(Len(a) + Len(b)) :
           (a \o b)[j] = IF j <= Len(a) THEN a[j] ELSE b[j - Len(a)]
  BY <1>3, <1>4, ConcatProperties
<1> HIDE DEF k, a, b
<1>8. \A j \in 1..(Len(list) - 1) :
        (a \o b)[j] = IF j < k THEN list[j] ELSE list[j + 1]
  <2> TAKE j \in 1..(Len(list) - 1)
  <2>1. CASE j < k
    BY <2>1, <1>1, <1>3, <1>4, <1>6, <1>7
  <2>2. CASE ~(j < k)
    <3>1. b[j - (k - 1)] = list[k + (j - (k - 1))]
      BY <2>2, <1>1, <1>4, <1>6
    <3>2. k + (j - (k - 1)) = j + 1
      BY <1>1, <1>6
    <3> QED BY <3>1, <3>2, <2>2, <1>1, <1>3, <1>4, <1>6, <1>7
  <2> QED BY <2>1, <2>2
<1>9. Unlink(list, id) \in Seq(S) /\ Len(Unlink(list, id)) = Len(list) - 1
  BY <1>1, <1>3, <1>4, <1>5, <1>6, <1>7
<1>10. \A j \in 1..(Len(list) - 1) :
         Unlink(list, id)[j] = IF j < k THEN list[j] ELSE list[j + 1]
  BY <1>5, <1>8
<1> QED BY <1>1, <1>9, <1>10 DEF k

-----------------------------------------------------------------------------
\* The empty book: every list is empty and the bounds are at the ends.
LEMMA InitEstablishes == Init => IInv
<1> SUFFICES ASSUME Init PROVE IInv
  OBVIOUS
<1> USE SizesAssumption DEF Init, Slots, AllLevels, Buy, Sell, NoTaker, EmptySlot
<1>1. TypeOK
  <2>1. orders \in [Slots -> Order]
    BY DEF Order
  <2>2. levels \in [AllLevels -> Seq(Slots)]
    BY EmptySeq
  <2>3. trades \in Seq(Trade)
    BY EmptySeq
  <2> QED BY <2>1, <2>2, <2>3 DEF TypeOK
<1>2. \A l \in AllLevels : Places(l) = {}
  BY EmptySeq DEF Places
<1>3. PlacedInBounds
  BY <1>2 DEF PlacedInBounds
<1>4. PlacedExactly
  BY <1>2 DEF PlacedExactly
<1>5. SweepInv
  BY DEF SweepInv
<1>6. TradesInLimits
  BY DEF TradesInLimits
<1> QED BY <1>1, <1>3, <1>4, <1>5, <1>6 DEF IInv

\* A step that leaves the book, the loop and the history alone.
LEMMA UnchangedBookKeeps ==
  ASSUME IInv, UNCHANGED <<book, loop, history>>, ret' \in {0, -1}
  PROVE  IInv'
<1>1. TypeOK'
  BY DEF IInv, book, loop, history, TypeOK
<1>2. PlacedInBounds'
  BY DEF IInv, book, PlacedInBounds, Places
<1>3. PlacedExactly'
  BY DEF IInv, book, loop, PlacedExactly, Places
<1>4. SweepInv'
  BY DEF IInv, book, loop, SweepInv, BestAgainst, Crosses
<1>5. TradesInLimits'
  BY DEF IInv, book, history, TradesInLimits
<1> QED BY <1>1, <1>2, <1>3, <1>4, <1>5 DEF IInv

\* do_limit up to match(): the order has its slot but no place in a list.
LEMMA AcceptKeeps ==
  ASSUME IInv, NEW sd \in {Buy, Sell}, NEW lv \in AllLevels,
         NEW sz \in 0..MaxSize, AcceptLimit(sd, lv, sz)
  PROVE  IInv'
<1> USE SizesAssumption DEF Slots, AllLevels, Buy, Sell, NoTaker, Prices
<1>1. /\ orders_num \in Slots /\ lv \in Prices /\ sz \in 1..MaxSize
      /\ taker = NoTaker
  BY DEF AcceptLimit, Rejects, IInv, TypeOK, SweepInv
<1>2. TypeOK'
  <2>1. orders' \in [Slots -> Order]
    BY <1>1 DEF AcceptLimit, IInv, TypeOK, Order
  <2>2. asked' \in [Slots -> 0..MaxSize]
    BY <1>1 DEF AcceptLimit, IInv, TypeOK
  <2>3. /\ orders_num' \in 0..MaxOrders /\ taker' \in Slots \cup {NoTaker}
        /\ level' \in 0..MaxLevel /\ pc' = "sweep"
    BY <1>1 DEF AcceptLimit
  <2>4. UNCHANGED <<levels, best_ask, best_bid, ret, cancelled, trades>>
    BY DEF AcceptLimit
  <2> QED BY <2>1, <2>2, <2>3, <2>4 DEF IInv, TypeOK
<1>3. \A id \in Slots : id < orders_num => orders'[id] = orders[id]
  BY <1>1 DEF AcceptLimit, IInv, TypeOK
<1>4. \A l \in AllLevels : \A i \in Places(l) :
        levels[l][i] \in Slots /\ levels[l][i] < orders_num
  BY ElementOfSeq DEF IInv, TypeOK, PlacedExactly, Places
<1>5. PlacedInBounds'
  <2>1. levels' = levels /\ best_ask' = best_ask /\ best_bid' = best_bid
    BY DEF AcceptLimit
  <2>2. ASSUME NEW l \in AllLevels, NEW i \in Places(l)
        PROVE  IF orders'[levels[l][i]].side = Buy
               THEN l <= best_bid ELSE l >= best_ask
    <3>1. orders'[levels[l][i]] = orders[levels[l][i]]
      BY <1>3, <1>4
    <3> QED BY <3>1 DEF IInv, PlacedInBounds
  <2> QED BY <2>1, <2>2 DEF IInv, PlacedInBounds, Places
<1>6. PlacedExactly'
  <2>1. \A l \in AllLevels : \A i \in Places(l) :
          /\ levels[l][i] < orders_num'
          /\ levels[l][i] # taker'
          /\ orders'[levels[l][i]].level = l
          /\ orders'[levels[l][i]].size > 0
          /\ \A j \in 1..(i - 1) : levels[l][j] < levels[l][i]
    <3> TAKE l \in AllLevels
    <3> TAKE i \in Places(l)
    <3>1. levels[l][i] \in Slots /\ levels[l][i] < orders_num
      BY <1>4
    <3>2. orders_num \in Nat /\ orders_num' = orders_num + 1 /\ taker' = orders_num
      BY <1>1 DEF AcceptLimit
    <3>3. orders'[levels[l][i]] = orders[levels[l][i]]
      BY <1>3, <3>1
    <3> QED BY <3>1, <3>2, <3>3 DEF IInv, PlacedExactly
  <2>2. ASSUME NEW id \in Slots, orders'[id].size > 0, id # taker'
        PROVE  \E i \in Places(orders'[id].level) : levels[orders'[id].level][i] = id
    <3>1. orders'[id] = orders[id]
      BY <2>2 DEF AcceptLimit, IInv, TypeOK
    <3>2. id # taker
      BY <1>1
    <3> QED BY <2>2, <3>1, <3>2 DEF IInv, PlacedExactly
  <2> QED BY <2>1, <2>2 DEF AcceptLimit, PlacedExactly, Places
<1>7. SweepInv'
  BY <1>1 DEF AcceptLimit, IInv, TypeOK, SweepInv
<1>8. TradesInLimits'
  <2> SUFFICES ASSUME NEW i \in DOMAIN trades
               PROVE  TradesInLimits!(i)'
    BY DEF AcceptLimit, TradesInLimits
  <2>1. trades[i] \in Trade
    BY ElementOfSeq, LenProperties DEF IInv, TypeOK
  <2>2. TradesInLimits!(i)
    BY DEF IInv, TradesInLimits
  <2>3. trades' = trades /\ orders_num' = orders_num + 1 /\ orders_num \in Nat
    BY <1>1 DEF AcceptLimit
  <2> DEFINE b == trades[i].buyer
             s == trades[i].seller
  <2>4. b \in Slots /\ s \in Slots /\ b < orders_num /\ s < orders_num
    BY <2>1, <2>2 DEF Trade
  <2>5. orders'[b] = orders[b] /\ orders'[s] = orders[s]
    BY <2>4, <1>3
  <2>6. orders'[Smaller(b, s)] = orders[Smaller(b, s)]
    BY <2>5 DEF Smaller
  <2> QED
    BY <2>2, <2>3, <2>4, <2>5, <2>6
<1> QED BY <1>2, <1>5, <1>6, <1>7, <1>8 DEF IInv

\* The outer loop's head: the taker moves on to the best opposite level.
LEMMA EnterKeeps ==
  ASSUME IInv, EnterLevel
  PROVE  IInv'
<1> USE SizesAssumption DEF Slots, AllLevels, Buy, Sell, NoTaker, Prices
<1>1. orders[taker] \in Order /\ orders[taker].level \in Prices
  BY DEF EnterLevel, IInv, TypeOK, SweepInv
<1>2. level' \in 0..MaxLevel
  <2>1. /\ best_ask \in 1..(MaxLevel + 1) /\ best_bid \in 0..MaxLevel
        /\ orders[taker].level \in 0..MaxLevel
    <3>1. TypeOK
      BY DEF IInv
    <3> QED BY <1>1, <3>1 DEF TypeOK
  <2>2. Crosses(orders[taker]) /\ level' = BestAgainst(orders[taker].side)
    BY DEF EnterLevel
  <2>3. CASE orders[taker].side = Buy
    <3>1. level' = best_ask /\ best_ask <= orders[taker].level
      BY <2>2, <2>3 DEF Crosses, BestAgainst
    <3> QED BY <2>1, <3>1
  <2>4. CASE orders[taker].side # Buy
    <3>1. level' = best_bid
      BY <2>2, <2>4 DEF BestAgainst
    <3> QED BY <2>1, <3>1
  <2> QED BY <2>3, <2>4
<1>3. TypeOK'
  BY <1>2 DEF EnterLevel, IInv, TypeOK, book, history
<1>4. PlacedInBounds' /\ PlacedExactly' /\ TradesInLimits'
  BY DEF EnterLevel, IInv, book, history, PlacedInBounds, PlacedExactly, Places,
         TradesInLimits
<1>5. SweepInv'
  BY DEF EnterLevel, IInv, book, history, SweepInv, BestAgainst, Crosses
<1> QED BY <1>3, <1>4, <1>5 DEF IInv

(***************************************************************************)
(* The facts about the two parties of a trade that Fill rests on.          *)
(***************************************************************************)
LEMMA Parties ==
  ASSUME IInv, pc = "fill", levels[level] # <<>>
  PROVE  LET m == Head(levels[level])
             price == BestAgainst(orders[taker].side) IN
         /\ level \in AllLevels /\ price \in Prices /\ price = level
         /\ Len(levels[level]) \in Nat \ {0} /\ m = levels[level][1]
         /\ m \in Slots /\ taker \in Slots /\ m < taker /\ taker < orders_num
         /\ orders[m] \in Order /\ orders[taker] \in Order
         /\ orders[m].size > 0 /\ orders[taker].size > 0
         /\ orders[m].level = level
         /\ IF orders[taker].side = Buy
            THEN orders[m].side = Sell /\ level <= orders[taker].level
            ELSE orders[m].side = Buy /\ level >= orders[taker].level
<1> USE SizesAssumption DEF Slots, AllLevels, Buy, Sell, NoTaker, Prices
<1> DEFINE m == Head(levels[level])
<1>1. /\ taker \in Slots /\ taker = orders_num - 1 /\ orders[taker] \in Order
      /\ orders[taker].size > 0 /\ orders[taker].level \in Prices
  BY DEF IInv, TypeOK, SweepInv
<1>2. level \in AllLevels /\ levels[level] \in Seq(Slots)
  BY DEF IInv, TypeOK
<1>3. Len(levels[level]) \in Nat \ {0} /\ m = levels[level][1] /\ m \in Slots
  BY <1>2, EmptySeq, ElementOfSeq, HeadTailProperties
<1>4. 1 \in Places(level)
  BY <1>3 DEF Places
<1>5. /\ m < orders_num /\ m # taker /\ orders[m].level = level
      /\ orders[m].size > 0
      /\ IF orders[m].side = Buy THEN level <= best_bid ELSE level >= best_ask
  BY <1>2, <1>3, <1>4 DEF IInv, PlacedExactly, PlacedInBounds
<1>6. level = BestAgainst(orders[taker].side) /\ Crosses(orders[taker])
  BY DEF IInv, SweepInv
<1>7. /\ best_bid < best_ask /\ best_bid \in 0..MaxLevel
      /\ best_ask \in 1..(MaxLevel + 1) /\ orders_num \in Nat
      /\ orders[m] \in Order
  BY <1>3 DEF IInv, PlacedInBounds, TypeOK
<1>8. CASE orders[taker].side = Buy
  <2>1. level = best_ask /\ best_ask <= orders[taker].level
    BY <1>6, <1>8 DEF BestAgainst, Crosses
  <2>2. orders[m].side = Sell
    BY <1>5, <1>7, <2>1 DEF Order
  <2>3. BestAgainst(orders[taker].side) = level /\ level \in Prices
    BY <1>1, <1>6, <1>7, <2>1
  <2> HIDE DEF m, Prices, AllLevels, Slots
  <2> QED BY <1>1, <1>2, <1>3, <1>5, <1>7, <1>8, <2>1, <2>2, <2>3 DEF Slots
<1>9. CASE orders[taker].side # Buy
  <2>1. level = best_bid /\ best_bid >= orders[taker].level
    BY <1>6, <1>9, <1>1, <1>7 DEF BestAgainst, Crosses, Order
  <2>2. orders[m].side = Buy
    BY <1>5, <1>7, <2>1 DEF Order
  <2>3. BestAgainst(orders[taker].side) = level /\ level \in Prices
    BY <1>1, <1>6, <1>7, <2>1
  <2> HIDE DEF m, Prices, AllLevels, Slots
  <2> QED BY <1>1, <1>2, <1>3, <1>5, <1>7, <1>9, <2>1, <2>2, <2>3 DEF Slots
<1> QED BY <1>8, <1>9

\* One trade: both parties lose the same quantity, and a counterpart that
\* has nothing left is unlinked.
LEMMA FillKeeps ==
  ASSUME IInv, Fill
  PROVE  IInv'
<1> USE SizesAssumption DEF Slots, AllLevels, Buy, Sell, NoTaker, Prices
<1> DEFINE m == Head(levels[level])
           t == taker
           q == Smaller(orders[m].size, orders[t].size)
           price == BestAgainst(orders[t].side)
           used == orders[m].size = q
<1>1. pc = "fill" /\ levels[level] # <<>>
  BY DEF Fill
<1>2. /\ level \in AllLevels /\ price \in Prices /\ price = level
      /\ Len(levels[level]) \in Nat \ {0} /\ m = levels[level][1]
      /\ m \in Slots /\ t \in Slots /\ m < t /\ t < orders_num
      /\ orders[m] \in Order /\ orders[t] \in Order
      /\ orders[m].size > 0 /\ orders[t].size > 0
      /\ orders[m].level = level
      /\ IF orders[t].side = Buy
         THEN orders[m].side = Sell /\ level <= orders[t].level
         ELSE orders[m].side = Buy /\ level >= orders[t].level
  BY <1>1, Parties
<1>3. q \in 1..MaxSize /\ q <= orders[m].size /\ q <= orders[t].size
  <2>1. /\ orders[m].size \in 1..MaxSize /\ orders[t].size \in 1..MaxSize
    BY <1>2 DEF Order
  <2>2. \A a, b \in 1..MaxSize :
          Smaller(a, b) \in 1..MaxSize /\ Smaller(a, b) <= a /\ Smaller(a, b) <= b
    BY DEF Smaller
  <2> HIDE DEF m, t
  <2> QED BY <2>1, <2>2
<1>4. /\ trades' = Append(trades, TradeOf(t, m, price, q))
      /\ orders' = [id \in Slots |->
                      IF id \in {m, t}
                      THEN [orders[id] EXCEPT !.size = @ - q] ELSE orders[id]]
      /\ levels' = IF used THEN [levels EXCEPT ![level] = Tail(@)] ELSE levels
      /\ IF orders[t].size = q
         THEN pc' = "idle" /\ taker' = NoTaker /\ ret' = 0
         ELSE UNCHANGED <<pc, taker, ret>>
      /\ UNCHANGED <<orders_num, best_ask, best_bid, level, asked, cancelled>>
  BY DEF Fill
<1>5. TypeOK
  BY DEF IInv
<1> HIDE DEF m, t, q, price, used
<1>6. /\ orders' \in [Slots -> Order]
      /\ \A id \in Slots :
           /\ orders'[id].side = orders[id].side
           /\ orders'[id].level = orders[id].level
           /\ orders'[id].size = IF id \in {m, t} THEN orders[id].size - q
                                                  ELSE orders[id].size
  <2>1. orders \in [Slots -> Order]
    BY <1>5 DEF TypeOK
  <2>2. orders[m].size - q \in 0..MaxSize /\ orders[t].size - q \in 0..MaxSize
    <3>1. orders[m].size \in 0..MaxSize /\ orders[t].size \in 0..MaxSize
      BY <1>2 DEF Order
    <3> QED BY <3>1, <1>3
  <2> HIDE DEF Slots, AllLevels
  <2>3. ASSUME NEW id \in Slots
        PROVE  /\ orders'[id] \in Order
               /\ orders'[id].side = orders[id].side
               /\ orders'[id].level = orders[id].level
               /\ orders'[id].size = IF id \in {m, t} THEN orders[id].size - q
                                                      ELSE orders[id].size
    <3>1. orders'[id] = IF id \in {m, t} THEN [orders[id] EXCEPT !.size = @ - q]
                        ELSE orders[id]
      BY <1>4
    <3> QED BY <3>1, <2>1, <2>2 DEF Order
  <2> QED BY <2>3, <1>4
<1>7. /\ levels' \in [AllLevels -> Seq(Slots)]
      /\ \A l \in AllLevels : l # level => levels'[l] = levels[l]
      /\ used => /\ Len(levels'[level]) = Len(levels[level]) - 1
                 /\ \A i \in 1..(Len(levels[level]) - 1) :
                      levels'[level][i] = levels[level][i + 1]
      /\ ~used => levels'[level] = levels[level]
  <2>1. levels \in [AllLevels -> Seq(Slots)] /\ levels[level] \in Seq(Slots)
    BY <1>2, <1>5 DEF TypeOK
  <2>2. /\ Tail(levels[level]) \in Seq(Slots)
        /\ Len(Tail(levels[level])) = Len(levels[level]) - 1
        /\ \A i \in 1..Len(Tail(levels[level])) :
             Tail(levels[level])[i] = levels[level][i + 1]
    BY <1>1, <2>1, HeadTailProperties
  <2> QED BY <2>1, <2>2, <1>2, <1>4
<1>8. TradeOf(t, m, price, q) \in Trade
  BY <1>2, <1>3 DEF TradeOf, Trade
<1>9. TypeOK'
  <2>1. trades' \in Seq(Trade)
    BY <1>4, <1>5, <1>8, AppendProperties DEF TypeOK
  <2> QED BY <1>4, <1>5, <1>6, <1>7, <2>1 DEF TypeOK
\* Every entry left in the book was one before, and is not m if m is used up.
<1>10. \A l \in AllLevels : Len(levels[l]) \in Nat
  BY <1>5, LenProperties DEF TypeOK
<1>11. ASSUME NEW l \in AllLevels, NEW i \in 1..Len(levels'[l])
       PROVE  /\ levels'[l][i] \in Slots
              /\ IF used /\ l = level
                 THEN i + 1 \in Places(l) /\ levels'[l][i] = levels[l][i + 1]
                 ELSE i \in Places(l) /\ levels'[l][i] = levels[l][i]
  <2>1. levels'[l][i] \in Slots
    BY <1>7, ElementOfSeq
  <2>2. CASE used /\ l = level
    <3>1. levels'[l] = levels'[level] /\ Len(levels'[l]) = Len(levels[l]) - 1
      BY <2>2, <1>7
    <3>2. i \in 1..(Len(levels[level]) - 1) /\ i + 1 \in 1..Len(levels[level])
      BY <3>1, <2>2, <1>2
    <3>3. levels'[level][i] = levels[level][i + 1]
      BY <2>2, <3>2, <1>7
    <3> QED BY <2>1, <2>2, <3>1, <3>2, <3>3 DEF Places
  <2>3. CASE ~(used /\ l = level)
    BY <2>1, <2>3, <1>7 DEF Places
  <2> QED BY <2>2, <2>3
<1>12. PlacedInBounds'
  <2> SUFFICES ASSUME NEW l \in AllLevels, NEW i \in 1..Len(levels'[l])
               PROVE  IF orders'[levels'[l][i]].side = Buy
                      THEN l <= best_bid ELSE l >= best_ask
    BY <1>4 DEF IInv, PlacedInBounds, Places
  <2>1. \E k \in Places(l) : levels'[l][i] = levels[l][k] /\ levels[l][k] \in Slots
    <3> HIDE DEF Places, Slots
    <3> QED BY <1>11
  <2>2. PICK k \in Places(l) : levels'[l][i] = levels[l][k] /\ levels[l][k] \in Slots
    BY <2>1
  <2> QED BY <2>2, <1>6 DEF IInv, PlacedInBounds
<1>13. PlacedExactly'
  <2>1. ASSUME NEW l \in AllLevels, NEW i \in 1..Len(levels'[l])
        PROVE  /\ levels'[l][i] < orders_num
               /\ levels'[l][i] # taker'
               /\ orders'[levels'[l][i]].level = l
               /\ orders'[levels'[l][i]].size > 0
               /\ \A j \in 1..(i - 1) : levels'[l][j] < levels'[l][i]
    <3> DEFINE e == levels'[l][i]
    <3>1. PICK k \in Places(l) : /\ e = levels[l][k] /\ e \in Slots
                                 /\ IF used /\ l = level THEN k = i + 1 ELSE k = i
      BY <1>11
    <3>2. /\ e < orders_num /\ e # t /\ orders[e].level = l /\ orders[e].size > 0
          /\ \A j \in 1..(k - 1) : levels[l][j] < e
      BY <3>1 DEF IInv, PlacedExactly, t
    <3> HIDE DEF e
    <3>3. e = m => ~used
      <4> SUFFICES ASSUME e = m, used PROVE FALSE
        OBVIOUS
      <4>1. l = level
        BY <3>2, <1>2
      <4>2. k = i + 1 /\ 1 \in 1..(k - 1)
        BY <4>1, <3>1 DEF Places
      <4>3. levels[l][1] < e
        BY <4>2, <3>2
      <4> QED BY <4>1, <4>3, <1>2
    <3>4. orders'[e].size > 0
      <4>1. orders[e].size \in Nat
        <5>1. orders[e] \in Order
          BY <3>1, <1>5 DEF TypeOK
        <5> QED BY <5>1 DEF Order
      <4>2. CASE e = m
        <5>1. e \in Slots /\ orders[m].size # q /\ q <= orders[m].size /\ q \in Nat
          BY <4>2, <3>1, <3>3, <1>3 DEF used
        <5>2. orders'[e].size = orders[e].size - q
          BY <4>2, <5>1, <1>6
        <5> QED BY <4>1, <4>2, <5>1, <5>2
      <4>3. CASE e # m
        BY <4>3, <3>1, <3>2, <1>6
      <4> QED BY <4>2, <4>3
    <3>5. \A j \in 1..(i - 1) : levels'[l][j] < e
      <4> TAKE j \in 1..(i - 1)
      <4>1. Len(levels'[l]) \in Nat /\ j \in 1..Len(levels'[l])
        BY <1>7, LenProperties
      <4>2. PICK h \in Places(l) : /\ levels'[l][j] = levels[l][h]
                                   /\ IF used /\ l = level THEN h = j + 1 ELSE h = j
        BY <4>1, <1>11
      <4>3. h \in 1..(k - 1)
        BY <4>2, <3>1 DEF Places
      <4> QED BY <4>2, <4>3, <3>2
    <3>6. e # taker'
      BY <3>1, <3>2, <1>4 DEF t
    <3> QED BY <3>1, <3>2, <3>4, <3>5, <3>6, <1>6 DEF e
  <2>2. ASSUME NEW id \in Slots, orders'[id].size > 0, id # taker'
        PROVE  \E i \in 1..Len(levels'[orders'[id].level]) :
                 levels'[orders'[id].level][i] = id
    <3> DEFINE l == orders[id].level
    <3>1. l \in AllLevels /\ orders'[id].level = l /\ orders[id] \in Order
      BY <1>5, <1>6 DEF TypeOK, Order
    <3>2. id # t /\ orders[id].size > 0
      <4>1. id # t
        <5> SUFFICES ASSUME id = t PROVE FALSE
          OBVIOUS
        <5>1. orders[t].size = q
          BY <2>2, <1>4 DEF t
        <5>2. orders'[t].size = q - q
          BY <5>1, <1>2, <1>6
        <5> QED BY <5>2, <2>2, <1>3
      <4>2. orders[id].size \in Nat
        BY <3>1 DEF Order
      <4> QED BY <4>1, <4>2, <2>2, <1>3, <1>6
    <3>3. PICK i \in Places(l) : levels[l][i] = id
      BY <3>2 DEF IInv, PlacedExactly, t
    <3>4. CASE used /\ l = level
      <4>1. id # m
        BY <3>4, <2>2, <1>2, <1>3, <1>6 DEF used
      <4>2. i # 1 /\ i - 1 \in 1..(Len(levels[l]) - 1)
        BY <4>1, <3>3, <3>4, <1>2 DEF Places
      <4>3. levels'[l][i - 1] = levels[l][(i - 1) + 1]
        BY <4>2, <3>4, <1>7
      <4>4. Len(levels'[l]) = Len(levels[l]) - 1
        BY <3>4, <1>7
      <4>5. i - 1 \in 1..Len(levels'[l])
        BY <4>2, <4>4
      <4>6. (i - 1) + 1 = i
        BY DEF Places
      <4>7. levels'[l][i - 1] = id
        BY <4>3, <4>6, <3>3
      <4> QED BY <4>5, <4>7, <3>1
    <3>5. CASE ~(used /\ l = level)
      <4>1. levels'[l] = levels[l]
        BY <3>5, <3>1, <1>7
      <4> QED BY <4>1, <3>1, <3>3 DEF Places
    <3> QED BY <3>4, <3>5
  <2>3. orders_num' = orders_num
    BY <1>4
  <2> HIDE DEF Slots, AllLevels
  <2> QED BY <2>1, <2>2, <2>3 DEF PlacedExactly, Places
<1>14. SweepInv'
  <2>1. orders[t].level \in Prices /\ t = orders_num - 1
    BY <1>1 DEF IInv, SweepInv, t
  <2>2. CASE orders[t].size = q
    BY <2>2, <1>4 DEF SweepInv
  <2>3. CASE orders[t].size # q
    <3>1. pc' = "fill" /\ taker' = t
      BY <2>3, <1>1, <1>4 DEF t
    <3>2. orders'[t].size > 0
      <4>1. orders'[t].size = orders[t].size - q
        BY <1>2, <1>6
      <4>2. orders[t].size \in Nat /\ q \in Nat
        BY <1>2, <1>3 DEF Order
      <4> QED BY <1>3, <2>3, <4>1, <4>2
    <3>3. level = BestAgainst(orders[t].side) /\ Crosses(orders[t])
      BY <1>1 DEF IInv, SweepInv, t
    <3>4. level' = level /\ best_ask' = best_ask /\ best_bid' = best_bid
          /\ orders_num' = orders_num
      BY <1>4
    <3>5. orders'[t].side = orders[t].side /\ orders'[t].level = orders[t].level
      BY <1>2, <1>6
    <3> HIDE DEF Prices
    <3>6. Crosses(orders[taker])'
      BY <3>1, <3>3, <3>4, <3>5 DEF Crosses
    <3>7. level' = BestAgainst(orders[taker].side)'
      BY <3>1, <3>3, <3>4, <3>5 DEF BestAgainst
    <3>8. /\ taker' = orders_num' - 1 /\ taker' # NoTaker
          /\ orders'[taker'].level \in Prices /\ orders'[taker'].size > 0
      BY <2>1, <3>1, <3>2, <3>4, <3>5, <1>2
    <3> QED BY <3>1, <3>6, <3>7, <3>8 DEF SweepInv
  <2> QED BY <2>2, <2>3
<1>15. TradesInLimits'
  <2>1. trades \in Seq(Trade) /\ Len(trades) \in Nat
    BY <1>5, LenProperties DEF TypeOK
  <2>2. /\ trades' \in Seq(Trade) /\ Len(trades') = Len(trades) + 1
        /\ \A i \in 1..Len(trades) : trades'[i] = trades[i]
        /\ trades'[Len(trades) + 1] = TradeOf(t, m, price, q)
    BY <2>1, <1>4, <1>8, AppendProperties
  <2> SUFFICES ASSUME NEW i \in 1..(Len(trades) + 1)
               PROVE  TradesInLimits!(i)'
    BY <2>2, LenProperties DEF TradesInLimits
  <2>3. CASE i \in 1..Len(trades)
    <3> DEFINE b == trades[i].buyer
               s == trades[i].seller
    <3>1. trades'[i] = trades[i] /\ trades[i] \in Trade
      BY <2>1, <2>2, <2>3, ElementOfSeq
    <3>2. TradesInLimits!(i)
      BY <2>1, <2>3, LenProperties DEF IInv, TradesInLimits
    <3>3. b \in Slots /\ s \in Slots /\ Smaller(b, s) \in Slots
      BY <3>1 DEF Trade, Smaller
    <3>4. /\ orders'[b].side = orders[b].side /\ orders'[b].level = orders[b].level
          /\ orders'[s].side = orders[s].side /\ orders'[s].level = orders[s].level
          /\ orders'[Smaller(b, s)].level = orders[Smaller(b, s)].level
      BY <3>3, <1>6
    <3>5. orders_num' = orders_num
      BY <1>4
    <3> QED BY <3>1, <3>2, <3>4, <3>5
  <2>4. CASE i = Len(trades) + 1
    <3>1. trades'[i] = TradeOf(t, m, price, q)
      BY <2>2, <2>4
    <3>2. Smaller(t, m) = m /\ Smaller(m, t) = m
      BY <1>2 DEF Smaller
    <3>3. /\ orders'[m].side = orders[m].side /\ orders'[m].level = orders[m].level
          /\ orders'[t].side = orders[t].side /\ orders'[t].level = orders[t].level
          /\ orders_num' = orders_num /\ m < orders_num
      <4>1. orders_num \in Nat
        BY <1>5 DEF TypeOK
      <4>2. m < orders_num
        BY <4>1, <1>2
      <4> HIDE DEF Slots
      <4> QED BY <4>2, <1>2, <1>4, <1>6
    <3>4. CASE orders[t].side = Buy
      <4>1. trades'[i].buyer = t /\ trades'[i].seller = m /\ trades'[i].price = price
        BY <3>1, <3>4 DEF TradeOf
      <4>2. Smaller(trades'[i].buyer, trades'[i].seller) = m
        BY <4>1, <3>2
      <4> QED BY <4>1, <4>2, <3>3, <3>4, <1>2
    <3>5. CASE orders[t].side # Buy
      <4>1. trades'[i].buyer = m /\ trades'[i].seller = t /\ trades'[i].price = price
        BY <3>1, <3>5 DEF TradeOf
      <4>2. orders[t].side = Sell
        BY <3>5, <1>2 DEF Order
      <4>3. Smaller(trades'[i].buyer, trades'[i].seller) = m
        BY <4>1, <3>2
      <4> QED BY <4>1, <4>2, <4>3, <3>3, <1>2
    <3> QED BY <3>4, <3>5
  <2> QED BY <2>3, <2>4, <2>1
<1> QED BY <1>9, <1>12, <1>13, <1>14, <1>15 DEF IInv

\* The outer loop's tail: an emptied level lets the best price move on.
LEMMA LeaveKeeps ==
  ASSUME IInv, LeaveLevel
  PROVE  IInv'
<1> USE SizesAssumption DEF Buy, Sell, NoTaker
<1>1. /\ pc = "fill" /\ levels[level] = <<>> /\ pc' = "sweep"
      /\ UNCHANGED <<orders, orders_num, levels, taker, level, ret, history>>
      /\ IF orders[taker].side = Buy
         THEN best_ask' = best_ask + 1 /\ UNCHANGED best_bid
         ELSE best_bid' = best_bid - 1 /\ UNCHANGED best_ask
  BY DEF LeaveLevel
<1>2. /\ taker \in Slots /\ orders[taker] \in Order
      /\ orders[taker].level \in Prices /\ orders[taker].size > 0
      /\ taker = orders_num - 1 /\ taker # NoTaker
  BY <1>1 DEF IInv, SweepInv, TypeOK, Slots
<1>3. /\ best_bid < best_ask /\ best_bid \in 0..MaxLevel
      /\ best_ask \in 1..(MaxLevel + 1)
  BY DEF IInv, PlacedInBounds, TypeOK
<1>4. level = BestAgainst(orders[taker].side) /\ Crosses(orders[taker])
  BY <1>1 DEF IInv, SweepInv
<1>5. Len(levels[level]) = 0
  BY <1>1, EmptySeq
<1>6. CASE orders[taker].side = Buy
  <2>1. /\ level = best_ask /\ best_ask <= orders[taker].level
        /\ best_ask' = best_ask + 1 /\ best_bid' = best_bid
    BY <1>1, <1>4, <1>6 DEF BestAgainst, Crosses
  <2>2. best_ask' \in 1..(MaxLevel + 1)
    BY <1>2, <1>3, <2>1 DEF Prices
  <2>3. TypeOK'
    BY <1>1, <2>1, <2>2 DEF IInv, TypeOK, history
  <2>4. ASSUME NEW l \in AllLevels, NEW i \in Places(l)
        PROVE  IF orders[levels[l][i]].side = Buy
               THEN l <= best_bid' ELSE l >= best_ask'
    <3>1. l # best_ask
      BY <2>1, <1>5 DEF Places
    <3>2. IF orders[levels[l][i]].side = Buy THEN l <= best_bid ELSE l >= best_ask
      BY DEF IInv, PlacedInBounds
    <3> QED BY <3>1, <3>2, <2>1, <1>3 DEF AllLevels
  <2>5. PlacedInBounds'
    BY <1>1, <1>3, <2>1, <2>4 DEF PlacedInBounds, Places
  <2>6. SweepInv'
    BY <1>1, <1>2, <1>3, <1>6, <2>1 DEF SweepInv, Prices
  <2> QED BY <1>1, <2>3, <2>5, <2>6
          DEF IInv, PlacedExactly, Places, TradesInLimits, history
<1>7. CASE orders[taker].side # Buy
  <2>1. /\ level = best_bid /\ best_bid >= orders[taker].level
        /\ best_bid' = best_bid - 1 /\ best_ask' = best_ask
    BY <1>1, <1>2, <1>3, <1>4, <1>7 DEF BestAgainst, Crosses, Order, Prices
  <2>2. best_bid' \in 0..MaxLevel
    BY <1>2, <1>3, <2>1 DEF Prices
  <2>3. TypeOK'
    BY <1>1, <2>1, <2>2 DEF IInv, TypeOK, history
  <2>4. ASSUME NEW l \in AllLevels, NEW i \in Places(l)
        PROVE  IF orders[levels[l][i]].side = Buy
               THEN l <= best_bid' ELSE l >= best_ask'
    <3>1. l # best_bid
      BY <2>1, <1>5 DEF Places
    <3>2. IF orders[levels[l][i]].side = Buy THEN l <= best_bid ELSE l >= best_ask
      BY DEF IInv, PlacedInBounds
    <3> QED BY <3>1, <3>2, <2>1, <1>3 DEF AllLevels
  <2>5. PlacedInBounds'
    BY <1>1, <1>3, <2>1, <2>4 DEF PlacedInBounds, Places
  <2>6. orders[taker].side = Sell
    BY <1>2, <1>7 DEF Order
  <2>7. SweepInv'
    BY <1>1, <1>2, <1>3, <2>1, <2>6 DEF SweepInv, Prices
  <2> QED BY <1>1, <2>3, <2>5, <2>7
          DEF IInv, PlacedExactly, Places, TradesInLimits, history
<1> QED BY <1>6, <1>7

\* The taker's rest goes to the end of the list of its own level.
LEMMA RestKeeps ==
  ASSUME IInv, Rest
  PROVE  IInv'
<1> USE SizesAssumption DEF Buy, Sell, NoTaker
<1> DEFINE t == taker
           o == orders[t]
<1>1. /\ pc = "sweep" /\ ~Crosses(o)
      /\ levels' = [levels EXCEPT ![level] = Append(@, t)]
      /\ pc' = "idle" /\ taker' = NoTaker /\ ret' = 0
      /\ UNCHANGED <<orders, orders_num, level, history>>
      /\ IF o.side = Buy
         THEN best_bid' = (IF o.level > best_bid THEN o.level ELSE best_bid)
              /\ UNCHANGED best_ask
         ELSE best_ask' = (IF o.level < best_ask THEN o.level ELSE best_ask)
              /\ UNCHANGED best_bid
  BY DEF Rest, Enqueue, BidBound, AskBound
<1>2. /\ t \in Slots /\ o \in Order /\ o.level \in Prices /\ o.size > 0
      /\ t = orders_num - 1
  BY <1>1 DEF IInv, SweepInv, TypeOK, Slots
<1>3. /\ best_bid < best_ask /\ best_bid \in 0..MaxLevel
      /\ best_ask \in 1..(MaxLevel + 1) /\ orders_num \in Nat
  BY DEF IInv, PlacedInBounds, TypeOK
<1>4. level = o.level
  BY <1>1, <1>2, <1>3 DEF IInv, SweepInv, Crosses, Prices
<1>5. /\ best_bid' \in 0..MaxLevel /\ best_ask' \in 1..(MaxLevel + 1)
      /\ best_bid' < best_ask' /\ best_bid <= best_bid' /\ best_ask' <= best_ask
      /\ IF o.side = Buy THEN level <= best_bid' ELSE level >= best_ask'
  <2>1. o.level \in Nat /\ o.level \in Prices /\ o.side \in {Buy, Sell}
    BY <1>2 DEF Prices, Order
  <2>2. CASE o.side = Buy
    BY <2>1, <2>2, <1>1, <1>3, <1>4 DEF Crosses, Prices
  <2>3. CASE o.side = Sell
    BY <2>1, <2>3, <1>1, <1>3, <1>4 DEF Crosses, Prices
  <2> QED BY <2>1, <2>2, <2>3
<1>6. level \in AllLevels /\ levels \in [AllLevels -> Seq(Slots)]
  BY <1>2, <1>4 DEF IInv, TypeOK, Prices, AllLevels
<1>7. /\ levels' \in [AllLevels -> Seq(Slots)]
      /\ \A l \in AllLevels : l # level => levels'[l] = levels[l]
      /\ Len(levels[level]) \in Nat
      /\ Len(levels'[level]) = Len(levels[level]) + 1
      /\ \A i \in 1..Len(levels[level]) : levels'[level][i] = levels[level][i]
      /\ levels'[level][Len(levels[level]) + 1] = t
  <2>1. levels'[level] = Append(levels[level], t)
    BY <1>1, <1>6
  <2>2. levels[level] \in Seq(Slots)
    BY <1>6
  <2>3. /\ levels'[level] \in Seq(Slots) /\ Len(levels[level]) \in Nat
        /\ Len(levels'[level]) = Len(levels[level]) + 1
        /\ \A i \in 1..Len(levels[level]) : levels'[level][i] = levels[level][i]
        /\ levels'[level][Len(levels[level]) + 1] = t
    BY <2>1, <2>2, <1>2, AppendProperties, LenProperties
  <2>4. \A l \in AllLevels : l # level => levels'[l] = levels[l]
    BY <1>1, <1>6
  <2> QED BY <2>3, <2>4, <1>1, <1>6
<1> HIDE DEF t, o
<1>8. TypeOK'
  BY <1>1, <1>5, <1>7 DEF IInv, TypeOK, history
<1>9. ASSUME NEW l \in AllLevels, NEW i \in 1..Len(levels'[l])
      PROVE  \/ i \in Places(l) /\ levels'[l][i] = levels[l][i]
             \/ l = level /\ i = Len(levels[level]) + 1 /\ levels'[l][i] = t
  <2>1. CASE l = level
    BY <2>1, <1>7 DEF Places
  <2>2. CASE l # level
    BY <2>2, <1>7 DEF Places
  <2> QED BY <2>1, <2>2
<1>10. ASSUME NEW l \in AllLevels, NEW i \in Places(l)
       PROVE  /\ levels[l][i] \in Slots /\ levels[l][i] < t
              /\ levels[l][i] # NoTaker
  <2>1. levels[l][i] \in Slots
    BY <1>6, ElementOfSeq DEF Places
  <2>2. levels[l][i] < orders_num /\ levels[l][i] # t
    BY DEF IInv, PlacedExactly, t
  <2> QED BY <2>1, <2>2, <1>2, <1>3 DEF Slots
<1>11. PlacedInBounds'
  <2> SUFFICES ASSUME NEW l \in AllLevels, NEW i \in 1..Len(levels'[l])
               PROVE  IF orders[levels'[l][i]].side = Buy
                      THEN l <= best_bid' ELSE l >= best_ask'
    BY <1>1, <1>5 DEF PlacedInBounds, Places
  <2>1. CASE i \in Places(l) /\ levels'[l][i] = levels[l][i]
    <3>1. IF orders[levels[l][i]].side = Buy THEN l <= best_bid ELSE l >= best_ask
      BY <2>1 DEF IInv, PlacedInBounds
    <3> QED BY <3>1, <2>1, <1>3, <1>5 DEF AllLevels
  <2>2. CASE l = level /\ levels'[l][i] = t
    BY <2>2, <1>5 DEF o
  <2> QED BY <2>1, <2>2, <1>9
<1>12. PlacedExactly'
  <2>1. ASSUME NEW l \in AllLevels, NEW i \in 1..Len(levels'[l])
        PROVE  /\ levels'[l][i] < orders_num
               /\ levels'[l][i] # NoTaker
               /\ orders[levels'[l][i]].level = l
               /\ orders[levels'[l][i]].size > 0
               /\ \A j \in 1..(i - 1) : levels'[l][j] < levels'[l][i]
    <3>1. CASE i \in Places(l) /\ levels'[l][i] = levels[l][i]
      <4>1. \A j \in 1..(i - 1) : levels'[l][j] = levels[l][j]
        <5> TAKE j \in 1..(i - 1)
        <5>1. levels[l] \in Seq(Slots) /\ Len(levels[l]) \in Nat
          BY <1>6, LenProperties
        <5>2. i \in 1..Len(levels[l])
          BY <3>1 DEF Places
        <5>3. j \in 1..Len(levels[l])
          BY <5>1, <5>2
        <5>4. CASE l = level
          BY <1>7, <5>3, <5>4
        <5>5. CASE l # level
          BY <1>7, <5>5
        <5> QED BY <5>4, <5>5
      <4>2. /\ levels[l][i] < orders_num /\ levels[l][i] # NoTaker
            /\ orders[levels[l][i]].level = l /\ orders[levels[l][i]].size > 0
            /\ \A j \in 1..(i - 1) : levels[l][j] < levels[l][i]
        BY <3>1, <1>10 DEF IInv, PlacedExactly
      <4> QED BY <4>1, <4>2, <3>1
    <3>2. CASE l = level /\ i = Len(levels[level]) + 1 /\ levels'[l][i] = t
      <4>1. \A j \in 1..(i - 1) : j \in Places(l) /\ levels'[l][j] = levels[l][j]
        BY <3>2, <1>7 DEF Places
      <4>2. t < orders_num /\ t # NoTaker
        BY <1>2, <1>3 DEF Slots
      <4> QED BY <4>1, <4>2, <3>2, <1>2, <1>4, <1>10 DEF o
    <3> QED BY <3>1, <3>2, <1>9
  <2>2. ASSUME NEW id \in Slots, orders[id].size > 0
        PROVE  \E i \in 1..Len(levels'[orders[id].level]) :
                 levels'[orders[id].level][i] = id
    <3>1. CASE id = t
      <4>1. orders[id].level = level
        BY <3>1, <1>4 DEF o
      <4> QED BY <4>1, <3>1, <1>7
    <3>2. CASE id # t
      <4>1. PICK i \in Places(orders[id].level) : levels[orders[id].level][i] = id
        BY <3>2, <2>2 DEF IInv, PlacedExactly, t
      <4>2. orders[id].level \in AllLevels
        BY DEF IInv, TypeOK, Order
      <4>3. CASE orders[id].level = level
        BY <4>1, <4>3, <1>7 DEF Places
      <4>4. CASE orders[id].level # level
        BY <4>1, <4>2, <4>4, <1>7 DEF Places
      <4> QED BY <4>3, <4>4
    <3> QED BY <3>1, <3>2
  <2>3. orders' = orders /\ orders_num' = orders_num /\ taker' = NoTaker
    BY <1>1
  <2> QED BY <2>1, <2>2, <2>3 DEF PlacedExactly, Places
<1>13. SweepInv'
  BY <1>1 DEF SweepInv
<1>14. TradesInLimits'
  BY <1>1 DEF IInv, TradesInLimits, history
<1> QED BY <1>8, <1>11, <1>12, <1>13, <1>14 DEF IInv

\* do_cancel: the order leaves its list; the bounds stay and still bound.
LEMMA CancelKeeps ==
  ASSUME IInv, NEW id \in 0..MaxOrders, Cancel(id)
  PROVE  IInv'
<1> USE SizesAssumption DEF Buy, Sell, NoTaker
<1> DEFINE l0 == orders[id].level
           list == levels[l0]
           k == Place(list, id)
<1>1. /\ pc = "idle" /\ id < orders_num /\ orders[id].size # 0
      /\ levels' = [levels EXCEPT ![l0] = Unlink(@, id)]
      /\ orders' = [orders EXCEPT ![id].size = 0]
      /\ cancelled' = cancelled \cup {id}
      /\ ret' = 0
      /\ UNCHANGED <<orders_num, best_ask, best_bid, loop, asked, trades>>
  BY DEF Cancel, CancelRejects
<1>2. id \in Slots /\ taker = NoTaker
  BY <1>1 DEF IInv, TypeOK, SweepInv, Slots
<1>3. orders \in [Slots -> Order] /\ levels \in [AllLevels -> Seq(Slots)]
  BY DEF IInv, TypeOK
<1>4. orders[id].size > 0 /\ l0 \in AllLevels /\ list \in Seq(Slots)
  BY <1>1, <1>2, <1>3 DEF Order
<1>5. id \in Range(list)
  <2>1. \E i \in Places(l0) : list[i] = id
    BY <1>2, <1>4 DEF IInv, PlacedExactly, Slots
  <2> QED BY <2>1, <1>4, RangeEquality DEF Places
<1>6. /\ k \in 1..Len(list) /\ list[k] = id /\ Len(list) \in Nat
      /\ Unlink(list, id) \in Seq(Slots)
      /\ Len(Unlink(list, id)) = Len(list) - 1
      /\ \A j \in 1..(Len(list) - 1) :
           Unlink(list, id)[j] = IF j < k THEN list[j] ELSE list[j + 1]
  BY <1>4, <1>5, UnlinkLemma, LenProperties
<1>7. /\ levels' \in [AllLevels -> Seq(Slots)]
      /\ levels'[l0] = Unlink(list, id)
      /\ \A l \in AllLevels : l # l0 => levels'[l] = levels[l]
  BY <1>1, <1>3, <1>4, <1>6
<1>8. /\ orders' \in [Slots -> Order]
      /\ \A x \in Slots : /\ orders'[x].side = orders[x].side
                          /\ orders'[x].level = orders[x].level
                          /\ orders'[x].size = IF x = id THEN 0 ELSE orders[x].size
  <2>1. [orders[id] EXCEPT !.size = 0] \in Order
    <3>1. orders[id] \in Order
      BY <1>2, <1>3
    <3>2. 0 \in 0..MaxSize
      OBVIOUS
    <3> QED BY <3>1, <3>2 DEF Order
  <2>2. orders' = [orders EXCEPT ![id] = [orders[id] EXCEPT !.size = 0]]
    BY <1>1
  <2> HIDE DEF Slots
  <2>3. orders' \in [Slots -> Order]
    BY <2>1, <2>2, <1>2, <1>3
  <2>4. ASSUME NEW x \in Slots
        PROVE  /\ orders'[x].side = orders[x].side
               /\ orders'[x].level = orders[x].level
               /\ orders'[x].size = IF x = id THEN 0 ELSE orders[x].size
    BY <2>2, <1>2, <1>3 DEF Order
  <2> QED BY <2>3, <2>4
<1>9. TypeOK'
  BY <1>1, <1>2, <1>7, <1>8 DEF IInv, TypeOK, loop
<1> HIDE DEF l0, list, k
\* Where an entry that is left stood before.
<1>10. ASSUME NEW l \in AllLevels, NEW i \in 1..Len(levels'[l])
       PROVE  /\ levels'[l][i] \in Slots
              /\ IF l = l0
                 THEN IF i < k THEN i \in Places(l) /\ levels'[l][i] = levels[l][i]
                      ELSE i + 1 \in Places(l) /\ levels'[l][i] = levels[l][i + 1]
                 ELSE i \in Places(l) /\ levels'[l][i] = levels[l][i]
  <2>1. levels'[l][i] \in Slots
    BY <1>7, ElementOfSeq
  <2>2. CASE l = l0
    <3>1. i \in 1..(Len(list) - 1) /\ list = levels[l]
      BY <2>2, <1>6, <1>7 DEF list
    <3>2. levels'[l][i] = IF i < k THEN levels[l][i] ELSE levels[l][i + 1]
      BY <2>2, <3>1, <1>6, <1>7
    <3>3. i \in Places(l) /\ i + 1 \in Places(l)
      BY <3>1, <1>6 DEF Places
    <3> QED BY <2>1, <2>2, <3>2, <3>3
  <2>3. CASE l # l0
    BY <2>1, <2>3, <1>7 DEF Places
  <2> QED BY <2>2, <2>3
<1>11. PlacedInBounds'
  <2> SUFFICES ASSUME NEW l \in AllLevels, NEW i \in 1..Len(levels'[l])
               PROVE  IF orders'[levels'[l][i]].side = Buy
                      THEN l <= best_bid ELSE l >= best_ask
    BY <1>1 DEF IInv, PlacedInBounds, Places
  <2>1. \E h \in Places(l) : levels'[l][i] = levels[l][h] /\ levels[l][h] \in Slots
    <3> HIDE DEF Places, Slots
    <3> QED BY <1>10
  <2>2. PICK h \in Places(l) : levels'[l][i] = levels[l][h] /\ levels[l][h] \in Slots
    BY <2>1
  <2> QED BY <2>2, <1>8 DEF IInv, PlacedInBounds
<1>12. PlacedExactly'
  <2>1. ASSUME NEW l \in AllLevels, NEW i \in 1..Len(levels'[l])
        PROVE  /\ levels'[l][i] < orders_num
               /\ levels'[l][i] # taker
               /\ orders'[levels'[l][i]].level = l
               /\ orders'[levels'[l][i]].size > 0
               /\ \A j \in 1..(i - 1) : levels'[l][j] < levels'[l][i]
    <3> DEFINE e == levels'[l][i]
               At(j) == IF l = l0 /\ j >= k THEN j + 1 ELSE j
    <3>1. Len(levels'[l]) \in Nat /\ i \in Nat /\ k \in Nat
      BY <1>6, <1>7, LenProperties
    <3>2. \A j \in 1..Len(levels'[l]) :
            At(j) \in Places(l) /\ levels'[l][j] = levels[l][At(j)]
      BY <1>6, <1>10, <3>1
    <3>3. At(i) \in Places(l) /\ e = levels[l][At(i)] /\ e \in Slots
      BY <3>2, <1>10
    <3>4. /\ e < orders_num /\ e # taker /\ orders[e].level = l
          /\ orders[e].size > 0
          /\ \A j \in 1..(At(i) - 1) : levels[l][j] < e
      BY <3>3 DEF IInv, PlacedExactly
    <3>5. e # id
      <4> SUFFICES ASSUME e = id PROVE FALSE
        OBVIOUS
      <4>1. l = l0
        BY <3>4 DEF l0
      <4>2. k \in Places(l) /\ levels[l][k] = e
        BY <4>1, <1>6 DEF Places, list
      <4>3. \A j \in 1..(k - 1) : levels[l][j] < e
        BY <4>2 DEF IInv, PlacedExactly
      <4>4. At(i) < k \/ k < At(i)
        BY <3>1, <4>1
      <4>5. CASE At(i) < k
        <5>1. At(i) \in 1..(k - 1)
          BY <3>3, <4>5, <3>1, <4>2, <1>6 DEF Places
        <5> QED BY <5>1, <3>3, <4>3 DEF Slots
      <4>6. CASE k < At(i)
        <5>1. k \in 1..(At(i) - 1)
          BY <3>1, <4>6, <1>6
        <5> QED BY <5>1, <3>3, <3>4, <4>2 DEF Slots
      <4> QED BY <4>4, <4>5, <4>6
    <3>6. \A j \in 1..(i - 1) : levels'[l][j] < e
      <4> TAKE j \in 1..(i - 1)
      <4>1. j \in 1..Len(levels'[l]) /\ At(j) \in 1..(At(i) - 1)
        <5>1. j \in 1..Len(levels'[l])
          BY <3>1
        <5>2. At(j) \in Places(l) /\ At(j) < At(i)
          BY <5>1, <3>1, <3>2
        <5> QED BY <5>1, <5>2, <3>1, <3>3 DEF Places
      <4> QED BY <4>1, <3>2, <3>4
    <3> HIDE DEF e, At
    <3> QED BY <3>3, <3>4, <3>5, <3>6, <1>8 DEF e
  <2>2. ASSUME NEW x \in Slots, orders'[x].size > 0, x # taker
        PROVE  \E i \in 1..Len(levels'[orders'[x].level]) :
                 levels'[orders'[x].level][i] = x
    <3> DEFINE l == orders[x].level
    <3>1. x # id /\ orders[x].size > 0 /\ orders'[x].level = l /\ l \in AllLevels
      BY <2>2, <1>3, <1>8 DEF Order
    <3>2. PICK i \in Places(l) : levels[l][i] = x
      BY <2>2, <3>1 DEF IInv, PlacedExactly
    <3>3. CASE l = l0
      <4>1. i # k /\ list = levels[l] /\ i \in 1..Len(list)
        BY <3>1, <3>2, <3>3, <1>6 DEF list, Places
      <4>2. CASE i < k
        <5>1. i \in 1..(Len(list) - 1)
          BY <4>1, <4>2, <1>6
        <5>2. levels'[l][i] = x
          BY <5>1, <4>1, <4>2, <3>2, <3>3, <1>6, <1>7
        <5> QED BY <5>1, <5>2, <3>1, <3>3, <1>6, <1>7
      <4>3. CASE i > k
        <5>1. i - 1 \in 1..(Len(list) - 1) /\ ~(i - 1 < k) /\ (i - 1) + 1 = i
          <6>1. k \in Nat \ {0} /\ Len(list) \in Nat
            BY <1>6
          <6> QED BY <4>1, <4>3, <6>1
        <5>2. levels'[l][i - 1] = x
          BY <5>1, <4>1, <3>2, <3>3, <1>6, <1>7
        <5> QED BY <5>1, <5>2, <3>1, <3>3, <1>6, <1>7
      <4> QED BY <4>1, <4>2, <4>3, <1>6
    <3>4. CASE l # l0
      BY <3>1, <3>2, <3>4, <1>7 DEF Places
    <3> QED BY <3>3, <3>4
  <2>3. orders_num' = orders_num /\ taker' = taker
    BY <1>1 DEF loop
  <2> HIDE DEF Slots, AllLevels
  <2> QED BY <2>1, <2>2, <2>3 DEF PlacedExactly, Places
<1>13. SweepInv'
  BY <1>1, <1>2 DEF IInv, SweepInv, loop
<1>14. TradesInLimits'
  <2> SUFFICES ASSUME NEW i \in DOMAIN trades
               PROVE  TradesInLimits!(i)'
    BY <1>1 DEF TradesInLimits
  <2> DEFINE b == trades[i].buyer
             s == trades[i].seller
  <2>1. trades[i] \in Trade
    BY ElementOfSeq, LenProperties DEF IInv, TypeOK
  <2>2. TradesInLimits!(i)
    BY DEF IInv, TradesInLimits
  <2>3. b \in Slots /\ s \in Slots /\ Smaller(b, s) \in Slots
    BY <2>1 DEF Trade, Smaller
  <2>4. /\ orders'[b].side = orders[b].side /\ orders'[b].level = orders[b].level
        /\ orders'[s].side = orders[s].side /\ orders'[s].level = orders[s].level
        /\ orders'[Smaller(b, s)].level = orders[Smaller(b, s)].level
    BY <2>3, <1>8
  <2>5. trades' = trades /\ orders_num' = orders_num
    BY <1>1
  <2> QED BY <2>2, <2>4, <2>5
<1> QED BY <1>9, <1>11, <1>12, <1>13, <1>14 DEF IInv

-----------------------------------------------------------------------------
\* The inductive invariant is inductive: one case per action.
LEMMA StepKeeps == IInv /\ [Next]_vars => IInv'
<1> SUFFICES ASSUME IInv, [Next]_vars PROVE IInv'
  OBVIOUS
<1>1. ASSUME NEW sd \in {Buy, Sell}, NEW lv \in AllLevels, NEW sz \in 0..MaxSize,
             RejectLimit(lv, sz) \/ AcceptLimit(sd, lv, sz)
      PROVE  IInv'
  BY <1>1, AcceptKeeps, UnchangedBookKeeps DEF RejectLimit
<1>2. CASE Match
  BY <1>2, EnterKeeps, FillKeeps, LeaveKeeps, RestKeeps DEF Match
<1>3. ASSUME NEW id \in 0..MaxOrders, RejectCancel(id) \/ Cancel(id)
      PROVE  IInv'
  BY <1>3, CancelKeeps, UnchangedBookKeeps DEF RejectCancel
<1>4. CASE UNCHANGED vars
  <2>1. ret' \in {0, -1} /\ UNCHANGED <<book, loop, history>>
    BY <1>4 DEF vars, book, loop, history, IInv, TypeOK
  <2> QED BY <2>1, UnchangedBookKeeps
<1> QED BY <1>1, <1>2, <1>3, <1>4 DEF Next

(***************************************************************************)
(* The inductive invariant holds in every state of every behaviour.        *)
(***************************************************************************)
THEOREM InvariantHolds == Spec => []IInv
BY InitEstablishes, StepKeeps, PTL DEF Spec

\* What the places in the lists say about the set of resting orders.
LEMMA RestingPlaces ==
  ASSUME IInv, NEW id
  PROVE  id \in Resting <=> \E l \in AllLevels : \E i \in Places(l) : levels[l][i] = id
<1>1. \A l \in AllLevels : Listed(l) = {levels[l][i] : i \in Places(l)}
  BY RangeEquality DEF Listed, Places, IInv, TypeOK
<1> QED BY <1>1 DEF Resting

(***************************************************************************)
(* The ranges of the book's state (match()'s `level` and the bounds never  *)
(* leave the array of levels).                                             *)
(***************************************************************************)
THEOREM TypeCorrect == Spec => []TypeOK
<1>1. IInv => TypeOK
  BY DEF IInv
<1> QED BY <1>1, InvariantHolds, PTL

(***************************************************************************)
(* best_bid < best_ask, and every resting order is on its side of them.    *)
(***************************************************************************)
THEOREM BoundsAlwaysHold == Spec => []BoundsHold
<1>1. ASSUME IInv PROVE BoundsHold
  <2>1. \A id \in Resting : \E l \in AllLevels : \E i \in Places(l) : levels[l][i] = id
    BY <1>1, RestingPlaces
  <2> QED BY <1>1, <2>1
          DEF IInv, PlacedInBounds, PlacedExactly, BoundsHold, RestingOn, Buy, Sell
<1> QED BY <1>1, InvariantHolds, PTL

(***************************************************************************)
(* No resting buy meets a resting sell, in the middle of a match included. *)
(***************************************************************************)
THEOREM NeverCrossed == Spec => []Uncrossed
<1>1. ASSUME IInv PROVE BoundsHold => Uncrossed
  <2>1. \A id \in Resting : orders[id].level \in Nat
    <3> TAKE id \in Resting
    <3>1. PICK l \in AllLevels : \E i \in Places(l) : levels[l][i] = id
      BY <1>1, RestingPlaces
    <3>2. orders[id].level = l
      BY <1>1, <3>1 DEF IInv, PlacedExactly
    <3> QED BY <3>1, <3>2, SizesAssumption DEF AllLevels
  <2>2. best_bid \in Nat /\ best_ask \in Nat
    BY <1>1 DEF IInv, TypeOK
  <2> QED BY <2>1, <2>2 DEF BoundsHold, Uncrossed, RestingOn
<1> QED BY <1>1, InvariantHolds, BoundsAlwaysHold, PTL

\* From places to sets: the lists hold the open orders.
LEMMA InvariantListsExact == IInv => ListsExact
<1> SUFFICES ASSUME IInv PROVE ListsExact
  OBVIOUS
<1>1. levels \in [AllLevels -> Seq(Slots)] /\ orders \in [Slots -> Order]
  BY DEF IInv, TypeOK
<1>2. \A l \in AllLevels : DOMAIN levels[l] = Places(l)
  BY <1>1, LenProperties DEF Places
<1>3. \A l \in AllLevels : \A i \in Places(l) :
        /\ levels[l][i] < orders_num /\ levels[l][i] # taker
        /\ orders[levels[l][i]].level = l /\ orders[levels[l][i]].size > 0
        /\ levels[l][i] \in Slots
        /\ \A j \in 1..(i - 1) : levels[l][j] < levels[l][i]
  BY <1>1, ElementOfSeq DEF IInv, PlacedExactly, Places
<1>4. \A id \in Slots : orders[id].size > 0 /\ id # taker =>
        \E i \in Places(orders[id].level) : levels[orders[id].level][i] = id
  BY DEF IInv, PlacedExactly
<1>5. \A id \in Slots : orders[id].level \in AllLevels
  BY <1>1 DEF Order
<1> HIDE DEF Places, Slots, AllLevels
<1>6. ASSUME NEW id PROVE id \in Resting <=>
                          id \in {x \in Slots : orders[x].size > 0} \ {taker}
  <2>1. id \in Resting <=>
          \E l \in AllLevels : \E i \in Places(l) : levels[l][i] = id
    BY RestingPlaces
  <2>2. ASSUME NEW l \in AllLevels, NEW i \in Places(l), levels[l][i] = id
        PROVE  id \in Slots /\ orders[id].size > 0 /\ id # taker
    BY <2>2, <1>3
  <2>3. ASSUME id \in Slots, orders[id].size > 0, id # taker
        PROVE  \E l \in AllLevels : \E i \in Places(l) : levels[l][i] = id
    BY <2>3, <1>4, <1>5
  <2> QED BY <2>1, <2>2, <2>3
<1> QED BY <1>2, <1>3, <1>6 DEF ListsExact

(***************************************************************************)
(* The lists hold exactly the open orders, at their levels, in order.      *)
(***************************************************************************)
THEOREM ListsAlwaysExact == Spec => []ListsExact
BY InvariantListsExact, InvariantHolds, PTL

(***************************************************************************)
(* Trades are inside both limits and at the older party's price.           *)
(***************************************************************************)
THEOREM TradesAlwaysInLimits == Spec => []TradesInLimits
<1>1. IInv => TradesInLimits
  BY DEF IInv
<1> QED BY <1>1, InvariantHolds, PTL

(***************************************************************************)
(* The rest of a taker is inserted at the taker's own level.               *)
(***************************************************************************)
THEOREM SweepAlwaysHolds == Spec => []SweepInv
<1>1. IInv => SweepInv
  BY DEF IInv
<1> QED BY <1>1, InvariantHolds, PTL

-----------------------------------------------------------------------------
(***************************************************************************)
(* Nothing is lost in the matching engine: what an order came with is what *)
(* it traded plus what is left.  The units of an order's trades are a      *)
(* finite set that each trade adds its own to, so that a sum over the      *)
(* trades is a cardinality, and no induction over them is needed.          *)
(***************************************************************************)
\* Conserved, and what makes it inductive: a slot that is not yet in use was
\* not cancelled.
Kept ==
  /\ \A id \in cancelled : id < orders_num
  /\ Conserved

\* The units of an order are finitely many.
LEMMA UnitsFinite ==
  ASSUME TypeOK, NEW id
  PROVE  IsFiniteSet(Units(id)) /\ Traded(id) \in Nat
<1>1. DOMAIN trades = 1..Len(trades) /\ Len(trades) \in Nat /\ MaxSize \in Nat
  BY LenProperties, SizesAssumption DEF TypeOK
<1>2. IsFiniteSet(DOMAIN trades) /\ IsFiniteSet(1..MaxSize)
  BY <1>1, FS_Interval
<1>3. IsFiniteSet((DOMAIN trades) \X (1..MaxSize))
  BY <1>2, FS_Product
<1>4. Units(id) \in SUBSET ((DOMAIN trades) \X (1..MaxSize))
  BY DEF Units
<1>5. IsFiniteSet(Units(id))
  BY <1>3, <1>4, FS_Subset
<1> QED BY <1>5, FS_CardinalityType DEF Traded

\* An order that is in no trade has traded nothing.
LEMMA NothingTraded ==
  ASSUME NEW id, \A i \in DOMAIN trades : id \notin {trades[i].buyer, trades[i].seller}
  PROVE  Traded(id) = 0
<1>1. Units(id) = {}
  BY DEF Units
<1> QED BY <1>1, FS_EmptySet DEF Traded

\* A trade adds its size to what its parties traded.
LEMMA TradeAdds ==
  ASSUME TypeOK, NEW t \in Trade, trades' = Append(trades, t), NEW id
  PROVE  Traded(id)' = IF id \in {t.buyer, t.seller} THEN Traded(id) + t.size
                       ELSE Traded(id)
<1> DEFINE n == Len(trades) + 1
<1>1. /\ DOMAIN trades = 1..Len(trades) /\ Len(trades) \in Nat
      /\ t.size \in 1..MaxSize /\ MaxSize \in Nat
  BY LenProperties, SizesAssumption DEF TypeOK, Trade
<1>2. /\ DOMAIN trades' = 1..n /\ trades'[n] = t
      /\ \A i \in 1..Len(trades) : trades'[i] = trades[i]
  BY <1>1, AppendProperties, LenProperties DEF TypeOK
<1>3. CASE id \notin {t.buyer, t.seller}
  <2>1. Units(id)' = Units(id)
    <3>1. \A u : u \in Units(id)' <=> u \in Units(id)
      <4> TAKE u
      <4>1. CASE u[1] = n
        BY <1>1, <1>2, <1>3, <4>1 DEF Units
      <4>2. CASE u[1] # n
        BY <1>1, <1>2, <4>2 DEF Units
      <4> QED BY <4>1, <4>2
    <3> QED BY <3>1
  <2> QED BY <1>3, <2>1 DEF Traded
<1>4. CASE id \in {t.buyer, t.seller}
  <2> DEFINE new == {n} \X (1..t.size)
  <2>1. Units(id)' = Units(id) \cup new
    <3>1. \A u : u \in Units(id)' <=> u \in Units(id) \cup new
      <4> TAKE u
      <4>1. CASE u[1] = n
        BY <1>1, <1>2, <1>4, <4>1 DEF Units
      <4>2. CASE u[1] # n
        BY <1>1, <1>2, <4>2 DEF Units
      <4> QED BY <4>1, <4>2
    <3> QED BY <3>1
  <2>2. Units(id) \cap new = {}
    BY <1>1 DEF Units
  <2>3. IsFiniteSet(new) /\ Cardinality(new) = t.size
    <3>1. IsFiniteSet({n}) /\ Cardinality({n}) = 1
      BY FS_Singleton
    <3>2. IsFiniteSet(1..t.size) /\ Cardinality(1..t.size) = t.size
      <4>1. 1 \in Int /\ t.size \in Int /\ ~(1 > t.size) /\ t.size - 1 + 1 = t.size
        BY <1>1
      <4>2. /\ IsFiniteSet(1..t.size)
            /\ Cardinality(1..t.size) = IF 1 > t.size THEN 0 ELSE t.size - 1 + 1
        BY <4>1, FS_Interval
      <4> QED BY <4>1, <4>2
    <3>3. IsFiniteSet(new) /\ Cardinality(new) = 1 * t.size
      <4>1. PICK a : a = {n}
        OBVIOUS
      <4>2. PICK b : b = 1..t.size
        OBVIOUS
      <4>3. /\ IsFiniteSet(a \X b)
            /\ Cardinality(a \X b) = Cardinality(a) * Cardinality(b)
        BY <3>1, <3>2, <4>1, <4>2, FS_Product
      <4> QED BY <3>1, <3>2, <4>1, <4>2, <4>3
    <3> QED BY <1>1, <3>3
  <2>4. IsFiniteSet(Units(id)) /\ Cardinality(Units(id)) \in Nat
    BY UnitsFinite DEF Traded
  <2> HIDE DEF new
  <2>5. Cardinality(Units(id) \cup new)
          = Cardinality(Units(id)) + Cardinality(new) - Cardinality({})
    BY <2>2, <2>3, <2>4, FS_Union
  <2>6. Cardinality({}) = 0
    BY FS_EmptySet
  <2>7. Traded(id)' = Cardinality(Units(id) \cup new)
    BY <2>1 DEF Traded
  <2>8. Traded(id) = Cardinality(Units(id))
    BY DEF Traded
  <2>9. Traded(id)' = Traded(id) + t.size
    BY <1>1, <2>3, <2>4, <2>5, <2>6, <2>7, <2>8
  <2> QED BY <1>4, <2>9
<1> QED BY <1>3, <1>4

-----------------------------------------------------------------------------
\* A step that leaves orders, quantities and trades alone.
LEMMA SameKept ==
  ASSUME Kept, UNCHANGED <<orders, orders_num, asked, cancelled, trades>>
  PROVE  Kept'
BY DEF Kept, Conserved, Traded, Units

\* do_limit: the order comes with what is left of it, into a slot that no
\* trade knows.
LEMMA AcceptKept ==
  ASSUME IInv, Kept, NEW sd \in {Buy, Sell}, NEW lv \in AllLevels,
         NEW sz \in 0..MaxSize, AcceptLimit(sd, lv, sz)
  PROVE  Kept'
<1>1. /\ orders_num \in Slots /\ orders_num \in Nat /\ orders_num' = orders_num + 1
      /\ orders' = [orders EXCEPT ![orders_num] = [side |-> sd, level |-> lv, size |-> sz]]
      /\ asked' = [asked EXCEPT ![orders_num] = sz]
      /\ cancelled' = cancelled /\ trades' = trades
  <2>1. orders_num \in 0..MaxOrders /\ ~(orders_num >= MaxOrders)
    BY DEF AcceptLimit, Rejects, IInv, TypeOK
  <2> QED BY <2>1, SizesAssumption DEF AcceptLimit, Slots
<1>2. /\ orders \in [Slots -> Order] /\ asked \in [Slots -> 0..MaxSize]
  BY DEF IInv, TypeOK
<1>3. \A id : Traded(id)' = Traded(id)
  BY <1>1 DEF Traded, Units
<1>4. ASSUME NEW id \in 0..(orders_num - 1)
      PROVE  /\ id # orders_num /\ orders'[id] = orders[id] /\ asked'[id] = asked[id]
  BY <1>1, <1>2 DEF Slots
<1>5. \A id \in cancelled : id < orders_num
  BY DEF Kept
<1>6. Traded(orders_num) = 0
  <2>1. ASSUME NEW i \in DOMAIN trades
        PROVE  orders_num \notin {trades[i].buyer, trades[i].seller}
    <3>1. trades[i].buyer < orders_num /\ trades[i].seller < orders_num
      BY DEF IInv, TradesInLimits
    <3> QED BY <1>1, <3>1
  <2> QED BY <2>1, NothingTraded
<1>7. orders'[orders_num].size = sz /\ asked'[orders_num] = sz /\ orders_num \notin cancelled
  BY <1>1, <1>2, <1>5
<1>8. \A id \in cancelled' : id < orders_num'
  <2> TAKE id \in cancelled'
  <2>1. id \in Int /\ id < orders_num
    BY <1>1, <1>5, SizesAssumption DEF IInv, TypeOK, Slots
  <2> QED BY <1>1, <2>1
<1>9. ASSUME NEW id \in 0..(orders_num' - 1)
      PROVE  IF id \in cancelled'
             THEN orders'[id].size = 0 /\ Traded(id)' < asked'[id]
             ELSE asked'[id] = Traded(id)' + orders'[id].size
  <2>1. CASE id = orders_num
    BY <1>1, <1>3, <1>6, <1>7, <2>1
  <2>2. CASE id # orders_num
    <3>1. id \in 0..(orders_num - 1)
      BY <1>1, <2>2
    <3> QED BY <1>1, <1>3, <1>4, <3>1 DEF Kept, Conserved
  <2> QED BY <2>1, <2>2
<1> QED BY <1>8, <1>9 DEF Kept, Conserved

\* A trade moves the same quantity from what is left of both parties to what
\* they traded; neither was cancelled, because both have something left.
LEMMA FillKept ==
  ASSUME IInv, Kept, Fill
  PROVE  Kept'
<1> DEFINE m == Head(levels[level])
           t == taker
           q == Smaller(orders[m].size, orders[t].size)
           price == BestAgainst(orders[t].side)
<1>1. pc = "fill" /\ levels[level] # <<>>
  BY DEF Fill
<1>2. /\ price \in Prices /\ m \in Slots /\ t \in Slots
      /\ m # t /\ m < orders_num /\ t < orders_num
      /\ orders[m] \in Order /\ orders[t] \in Order
      /\ orders[m].size > 0 /\ orders[t].size > 0
  <2>1. /\ price \in Prices /\ m \in Slots /\ t \in Slots
        /\ m < t /\ t < orders_num
        /\ orders[m] \in Order /\ orders[t] \in Order
        /\ orders[m].size > 0 /\ orders[t].size > 0
    BY <1>1, Parties
  <2>2. m \in Int /\ t \in Int /\ orders_num \in Int
    BY <2>1, SizesAssumption DEF Slots, IInv, TypeOK
  <2> HIDE DEF m, t, price
  <2> QED BY <2>1, <2>2
<1>3. q \in 1..MaxSize
  <2>1. orders[m].size \in 1..MaxSize /\ orders[t].size \in 1..MaxSize
    BY <1>2, SizesAssumption DEF Order
  <2> HIDE DEF m, t
  <2> QED BY <2>1 DEF Smaller
<1>4. /\ trades' = Append(trades, TradeOf(t, m, price, q))
      /\ orders' = [id \in Slots |->
                      IF id \in {m, t}
                      THEN [orders[id] EXCEPT !.size = @ - q] ELSE orders[id]]
      /\ UNCHANGED <<orders_num, asked, cancelled>>
  BY DEF Fill
<1> HIDE DEF m, t, q, price
<1> DEFINE deal == TradeOf(t, m, price, q)
<1>5. deal \in Trade /\ {deal.buyer, deal.seller} = {m, t} /\ deal.size = q
  BY <1>2, <1>3 DEF TradeOf, Trade
<1> HIDE DEF deal
<1>6. /\ TypeOK /\ trades' = Append(trades, deal)
  BY <1>4 DEF IInv, deal
<1>7. \A id : Traded(id)' = IF id \in {m, t} THEN Traded(id) + q ELSE Traded(id)
  BY <1>5, <1>6, TradeAdds
<1>8. ASSUME NEW id \in 0..(orders_num' - 1)
      PROVE  IF id \in cancelled'
             THEN orders'[id].size = 0 /\ Traded(id)' < asked'[id]
             ELSE asked'[id] = Traded(id)' + orders'[id].size
  <2>1. id \in 0..(orders_num - 1) /\ id \in Slots /\ orders[id] \in Order
        /\ Traded(id) \in Nat
    <3>1. id \in 0..(orders_num - 1) /\ orders_num \in 0..MaxOrders
      BY <1>4 DEF IInv, TypeOK
    <3>2. id \in Slots
      BY <3>1, SizesAssumption DEF Slots
    <3> QED BY <1>6, <3>1, <3>2, UnitsFinite DEF TypeOK
  <2>2. IF id \in cancelled
        THEN orders[id].size = 0 /\ Traded(id) < asked[id]
        ELSE asked[id] = Traded(id) + orders[id].size
    BY <2>1 DEF Kept, Conserved
  <2>3. CASE id \in {m, t}
    <3>1. orders[id].size > 0 /\ orders[id].size \in Nat /\ q \in Nat
      BY <1>2, <1>3, <2>1, <2>3, SizesAssumption DEF Order
    <3>2. id \notin cancelled /\ asked[id] = Traded(id) + orders[id].size
      BY <2>2, <3>1
    <3>3. orders'[id].size = orders[id].size - q
      BY <1>4, <2>1, <2>3 DEF Order
    <3>4. Traded(id)' = Traded(id) + q
      BY <1>7, <2>3
    <3>5. asked'[id] = Traded(id)' + orders'[id].size
      BY <1>4, <2>1, <3>1, <3>2, <3>3, <3>4
    <3> QED BY <1>4, <3>2, <3>5
  <2>4. CASE id \notin {m, t}
    <3>1. orders'[id] = orders[id] /\ Traded(id)' = Traded(id)
      BY <1>4, <1>7, <2>1, <2>4
    <3> QED BY <1>4, <2>2, <3>1
  <2> QED BY <2>3, <2>4
<1>9. \A id \in cancelled' : id < orders_num'
  BY <1>4 DEF Kept
<1> QED BY <1>8, <1>9 DEF Kept, Conserved

\* do_cancel drops what is left of an order that has something left: it traded
\* less than it came with.
LEMMA CancelKept ==
  ASSUME IInv, Kept, NEW x \in 0..MaxOrders, Cancel(x)
  PROVE  Kept'
<1>1. /\ x < orders_num /\ orders[x].size # 0
      /\ orders' = [orders EXCEPT ![x].size = 0]
      /\ cancelled' = cancelled \cup {x}
      /\ UNCHANGED <<orders_num, asked, trades>>
  BY DEF Cancel, CancelRejects
<1>2. /\ TypeOK /\ orders \in [Slots -> Order] /\ orders_num \in 0..MaxOrders
      /\ x \in Slots /\ x \in 0..(orders_num - 1)
  <2>1. TypeOK /\ orders \in [Slots -> Order] /\ orders_num \in 0..MaxOrders
    BY DEF IInv, TypeOK
  <2> QED BY <1>1, <2>1, SizesAssumption DEF Slots
<1>3. \A id : Traded(id)' = Traded(id)
  BY <1>1 DEF Traded, Units
<1>4. Traded(x) < asked[x]
  <2>1. x \notin cancelled /\ asked[x] = Traded(x) + orders[x].size
    BY <1>1, <1>2 DEF Kept, Conserved
  <2>2. orders[x].size \in Nat /\ Traded(x) \in Nat
    BY <1>2, UnitsFinite, SizesAssumption DEF Order
  <2> QED BY <1>1, <2>1, <2>2
<1>5. \A id \in cancelled' : id < orders_num'
  BY <1>1 DEF Kept
<1>6. ASSUME NEW id \in 0..(orders_num' - 1)
      PROVE  IF id \in cancelled'
             THEN orders'[id].size = 0 /\ Traded(id)' < asked'[id]
             ELSE asked'[id] = Traded(id)' + orders'[id].size
  <2>1. CASE id = x
    <3>1. orders'[x].size = 0
      BY <1>1, <1>2 DEF Order
    <3> QED BY <1>1, <1>3, <1>4, <2>1, <3>1
  <2>2. CASE id # x
    <3>1. orders'[id] = orders[id]
      BY <1>1, <2>2
    <3> QED BY <1>1, <1>3, <2>2, <3>1 DEF Kept, Conserved
  <2> QED BY <2>1, <2>2
<1> QED BY <1>5, <1>6 DEF Kept, Conserved

\* Every step of the engine keeps the account.
LEMMA StepKept ==
  ASSUME IInv, Kept, [Next]_vars
  PROVE  Kept'
<1>1. ASSUME NEW sd \in {Buy, Sell}, NEW lv \in AllLevels, NEW sz \in 0..MaxSize,
             RejectLimit(lv, sz) \/ AcceptLimit(sd, lv, sz)
      PROVE  Kept'
  <2>1. CASE RejectLimit(lv, sz)
    BY <2>1, SameKept DEF RejectLimit, book, history
  <2> QED BY <1>1, <2>1, AcceptKept
<1>2. CASE EnterLevel
  BY <1>2, SameKept DEF EnterLevel, book, history
<1>3. CASE Fill
  BY <1>3, FillKept
<1>4. CASE LeaveLevel
  BY <1>4, SameKept DEF LeaveLevel, history
<1>5. CASE Rest
  BY <1>5, SameKept DEF Rest, history
<1>6. ASSUME NEW id \in 0..MaxOrders, RejectCancel(id) \/ Cancel(id)
      PROVE  Kept'
  <2>1. CASE RejectCancel(id)
    BY <2>1, SameKept DEF RejectCancel, book, history
  <2> QED BY <1>6, <2>1, CancelKept
<1>7. CASE UNCHANGED vars
  BY <1>7, SameKept DEF vars
<1> QED BY <1>1, <1>2, <1>3, <1>4, <1>5, <1>6, <1>7 DEF Next, Match

\* What an order came with is what it traded plus what is left, unless
\* do_cancel dropped the rest: match() fills nothing twice and loses nothing.
THEOREM NothingLost == Spec => []Conserved
<1>1. Init => Kept
  BY DEF Init, Kept, Conserved
<1>2. IInv /\ Kept /\ [Next]_vars => Kept'
  BY StepKept
<1>3. Kept => Conserved
  BY DEF Kept
<1> QED BY <1>1, <1>2, <1>3, InvariantHolds, PTL DEF Spec

-----------------------------------------------------------------------------
(***************************************************************************)
(* The matching engine implements the order book of PriceTimeBook.  The    *)
(* inductive invariant gives the abstract state its values; then each      *)
(* action of the engine is one of the book's (do_limit: Arrive, a turn of  *)
(* the inner loop: TradeWithFirst, the end of match(): Settle, do_cancel:  *)
(* Withdraw) or leaves the book alone.                                     *)
(***************************************************************************)
\* The orders that rest, by what is left of them.
Open == {id \in Slots : orders[id].size > 0} \ {taker}

RestingRecords == {AsRecord(id) : id \in Open}
IncomingRecord ==
  IF taker = NoTaker THEN [id |-> -1, side |-> Buy, level |-> 0, size |-> 0]
  ELSE AsRecord(taker)

\* The orders in the lists are those that are open, so that the refinement
\* mapping may be written with either.
MappedByOpen == {AsRecord(id) : id \in Resting} = RestingRecords

LEMMA Mapped == IInv => MappedByOpen
BY InvariantListsExact DEF ListsExact, Open, MappedByOpen, RestingRecords

LEMMA MappedNext == IInv' => MappedByOpen'
BY Mapped, PTL

\* What the invariant says of an open order: where it is in its list.
LEMMA OpenPlaced ==
  ASSUME IInv, NEW id \in Open
  PROVE  /\ id \in Slots /\ id < orders_num /\ id # taker
         /\ orders[id] \in Order /\ orders[id].size > 0
         /\ \E i \in Places(orders[id].level) : levels[orders[id].level][i] = id
         /\ IF orders[id].side = Buy THEN orders[id].level <= best_bid
            ELSE orders[id].level >= best_ask
<1>1. id \in Slots /\ orders[id].size > 0 /\ id # taker /\ orders[id] \in Order
  BY DEF Open, IInv, TypeOK
<1>2. orders[id].level \in AllLevels
  BY <1>1 DEF Order
<1>3. PICK i \in Places(orders[id].level) : levels[orders[id].level][i] = id
  BY <1>1 DEF IInv, PlacedExactly
<1> QED BY <1>1, <1>2, <1>3 DEF IInv, PlacedExactly, PlacedInBounds

-----------------------------------------------------------------------------
\* The empty book.
LEMMA InitMaps == Init => Abstract!Init
<1> SUFFICES ASSUME Init PROVE Abstract!Init
  OBVIOUS
<1>1. RestingRecords = {}
  BY SizesAssumption DEF Init, RestingRecords, Open, EmptySlot
<1>2. {AsRecord(id) : id \in Resting} = {}
  BY <1>1, Mapped, InitEstablishes DEF MappedByOpen
<1> QED BY <1>2 DEF Init, Abstract!Init, Abstract!Nobody, Buy, Abstract!Buy

\* A step that leaves the mapped state alone.
LEMMA Stutters ==
  ASSUME IInv, UNCHANGED <<orders, orders_num, levels, taker, trades>>
  PROVE  UNCHANGED Abstract!bookVars
BY DEF Abstract!bookVars, Resting, Listed, AsRecord

\* do_limit up to match(): the order arrives.
LEMMA AcceptMaps ==
  ASSUME IInv, IInv', NEW sd \in {Buy, Sell}, NEW lv \in AllLevels,
         NEW sz \in 0..MaxSize, AcceptLimit(sd, lv, sz)
  PROVE  lv \in Prices /\ sz \in 1..MaxSize /\ Abstract!Arrive(sd, lv, sz)
<1> USE SizesAssumption DEF Slots, Prices, NoTaker, Buy, Sell
<1>1. /\ orders_num \in Slots /\ lv \in Prices /\ sz \in 1..MaxSize
      /\ taker = NoTaker /\ taker' = orders_num /\ orders_num' = orders_num + 1
      /\ trades' = trades
  BY DEF AcceptLimit, Rejects, AllLevels, IInv, TypeOK, SweepInv
<1>2. orders' = [orders EXCEPT ![orders_num] = [side |-> sd, level |-> lv, size |-> sz]]
  BY DEF AcceptLimit
<1>3. orders \in [Slots -> Order]
  BY DEF IInv, TypeOK
<1>4. \A id \in Open : id \in Slots /\ id # orders_num /\ id # taker /\ orders[id].size > 0
  <2> TAKE id \in Open
  <2> QED BY OpenPlaced, <1>1
<1>5. \A id \in Slots \ {orders_num} : orders'[id] = orders[id]
  BY <1>1, <1>2, <1>3
<1> HIDE DEF Slots
<1>6. Open' = Open
  <2>1. \A id \in Slots \ {orders_num} : id # taker
    BY <1>1, <1>3 DEF Slots
  <2> QED BY <1>1, <1>4, <1>5, <2>1 DEF Open
<1>7. RestingRecords' = RestingRecords
  BY <1>4, <1>5, <1>6 DEF RestingRecords, AsRecord
<1>8. {AsRecord(id) : id \in Resting}' = {AsRecord(id) : id \in Resting}
  BY <1>7, Mapped, MappedNext DEF MappedByOpen
<1>9. IncomingRecord' = [id |-> orders_num, side |-> sd, level |-> lv, size |-> sz]
  <2>1. orders'[orders_num] = [side |-> sd, level |-> lv, size |-> sz]
    BY <1>1, <1>2, <1>3
  <2>2. taker' # NoTaker
    BY <1>1 DEF Slots
  <2> QED BY <1>1, <2>1, <2>2 DEF IncomingRecord, AsRecord
<1>10. IncomingRecord = Abstract!Nobody
  BY <1>1 DEF IncomingRecord, Abstract!Nobody, Abstract!Buy
<1>11. orders_num < MaxOrders
  BY <1>1 DEF Slots
<1> QED BY <1>1, <1>8, <1>9, <1>10, <1>11 DEF Abstract!Arrive, IncomingRecord

\* The end of match(): the rest of the order settles, as it takes none of
\* the prices that are offered.
LEMMA RestMaps ==
  ASSUME IInv, IInv', Rest
  PROVE  Abstract!Settle
<1> USE SizesAssumption DEF NoTaker, Buy, Sell
<1>1. /\ pc = "sweep" /\ ~Crosses(orders[taker]) /\ taker' = NoTaker
      /\ UNCHANGED <<orders, orders_num, trades>>
  BY DEF Rest, history
<1>2. /\ taker \in Slots /\ taker # NoTaker
      /\ orders[taker] \in Order /\ orders[taker].size > 0
  BY <1>1 DEF IInv, TypeOK, SweepInv, Slots
<1>3. \A id \in Slots : id # NoTaker
  BY DEF Slots
<1> HIDE DEF NoTaker
<1>4. Open' = Open \cup {taker}
  BY <1>1, <1>2, <1>3 DEF Open
<1>5. RestingRecords' = RestingRecords \cup {AsRecord(taker)}
  BY <1>1, <1>4 DEF RestingRecords, AsRecord
<1>6. IncomingRecord = AsRecord(taker) /\ IncomingRecord' = Abstract!Nobody
  BY <1>1, <1>2 DEF IncomingRecord, Abstract!Nobody, Abstract!Buy, NoTaker
<1>7. AsRecord(taker) # Abstract!Nobody
  BY <1>2 DEF AsRecord, Abstract!Nobody, Slots
<1>8. ASSUME NEW id \in Open PROVE ~Abstract!Takes(AsRecord(taker), AsRecord(id))
  <2>1. /\ orders[id] \in Order
        /\ IF orders[id].side = Buy THEN orders[id].level <= best_bid
           ELSE orders[id].level >= best_ask
    BY <1>8, OpenPlaced
  <2>2. /\ best_bid \in Nat /\ best_ask \in Nat
        /\ orders[id].level \in Nat /\ orders[taker].level \in Nat
    <3>1. best_bid \in Nat /\ best_ask \in Nat
      BY DEF IInv, TypeOK
    <3>2. orders[id].level \in AllLevels /\ orders[taker].level \in AllLevels
      BY <2>1, <1>2 DEF Order
    <3> QED BY <3>1, <3>2 DEF AllLevels
  <2>3. orders[id].side \in {Buy, Sell} /\ orders[taker].side \in {Buy, Sell}
    BY <2>1, <1>2 DEF Order
  <2> QED BY <1>1, <2>1, <2>2, <2>3 DEF Crosses, Abstract!Takes, AsRecord, Abstract!Buy
<1>9. \A r \in RestingRecords : ~Abstract!Takes(AsRecord(taker), r)
  BY <1>8 DEF RestingRecords
<1> QED BY <1>1, <1>5, <1>6, <1>7, <1>9, Mapped, MappedNext
        DEF MappedByOpen, Abstract!Settle, IncomingRecord

\* do_cancel: the order is withdrawn.
LEMMA CancelMaps ==
  ASSUME IInv, IInv', NEW id \in 0..MaxOrders, Cancel(id)
  PROVE  AsRecord(id) \in RestingRecords /\ Abstract!Withdraw(AsRecord(id))
<1> USE SizesAssumption
<1>1. /\ id < orders_num /\ orders[id].size # 0 /\ pc = "idle"
      /\ orders' = [orders EXCEPT ![id].size = 0]
      /\ UNCHANGED <<orders_num, taker, trades>>
  BY DEF Cancel, CancelRejects, loop
<1>2. id \in Slots /\ orders \in [Slots -> Order] /\ orders[id].size > 0
  <2>1. orders \in [Slots -> Order] /\ orders_num \in 0..MaxOrders
    BY DEF IInv, TypeOK
  <2>2. id \in Slots
    BY <1>1, <2>1 DEF Slots
  <2>3. orders[id].size \in 0..MaxSize
    BY <2>1, <2>2 DEF Order
  <2> QED BY <1>1, <2>1, <2>2, <2>3
<1>3. taker = NoTaker /\ taker' = NoTaker
  BY <1>1 DEF IInv, SweepInv
<1>4. \A x \in Slots : x # NoTaker
  BY DEF Slots, NoTaker
<1>5. orders'[id].size = 0 /\ \A x \in Slots \ {id} : orders'[x] = orders[x]
  BY <1>1, <1>2 DEF Order
<1>6. id \in Open /\ Open' = Open \ {id}
  <2>1. id \in Open
    BY <1>2, <1>3, <1>4 DEF Open
  <2>2. \A x \in Slots : x \in Open' <=> x \in Open /\ x # id
    BY <1>3, <1>4, <1>5 DEF Open
  <2> QED BY <2>1, <2>2 DEF Open
<1>7. \A x \in Open \ {id} : AsRecord(x)' = AsRecord(x) /\ AsRecord(x) # AsRecord(id)
  BY <1>5 DEF Open, AsRecord
<1>8. /\ AsRecord(id) \in RestingRecords
      /\ RestingRecords' = RestingRecords \ {AsRecord(id)}
  BY <1>6, <1>7 DEF RestingRecords
<1>9. IncomingRecord = Abstract!Nobody /\ IncomingRecord' = Abstract!Nobody
  BY <1>3 DEF IncomingRecord, Abstract!Nobody, Abstract!Buy, Buy
<1> QED BY <1>1, <1>8, <1>9, Mapped, MappedNext
        DEF MappedByOpen, Abstract!Withdraw, IncomingRecord

-----------------------------------------------------------------------------
\* The head of the list that match() is at comes first among the orders that
\* the taker may trade with: the bound is the best price, and of one price
\* the list has the older before the newer.
LEMMA HeadIsFirst ==
  ASSUME IInv, pc = "fill", levels[level] # <<>>
  PROVE  LET m == Head(levels[level]) IN
         /\ m \in Open
         /\ Abstract!Takes(AsRecord(taker), AsRecord(m))
         /\ \A id \in Open : id # m /\ Abstract!Takes(AsRecord(taker), AsRecord(id))
              => Abstract!Before(AsRecord(m), AsRecord(id))
<1> USE SizesAssumption DEF Buy, Sell, Abstract!Buy, Abstract!Sell
<1> DEFINE m == Head(levels[level])
           t == taker
<1>1. /\ level \in AllLevels /\ level = BestAgainst(orders[t].side)
      /\ Len(levels[level]) \in Nat \ {0} /\ m = levels[level][1]
      /\ m \in Slots /\ t \in Slots /\ m < t
      /\ orders[m] \in Order /\ orders[t] \in Order
      /\ orders[m].size > 0 /\ orders[m].level = level
      /\ IF orders[t].side = Buy
         THEN orders[m].side = Sell /\ level <= orders[t].level
         ELSE orders[m].side = Buy /\ level >= orders[t].level
  BY Parties
<1>2. m \in Open
  BY <1>1 DEF Open, Slots
<1>3. Abstract!Takes(AsRecord(t), AsRecord(m))
  BY <1>1 DEF Abstract!Takes, AsRecord, Order
<1>4. ASSUME NEW id \in Open, id # m, Abstract!Takes(AsRecord(t), AsRecord(id))
      PROVE  Abstract!Before(AsRecord(m), AsRecord(id))
  <2>1. /\ id \in Slots /\ orders[id] \in Order
        /\ \E i \in Places(orders[id].level) : levels[orders[id].level][i] = id
        /\ IF orders[id].side = Buy THEN orders[id].level <= best_bid
           ELSE orders[id].level >= best_ask
    BY <1>4, OpenPlaced
  <2>2. /\ orders[id].side # orders[t].side
        /\ orders[id].side \in {Buy, Sell} /\ orders[t].side \in {Buy, Sell}
    BY <1>1, <1>4, <2>1 DEF Abstract!Takes, AsRecord, Order
  <2>3. /\ best_bid \in Nat /\ best_ask \in Nat /\ level \in Nat
        /\ orders[id].level \in Nat
    <3>1. TypeOK
      BY DEF IInv
    <3>2. best_bid \in Nat /\ best_ask \in Nat
      BY <3>1, SizesAssumption DEF TypeOK
    <3> QED BY <1>1, <2>1, <3>2 DEF Order, AllLevels
  <2>4. CASE orders[id].level = level
    <3>1. PICK i \in Places(level) : levels[level][i] = id
      BY <2>1, <2>4
    <3>2. 1 \in 1..(i - 1)
      BY <3>1, <1>1, <1>4 DEF Places
    <3>3. m < id
      BY <3>1, <3>2, <1>1 DEF IInv, PlacedExactly
    <3> QED BY <2>4, <3>3, <1>1 DEF Abstract!Before, AsRecord
  <2>5. CASE orders[id].level # level
    BY <2>1, <2>2, <2>3, <2>5, <1>1 DEF Abstract!Before, AsRecord, BestAgainst
  <2> QED BY <2>4, <2>5
<1> QED BY <1>2, <1>3, <1>4

\* One turn of the inner loop: a trade with the order that comes first.
LEMMA FillMaps ==
  ASSUME IInv, IInv', Fill
  PROVE  LET r == AsRecord(Head(levels[level])) IN
         r \in RestingRecords /\ Abstract!TradeWithFirst(r)
<1> USE SizesAssumption DEF Buy, Sell, Abstract!Buy, Abstract!Sell
<1>a. PICK m : m = Head(levels[level])
  OBVIOUS
<1>b. PICK t : t = taker
  OBVIOUS
<1>c. PICK q : q = Smaller(orders[m].size, orders[t].size)
  OBVIOUS
<1>1. /\ pc = "fill" /\ levels[level] # <<>>
      /\ trades' = Append(trades, TradeOf(t, m, BestAgainst(orders[t].side), q))
      /\ orders' = [id \in Slots |->
                      IF id \in {m, t}
                      THEN [orders[id] EXCEPT !.size = @ - q] ELSE orders[id]]
      /\ IF orders[t].size = q THEN taker' = NoTaker ELSE taker' = t
      /\ orders_num' = orders_num
  BY <1>a, <1>b, <1>c DEF Fill
<1>2. /\ BestAgainst(orders[t].side) = level
      /\ m \in Slots /\ t \in Slots /\ m # t
      /\ orders[m] \in Order /\ orders[t] \in Order
      /\ orders[m].size > 0 /\ orders[t].size > 0
      /\ orders[m].level = level
  BY <1>1, <1>a, <1>b, Parties DEF Slots
<1>3. /\ m \in Open
      /\ Abstract!Takes(AsRecord(t), AsRecord(m))
      /\ \A id \in Open : id # m /\ Abstract!Takes(AsRecord(t), AsRecord(id))
           => Abstract!Before(AsRecord(m), AsRecord(id))
  BY <1>1, <1>a, <1>b, HeadIsFirst
<1>4. /\ orders[m].size \in Nat /\ orders[t].size \in Nat /\ q \in Nat \ {0}
      /\ q <= orders[m].size /\ q <= orders[t].size
  BY <1>2, <1>c DEF Order, Smaller
<1>5. q = IF orders[m].size < orders[t].size THEN orders[m].size ELSE orders[t].size
  BY <1>c DEF Smaller
<1>6. \A id \in Slots : id # NoTaker
  BY DEF Slots, NoTaker
<1>7. /\ orders'[m] = [orders[m] EXCEPT !.size = @ - q]
      /\ orders'[t] = [orders[t] EXCEPT !.size = @ - q]
      /\ \A id \in Slots \ {m, t} : orders'[id] = orders[id]
  BY <1>1, <1>2
<1>8. orders'[m].size = orders[m].size - q /\ orders'[t].size = orders[t].size - q
  BY <1>2, <1>7 DEF Order
<1>9. Open' = IF orders[m].size = q THEN Open \ {m} ELSE Open
  <2>1. ASSUME NEW id \in Slots
        PROVE  id \in Open' <=> IF orders[m].size = q THEN id \in Open \ {m} ELSE id \in Open
    <3>1. CASE id = m
      BY <3>1, <1>1, <1>2, <1>3, <1>4, <1>6, <1>8, <1>b DEF Open
    <3>2. CASE id = t
      BY <3>2, <1>1, <1>2, <1>4, <1>6, <1>8, <1>b DEF Open
    <3>3. CASE id # m /\ id # t
      BY <3>3, <1>1, <1>6, <1>7, <1>b DEF Open
    <3> QED BY <3>1, <3>2, <3>3
  <2>2. Open \subseteq Slots /\ Open' \subseteq Slots
    BY DEF Open
  <2> QED BY <2>1, <2>2
<1>10. /\ orders'[m].side = orders[m].side /\ orders'[m].level = orders[m].level
       /\ orders'[t].side = orders[t].side /\ orders'[t].level = orders[t].level
  BY <1>2, <1>7 DEF Order
<1>11. AsRecord(m)' = Abstract!Reduced(AsRecord(m), q)
  BY <1>8, <1>10 DEF AsRecord, Abstract!Reduced
<1>12. ASSUME NEW id \in Open, id # m
       PROVE  AsRecord(id)' = AsRecord(id) /\ AsRecord(id) # AsRecord(m)
  BY <1>12, <1>7, <1>b DEF Open, AsRecord
<1>13. /\ AsRecord(m) \in RestingRecords
       /\ RestingRecords' = (RestingRecords \ {AsRecord(m)}) \cup
            (IF orders[m].size = q THEN {} ELSE {Abstract!Reduced(AsRecord(m), q)})
  <2>1. CASE orders[m].size = q
    BY <2>1, <1>3, <1>9, <1>12 DEF RestingRecords
  <2>2. CASE orders[m].size # q
    <3>1. RestingRecords' = {AsRecord(id)' : id \in Open}
      BY <2>2, <1>9 DEF RestingRecords
    <3> QED BY <2>2, <3>1, <1>3, <1>11, <1>12 DEF RestingRecords
  <2> QED BY <2>1, <2>2
<1>14. /\ IncomingRecord = AsRecord(t) /\ AsRecord(t) # Abstract!Nobody
       /\ IncomingRecord' = IF orders[t].size = q THEN Abstract!Nobody
                            ELSE Abstract!Reduced(AsRecord(t), q)
  <2>1. t # NoTaker /\ NoTaker = -1
    BY <1>2, <1>6 DEF NoTaker
  <2>2. IncomingRecord = AsRecord(t) /\ AsRecord(t) # Abstract!Nobody
    BY <2>1, <1>b DEF IncomingRecord, AsRecord, Abstract!Nobody
  <2>3. CASE orders[t].size = q
    BY <2>2, <2>3, <1>1 DEF IncomingRecord, Abstract!Nobody
  <2>4. CASE orders[t].size # q
    <3>1. taker' = t /\ IncomingRecord' = [id |-> t, side |-> orders'[t].side,
                         level |-> orders'[t].level, size |-> orders'[t].size]
      BY <2>1, <2>4, <1>1 DEF IncomingRecord, AsRecord
    <3> QED BY <2>2, <2>4, <3>1, <1>8, <1>10 DEF AsRecord, Abstract!Reduced
  <2> QED BY <2>3, <2>4, <2>2
<1>15. TradeOf(t, m, level, q) = Abstract!Deal(AsRecord(t), AsRecord(m), q)
  BY <1>2 DEF TradeOf, Abstract!Deal, AsRecord
<1>16. /\ AsRecord(m).size = orders[m].size /\ AsRecord(t).size = orders[t].size
  BY DEF AsRecord
<1>17. \A s \in RestingRecords : Abstract!Takes(AsRecord(t), s) /\ s # AsRecord(m)
         => Abstract!Before(AsRecord(m), s)
  BY <1>3, <1>b DEF RestingRecords
<1>18. Abstract!IsFirst(AsRecord(m))
  BY <1>3, <1>13, <1>14, <1>17, <1>b, Mapped
     DEF Abstract!IsFirst, MappedByOpen, IncomingRecord
<1>19. trades' = Append(trades, Abstract!Deal(AsRecord(t), AsRecord(m), q))
  BY <1>1, <1>2, <1>15
<1>20. q = IF AsRecord(m).size < AsRecord(t).size THEN AsRecord(m).size ELSE AsRecord(t).size
  BY <1>5, <1>16
<1>21. /\ RestingRecords = {AsRecord(id) : id \in Resting}
       /\ RestingRecords' = {AsRecord(id) : id \in Resting}'
  BY Mapped, MappedNext DEF MappedByOpen
<1>22. Abstract!TradeWithFirst(AsRecord(m))
  <2> DEFINE r == AsRecord(m)
  <2>1. RestingRecords' = (RestingRecords \ {r}) \cup
                            (IF r.size = q THEN {} ELSE {Abstract!Reduced(r, q)})
    BY <1>13, <1>16
  <2>2. /\ IncomingRecord # Abstract!Nobody /\ IncomingRecord.size = AsRecord(t).size
        /\ IncomingRecord' = IF IncomingRecord.size = q THEN Abstract!Nobody
                             ELSE Abstract!Reduced(IncomingRecord, q)
    BY <1>14, <1>16
  <2>3. trades' = Append(trades, Abstract!Deal(IncomingRecord, r, q))
    BY <1>14, <1>19
  <2> DEFINE u == IF r.size < IncomingRecord.size THEN r.size ELSE IncomingRecord.size
  <2>4. q = u
    BY <1>20, <2>2
  <2>5. Abstract!IsFirst(r)
    BY <1>18
  <2> HIDE DEF r
  <2>6. /\ trades' = Append(trades, Abstract!Deal(IncomingRecord, r, u))
        /\ RestingRecords' = (RestingRecords \ {r}) \cup
             (IF r.size = u THEN {} ELSE {Abstract!Reduced(r, u)})
        /\ IncomingRecord' = IF IncomingRecord.size = u THEN Abstract!Nobody
                             ELSE Abstract!Reduced(IncomingRecord, u)
    BY <2>1, <2>2, <2>3, <2>4
  <2>7. Abstract!TradeWithFirst(r)
    BY <1>1, <1>21, <2>2, <2>5, <2>6 DEF Abstract!TradeWithFirst, IncomingRecord
  <2> QED BY <2>7 DEF r
<1> QED BY <1>a, <1>13, <1>22

-----------------------------------------------------------------------------
\* Every step of the engine is a step of the abstract book or leaves it alone.
LEMMA StepMaps ==
  IInv /\ IInv' /\ [Next]_vars => [Abstract!Next]_(Abstract!bookVars)
<1> SUFFICES ASSUME IInv, IInv', [Next]_vars
             PROVE  [Abstract!Next]_(Abstract!bookVars)
  OBVIOUS
<1> DEFINE restingNow == {AsRecord(id) : id \in Resting}
<1>1. restingNow = RestingRecords
  BY Mapped DEF MappedByOpen
<1>2. ASSUME NEW sd \in {Buy, Sell}, NEW lv \in AllLevels, NEW sz \in 0..MaxSize,
             RejectLimit(lv, sz) \/ AcceptLimit(sd, lv, sz)
      PROVE  [Abstract!Next]_(Abstract!bookVars)
  <2>1. CASE RejectLimit(lv, sz)
    BY <2>1, Stutters DEF RejectLimit, book, loop, history
  <2>2. CASE AcceptLimit(sd, lv, sz)
    BY <2>2, AcceptMaps
       DEF Abstract!Next, Abstract!Buy, Abstract!Sell, Buy, Sell, Prices
  <2> QED BY <1>2, <2>1, <2>2
<1>3. CASE EnterLevel \/ LeaveLevel
  BY <1>3, Stutters DEF EnterLevel, LeaveLevel, book, history
<1>4. CASE Fill
  BY <1>1, <1>4, FillMaps DEF Abstract!Next
<1>5. CASE Rest
  BY <1>5, RestMaps DEF Abstract!Next
<1>6. ASSUME NEW id \in 0..MaxOrders, RejectCancel(id) \/ Cancel(id)
      PROVE  [Abstract!Next]_(Abstract!bookVars)
  <2>1. CASE RejectCancel(id)
    BY <2>1, Stutters DEF RejectCancel, book, loop, history
  <2>2. CASE Cancel(id)
    BY <1>1, <2>2, CancelMaps DEF Abstract!Next
  <2> QED BY <1>6, <2>1, <2>2
<1>7. CASE UNCHANGED vars
  BY <1>7, Stutters DEF vars
<1> QED BY <1>2, <1>3, <1>4, <1>5, <1>6, <1>7 DEF Next, Match

(***************************************************************************)
(* The lists, bounds and loops of the engine implement price-time          *)
(* priority: an order trades with the best-priced, then oldest, order of   *)
(* the other side, and rests only when it takes none of their prices.      *)
(***************************************************************************)
THEOREM PriceTimePriority == Spec => ImplementsPriceTime
BY InitMaps, StepMaps, InvariantHolds, PTL DEF Spec, ImplementsPriceTime, Abstract!Spec
=============================================================================
