--------------------------- MODULE MatchingEngine ---------------------------
(***************************************************************************)
(* The matching engine of the exchange simulator, tools/sim/engine.c: one  *)
(* order book with a FIFO list of resting orders per price level and two   *)
(* bounds, best_ask and best_bid, on where the resting orders may be.      *)
(*                                                                         *)
(* do_limit and do_cancel run to completion before the simulator looks at  *)
(* another message, but match() is a loop nest over levels and over the    *)
(* orders of a level; it is modelled one iteration at a time, so that the  *)
(* book can be judged in the middle of a match as well as after it.        *)
(***************************************************************************)
EXTENDS Integers, SequencesExt

CONSTANTS
  MaxLevel,   \* MAX_LEVEL, the highest price level (engine.h:2)
  MaxOrders,  \* MAX_ORDERS, the number of order slots (engine.h:1)
  MaxSize     \* bound on the quantities that clients ask for

ASSUME SizesAssumption ==
  /\ MaxLevel \in Nat \ {0}
  /\ MaxOrders \in Nat \ {0}
  /\ MaxSize \in Nat \ {0}

VARIABLES
  orders,      \* book->orders, indexed by order id (the slot number)
  orders_num,  \* book->orders_num, the number of slots ever used
  levels,      \* book->levels: per level the ids of its list, head first
  best_ask,    \* no resting sell is below it
  best_bid,    \* no resting buy is above it
  pc,          \* where match() is: "idle" outside of it
  taker,       \* the id of the order being matched, NoTaker outside match()
  level,       \* match()'s local variable `level`
  ret,         \* what the last do_limit or do_cancel returned
  asked,       \* history: the size each accepted order came with
  cancelled,   \* history: the ids do_cancel has taken out of the book
  trades       \* history: the calls of do_trade, in order

book == <<orders, orders_num, levels, best_ask, best_bid>>
loop == <<pc, taker, level>>
history == <<asked, cancelled, trades>>
vars == <<orders, orders_num, levels, best_ask, best_bid, pc, taker, level,
          ret, asked, cancelled, trades>>

Buy == 0
Sell == 1
NoTaker == -1

Slots == 0..(MaxOrders - 1)
Prices == 1..MaxLevel
AllLevels == 0..(MaxLevel + 1)
Order == [side : {Buy, Sell}, level : AllLevels, size : 0..MaxSize]
Trade == [buyer : Slots, seller : Slots, price : Prices, size : 1..MaxSize]
EmptySlot == [side |-> Buy, level |-> 0, size |-> 0]

-----------------------------------------------------------------------------
(***************************************************************************)
(* order_book_init: memset to zero, then the two bounds outside the range  *)
(* of prices.                                                              *)
(***************************************************************************)
Init ==
  /\ orders = [id \in Slots |-> EmptySlot]
  /\ orders_num = 0
  /\ levels = [l \in AllLevels |-> <<>>]
  /\ best_ask = MaxLevel + 1
  /\ best_bid = 0
  /\ pc = "idle"
  /\ taker = NoTaker
  /\ level = 0
  /\ ret = 0
  /\ asked = [id \in Slots |-> 0]
  /\ cancelled = {}
  /\ trades = <<>>

\* Mutant: do_limit forgets the lower end of the price range.
RejectsNoFloor(lv, sz) == orders_num >= MaxOrders \/ lv > MaxLevel \/ sz = 0

\* do_limit's three early returns.
Rejects(lv, sz) ==
  \/ orders_num >= MaxOrders
  \/ lv > MaxLevel \/ lv < 1
  \/ sz = 0

RejectLimit(lv, sz) ==
  /\ pc = "idle"
  /\ Rejects(lv, sz)
  /\ ret' = -1
  /\ UNCHANGED <<book, loop, history>>

\* do_limit copies the order into the next slot and calls match(), which
\* starts with `level` at the order's own level.
AcceptLimit(sd, lv, sz) ==
  /\ pc = "idle"
  /\ ~Rejects(lv, sz)
  /\ orders' = [orders EXCEPT
                  ![orders_num] = [side |-> sd, level |-> lv, size |-> sz]]
  /\ asked' = [asked EXCEPT ![orders_num] = sz]
  /\ orders_num' = orders_num + 1
  /\ taker' = orders_num
  /\ level' = lv
  /\ pc' = "sweep"
  /\ UNCHANGED <<levels, best_ask, best_bid, ret, cancelled, trades>>

\* The best bound of the side that an order of side sd trades against, and
\* the condition of the outer loop.
BestAgainst(sd) == IF sd = Buy THEN best_ask ELSE best_bid

\* Mutant: a strict comparison in the outer loop.
CrossesStrictly(o) ==
  IF o.side = Buy THEN o.level > best_ask ELSE o.level < best_bid

Crosses(o) ==
  IF o.side = Buy THEN o.level >= best_ask ELSE o.level <= best_bid

\* Mutant: the local `level` is not moved along with the bound.
EnterKeepsLevel ==
  /\ pc = "sweep" /\ Crosses(orders[taker]) /\ pc' = "fill"
  /\ UNCHANGED <<book, taker, level, ret, history>>

EnterLevel ==
  /\ pc = "sweep"
  /\ Crosses(orders[taker])
  /\ level' = BestAgainst(orders[taker].side)
  /\ pc' = "fill"
  /\ UNCHANGED <<book, taker, ret, history>>

Smaller(a, b) == IF a < b THEN a ELSE b

\* Mutant: the trade is reported at the price of the arriving order.
TradeAtTakerPrice(t, maker, price, sz) ==
  [buyer |-> IF orders[t].side = Buy THEN t ELSE maker,
   seller |-> IF orders[t].side = Buy THEN maker ELSE t,
   price |-> orders[t].level, size |-> sz]

\* do_trade's arguments: who buys and who sells depends on the taker's side.
TradeOf(t, maker, price, sz) ==
  IF orders[t].side = Buy
  THEN [buyer |-> t, seller |-> maker, price |-> price, size |-> sz]
  ELSE [buyer |-> maker, seller |-> t, price |-> price, size |-> sz]

\* One iteration of the inner loop: trade with the head of the level, drop
\* the head from the list when it is used up, leave match() when the taker is.
Fill ==
  /\ pc = "fill"
  /\ levels[level] # <<>>
  /\ LET maker == Head(levels[level])
         q == Smaller(orders[maker].size, orders[taker].size)
     IN /\ trades' = Append(trades,
                            TradeOf(taker, maker, BestAgainst(orders[taker].side), q))
        /\ orders' = [id \in Slots |->
                        IF id \in {maker, taker}
                        THEN [orders[id] EXCEPT !.size = @ - q] ELSE orders[id]]
        /\ levels' = IF orders[maker].size = q
                     THEN [levels EXCEPT ![level] = Tail(@)]
                     ELSE levels
        /\ IF orders[taker].size = q
           THEN pc' = "idle" /\ taker' = NoTaker /\ ret' = 0
           ELSE UNCHANGED <<pc, taker, ret>>
  /\ UNCHANGED <<orders_num, best_ask, best_bid, level, asked, cancelled>>

\* Mutant: the bound is not moved past an emptied level.
LeaveKeepsBound ==
  /\ pc = "fill" /\ levels[level] = <<>> /\ pc' = "sweep"
  /\ UNCHANGED <<book, taker, level, ret, history>>

\* The level is empty: move the bound past it and test the outer loop again.
LeaveLevel ==
  /\ pc = "fill"
  /\ levels[level] = <<>>
  /\ IF orders[taker].side = Buy
     THEN best_ask' = best_ask + 1 /\ UNCHANGED best_bid
     ELSE best_bid' = best_bid - 1 /\ UNCHANGED best_ask
  /\ pc' = "sweep"
  /\ UNCHANGED <<orders, orders_num, levels, taker, level, ret, history>>

\* Mutants: the bound follows every order; newer orders go in front.
AlwaysOwnLevel(o) == o.level
EnqueueFirst(list, id) == <<id>> \o list

BidBound(o) == IF o.level > best_bid THEN o.level ELSE best_bid
AskBound(o) == IF o.level < best_ask THEN o.level ELSE best_ask

\* order_insert puts the order at the tail of the list.
Enqueue(list, id) == Append(list, id)

\* Nothing left to trade with: tighten the own bound and queue the rest of
\* the order at the tail of the list that `level` points to.
Rest ==
  /\ pc = "sweep"
  /\ ~Crosses(orders[taker])
  /\ LET o == orders[taker]
     IN IF o.side = Buy
        THEN best_bid' = BidBound(o) /\ UNCHANGED best_ask
        ELSE best_ask' = AskBound(o) /\ UNCHANGED best_bid
  /\ levels' = [levels EXCEPT ![level] = Enqueue(@, taker)]
  /\ pc' = "idle"
  /\ taker' = NoTaker
  /\ ret' = 0
  /\ UNCHANGED <<orders, orders_num, level, history>>

\* Mutant: the head of the list is dropped instead of the order.
UnlinkHead(list, id) == Tail(list)

\* order_remove unlinks one order; the others keep their places.
Place(list, id) == CHOOSE i \in 1..Len(list) : list[i] = id
Unlink(list, id) == RemoveAt(list, Place(list, id))

CancelRejects(id) == IF id < orders_num THEN orders[id].size = 0 ELSE TRUE

RejectCancel(id) ==
  /\ pc = "idle"
  /\ CancelRejects(id)
  /\ ret' = -1
  /\ UNCHANGED <<book, loop, history>>

\* Mutant: the order leaves its list but keeps its size.
CancelKeepsSize(id) ==
  /\ pc = "idle" /\ ~CancelRejects(id)
  /\ levels' = [levels EXCEPT ![orders[id].level] = Unlink(@, id)]
  /\ cancelled' = cancelled \cup {id} /\ ret' = 0
  /\ UNCHANGED <<orders, orders_num, best_ask, best_bid, loop, asked, trades>>

\* do_cancel leaves best_ask and best_bid where they are, even when it
\* empties the level they point to.
Cancel(id) ==
  /\ pc = "idle"
  /\ ~CancelRejects(id)
  /\ levels' = [levels EXCEPT ![orders[id].level] = Unlink(@, id)]
  /\ orders' = [orders EXCEPT ![id].size = 0]
  /\ cancelled' = cancelled \cup {id}
  /\ ret' = 0
  /\ UNCHANGED <<orders_num, best_ask, best_bid, loop, asked, trades>>

Match == EnterLevel \/ Fill \/ LeaveLevel \/ Rest

Next ==
  \/ \E sd \in {Buy, Sell}, lv \in AllLevels, sz \in 0..MaxSize :
       RejectLimit(lv, sz) \/ AcceptLimit(sd, lv, sz)
  \/ Match
  \/ \E id \in 0..MaxOrders : RejectCancel(id) \/ Cancel(id)

Spec == Init /\ [][Next]_vars

\* match() is a function of a single-threaded process: once called, it runs.
FairSpec == Spec /\ WF_vars(Match)

-----------------------------------------------------------------------------
(***************************************************************************)
(* Properties.                                                             *)
(***************************************************************************)

\* The ranges of the book, of match()'s locals and of the history.
TypeOK ==
  /\ orders \in [Slots -> Order]
  /\ orders_num \in 0..MaxOrders
  /\ levels \in [AllLevels -> Seq(Slots)]
  /\ best_ask \in 1..(MaxLevel + 1)
  /\ best_bid \in 0..MaxLevel
  /\ pc \in {"idle", "sweep", "fill"}
  /\ taker \in Slots \cup {NoTaker}
  /\ level \in 0..MaxLevel
  /\ ret \in {0, -1}
  /\ asked \in [Slots -> 0..MaxSize]
  /\ cancelled \in SUBSET Slots
  /\ trades \in Seq(Trade)

Listed(l) == Range(levels[l])
Resting == UNION {Listed(l) : l \in AllLevels}
RestingOn(sd) == {id \in Resting : orders[id].side = sd}

\* No resting buy meets the price of a resting sell, in the middle of a match
\* as well as between two calls: match() never leaves a trade undone.
Uncrossed ==
  \A b \in RestingOn(Buy), s \in RestingOn(Sell) :
    orders[b].level < orders[s].level

\* What keeps it so: the bounds do not cross, and each side is on its side of
\* its bound, although do_cancel and a fully filled taker leave them stale.
BoundsHold ==
  /\ best_bid < best_ask
  /\ \A b \in RestingOn(Buy) : orders[b].level <= best_bid
  /\ \A s \in RestingOn(Sell) : orders[s].level >= best_ask

\* The lists hold exactly the orders that have something left, each once, at
\* its own level, the older before the newer (slot numbers are arrival order).
\* match() inserts through a local `level` that its outer loop has moved.
ListsExact ==
  /\ \A l \in AllLevels : \A i \in DOMAIN levels[l] :
       /\ levels[l][i] < orders_num
       /\ orders[levels[l][i]].level = l
       /\ \A j \in 1..(i - 1) : levels[l][j] < levels[l][i]
  /\ Resting = {id \in Slots : orders[id].size > 0} \ {taker}

\* A trade is at the price of the order that was resting, inside the limits of
\* both parties, and the resting party is the older one.
TradesInLimits ==
  \A i \in DOMAIN trades :
    LET t == trades[i]
    IN /\ t.buyer < orders_num /\ t.seller < orders_num
       /\ orders[t.buyer].side = Buy /\ orders[t.seller].side = Sell
       /\ orders[t.seller].level <= t.price /\ t.price <= orders[t.buyer].level
       /\ t.price = orders[Smaller(t.buyer, t.seller)].level

\* Inside match() the taker is the newest order and is in no list; the local
\* `level`, through which the rest is inserted, is the level being swept and,
\* when the outer loop is about to end, the taker's own.
SweepInv ==
  /\ pc = "idle" <=> taker = NoTaker
  /\ pc # "idle" =>
       /\ taker = orders_num - 1
       /\ orders[taker].level \in Prices
       /\ orders[taker].size > 0
  /\ pc = "fill" =>
       level = BestAgainst(orders[taker].side) /\ Crosses(orders[taker])
  /\ pc = "sweep" =>
       \/ level = orders[taker].level
       \/ /\ orders[taker].side = Buy
          /\ level = best_ask - 1 /\ level < orders[taker].level
       \/ /\ orders[taker].side = Sell
          /\ level = best_bid + 1 /\ level > orders[taker].level

\* What an order traded: one element for each unit of each of its trades.
Units(id) ==
  {u \in (DOMAIN trades) \X (1..MaxSize) :
     /\ id \in {trades[u[1]].buyer, trades[u[1]].seller}
     /\ u[2] <= trades[u[1]].size}
Traded(id) == Cardinality(Units(id))

\* Nothing is lost and nothing is filled twice: what an order came with is
\* what it traded plus what is left, unless do_cancel dropped the rest.
Conserved ==
  \A id \in 0..(orders_num - 1) :
    IF id \in cancelled
    THEN orders[id].size = 0 /\ Traded(id) < asked[id]
    ELSE asked[id] = Traded(id) + orders[id].size

\* The loops of match() end: every accepted order is filled or rests.
MatchEnds == pc # "idle" ~> pc = "idle"

AsRecord(id) == [id |-> id, side |-> orders[id].side,
                 level |-> orders[id].level, size |-> orders[id].size]

Abstract == INSTANCE PriceTimeBook WITH
  resting  <- {AsRecord(id) : id \in Resting},
  incoming <- IF taker = NoTaker
              THEN [id |-> -1, side |-> Buy, level |-> 0, size |-> 0]
              ELSE AsRecord(taker),
  arrived  <- orders_num,
  deals    <- trades

\* The loop nest over FIFO lists and bounds implements price-time priority:
\* every trade is with the best-priced, then oldest, resting order, and an
\* order rests only when nothing is left that it could trade with.
ImplementsPriceTime == Abstract!Spec
=============================================================================
