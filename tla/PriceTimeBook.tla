---------------------------- MODULE PriceTimeBook ----------------------------
(***************************************************************************)
(* What a limit order book promises its traders, without lists, bounds or  *)
(* loops: an arriving order trades, one counterpart at a time, with the    *)
(* best-priced resting order of the other side, the oldest of those first, *)
(* as long as the prices meet; what is left of it then rests.  The engine  *)
(* of tools/sim/engine.c is shown to implement this (MatchingEngine).      *)
(***************************************************************************)
EXTENDS Integers, Sequences

CONSTANTS MaxLevel, MaxOrders, MaxSize

VARIABLES
  resting,   \* the set of resting orders
  incoming,  \* the order being matched, or Nobody
  arrived,   \* how many orders have been accepted; ids are given in order
  deals      \* the trades so far, in order

bookVars == <<resting, incoming, arrived, deals>>

Buy == 0
Sell == 1
Nobody == [id |-> -1, side |-> Buy, level |-> 0, size |-> 0]

Init ==
  /\ resting = {}
  /\ incoming = Nobody
  /\ arrived = 0
  /\ deals = <<>>

Arrive(sd, lv, sz) ==
  /\ incoming = Nobody
  /\ arrived < MaxOrders
  /\ incoming' = [id |-> arrived, side |-> sd, level |-> lv, size |-> sz]
  /\ arrived' = arrived + 1
  /\ UNCHANGED <<resting, deals>>

\* Does order o take the price that the resting order r offers?
Takes(o, r) ==
  /\ r.side # o.side
  /\ IF o.side = Buy THEN r.level <= o.level ELSE r.level >= o.level

\* Price first, then time, among resting orders of one side.
Before(r, s) ==
  \/ IF r.side = Sell THEN r.level < s.level ELSE r.level > s.level
  \/ r.level = s.level /\ r.id < s.id

IsFirst(r) ==
  /\ r \in resting
  /\ Takes(incoming, r)
  /\ \A s \in resting : Takes(incoming, s) /\ s # r => Before(r, s)

Deal(o, r, q) ==
  [buyer  |-> IF o.side = Buy THEN o.id ELSE r.id,
   seller |-> IF o.side = Buy THEN r.id ELSE o.id,
   price  |-> r.level, size |-> q]

Reduced(o, q) == [o EXCEPT !.size = @ - q]

TradeWithFirst(r) ==
  /\ incoming # Nobody
  /\ IsFirst(r)
  /\ LET q == IF r.size < incoming.size THEN r.size ELSE incoming.size
     IN /\ deals' = Append(deals, Deal(incoming, r, q))
        /\ resting' = (resting \ {r}) \cup
                        (IF r.size = q THEN {} ELSE {Reduced(r, q)})
        /\ incoming' = IF incoming.size = q THEN Nobody
                       ELSE Reduced(incoming, q)
  /\ UNCHANGED arrived

Settle ==
  /\ incoming # Nobody
  /\ \A r \in resting : ~Takes(incoming, r)
  /\ resting' = resting \cup {incoming}
  /\ incoming' = Nobody
  /\ UNCHANGED <<arrived, deals>>

Withdraw(r) ==
  /\ incoming = Nobody
  /\ r \in resting
  /\ resting' = resting \ {r}
  /\ UNCHANGED <<incoming, arrived, deals>>

Next ==
  \/ \E sd \in {Buy, Sell}, lv \in 1..MaxLevel, sz \in 1..MaxSize :
       Arrive(sd, lv, sz)
  \/ \E r \in resting : TradeWithFirst(r) \/ Withdraw(r)
  \/ Settle

Spec == Init /\ [][Next]_bookVars
=============================================================================
