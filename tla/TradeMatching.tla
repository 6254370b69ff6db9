---------------------------- MODULE TradeMatching ----------------------------
(***************************************************************************)
(* TradeMatchingEngine (services/execution/trade_matching): the price-time *)
(* priority book of one symbol.  A lock makes add_order, cancel_order and  *)
(* match_orders exclude one another; the loops inside add_order and        *)
(* match_orders are taken an iteration at a time, with the lock held.      *)
(*                                                                         *)
(* A heap is the set of its entries: only its top, the entry with the      *)
(* least key, is ever read or popped.  Cancelled orders stay in their heap *)
(* until they come to the top.                                             *)
(*                                                                         *)
(* A market order has price 0, and when it rests the next match against it *)
(* has price 0.  OrderFill requires a positive price: the constructor then *)
(* raises, after both orders were reduced and before anything is emitted,  *)
(* and the operation ends there.                                           *)
(***************************************************************************)
EXTENDS Integers

CONSTANTS
  Orders,
  Buys,     \* the orders that buy; the others sell
  Price,    \* limit prices, 0 for a market order
  Qty       \* quantities

ASSUME OrdersAssumption ==
  /\ Buys \subseteq Orders
  /\ Price \in [Orders -> Nat]
  /\ Qty \in [Orders -> Nat \ {0}]

VARIABLES
  sequence,    \* the engine's counter
  seq,         \* [Orders -> Nat]: the order's sequence, 0 before add_order
  remaining,   \* [Orders -> Nat]
  cancelled,   \* orders marked cancelled
  bids, asks,  \* the two heaps
  adding,      \* the order whose add_order holds the lock, if any
  crossing,    \* match_orders holds the lock
  reported,    \* [Orders -> Nat]: shares of the fills emitted for the order
  trades       \* the buyer, seller and price of the fills emitted

vars == <<sequence, seq, remaining, cancelled, bids, asks, adding, crossing,
          reported, trades>>
fills == <<reported, trades>>

Sells == Orders \ Buys
Free == adding = {} /\ ~crossing
Trade(b, s, p) == [buy |-> b, sell |-> s, price |-> p]

TypeOK ==
  /\ sequence \in Nat
  /\ seq \in [Orders -> Nat]
  /\ remaining \in [Orders -> Nat]
  /\ cancelled \subseteq Orders
  /\ bids \subseteq Buys
  /\ asks \subseteq Sells
  /\ adding \subseteq Orders
  /\ crossing \in BOOLEAN
  /\ reported \in [Orders -> Nat]
  /\ trades \subseteq [buy : Buys, sell : Sells, price : Nat]

Init ==
  /\ sequence = 0
  /\ seq = [o \in Orders |-> 0]
  /\ remaining = [o \in Orders |-> 0]
  /\ cancelled = {}
  /\ bids = {}
  /\ asks = {}
  /\ adding = {}
  /\ crossing = FALSE
  /\ reported = [o \in Orders |-> 0]
  /\ trades = {}

\* Mutant of BidBefore: bid_key does not negate the price.
BidKeyPlain(x, y) ==
  Price[x] < Price[y] \/ (Price[x] = Price[y] /\ seq[x] < seq[y])

\* bid_key and ask_key: the better price first, then the earlier sequence.
BidBefore(x, y) ==
  Price[x] > Price[y] \/ (Price[x] = Price[y] /\ seq[x] < seq[y])
AskBefore(x, y) ==
  Price[x] < Price[y] \/ (Price[x] = Price[y] /\ seq[x] < seq[y])
Before(x, y) == IF x \in Buys THEN BidBefore(x, y) ELSE AskBefore(x, y)

IsTop(x, heap) == x \in heap /\ \A y \in heap \ {x} : Before(x, y)

Live(o) == o \notin cancelled /\ remaining[o] > 0

Opposite(o) == IF o \in Buys THEN asks ELSE bids

\* The incoming order o accepts the price of the resting order r.
Crosses(o, r) ==
  \/ Price[o] = 0
  \/ IF o \in Buys THEN Price[o] >= Price[r] ELSE Price[o] <= Price[r]

MinQty(x, y) == IF remaining[x] <= remaining[y] THEN remaining[x] ELSE remaining[y]

\* heappop, when r is in the heap and goes
Popped(heap, r) == heap \ {r}

\* Both parties of a match are reduced by q ...
Reduce(b, s, q) == remaining' = [remaining EXCEPT ![b] = @ - q, ![s] = @ - q]

\* ... and each gets an OrderFill, unless the price is 0.
Emit(b, s, q, p) ==
  IF p = 0 THEN UNCHANGED fills
  ELSE /\ reported' = [reported EXCEPT ![b] = @ + q, ![s] = @ + q]
       /\ trades' = trades \cup {Trade(b, s, p)}

-----------------------------------------------------------------------------
\* add_order takes the lock, numbers the order and files it.
AddOrder(o) ==
  /\ Free
  /\ seq[o] = 0
  /\ sequence' = sequence + 1
  /\ seq' = [seq EXCEPT ![o] = sequence + 1]
  /\ remaining' = [remaining EXCEPT ![o] = Qty[o]]
  /\ adding' = {o}
  /\ UNCHANGED <<cancelled, bids, asks, crossing, fills>>

\* Mutant of SkipStale: continue without heappop.
SkipStaleKept(o) ==
  /\ o \in adding
  /\ remaining[o] > 0
  /\ \E r \in Opposite(o) : IsTop(r, Opposite(o)) /\ ~Live(r)
  /\ UNCHANGED vars

\* The matching loop pops a stale top of the opposite heap.
SkipStale(o) ==
  /\ o \in adding
  /\ remaining[o] > 0
  /\ \E r \in Opposite(o) :
       /\ IsTop(r, Opposite(o))
       /\ ~Live(r)
       /\ bids' = Popped(bids, r)
       /\ asks' = Popped(asks, r)
  /\ UNCHANGED <<sequence, seq, remaining, cancelled, adding, crossing, fills>>

\* Mutant of MatchTop: the resting order is popped whatever remains of it.
MatchTopPops(o) ==
  /\ o \in adding
  /\ remaining[o] > 0
  /\ \E r \in Opposite(o) :
       /\ IsTop(r, Opposite(o)) /\ Live(r) /\ Crosses(o, r)
       /\ LET b == IF o \in Buys THEN o ELSE r
              s == IF o \in Buys THEN r ELSE o
          IN Reduce(b, s, MinQty(o, r)) /\ Emit(b, s, MinQty(o, r), Price[r])
       /\ bids' = Popped(bids, r)
       /\ asks' = Popped(asks, r)
       /\ adding' = IF Price[r] = 0 THEN {} ELSE adding
  /\ UNCHANGED <<sequence, seq, cancelled, crossing>>

\* The top of the opposite heap trades with the incoming order, at its own
\* price; at price 0 the exception leaves add_order.
MatchTop(o) ==
  /\ o \in adding
  /\ remaining[o] > 0
  /\ \E r \in Opposite(o) :
       /\ IsTop(r, Opposite(o)) /\ Live(r) /\ Crosses(o, r)
       /\ LET b == IF o \in Buys THEN o ELSE r
              s == IF o \in Buys THEN r ELSE o
          IN Reduce(b, s, MinQty(o, r)) /\ Emit(b, s, MinQty(o, r), Price[r])
       /\ bids' = IF remaining[r] = MinQty(o, r) THEN Popped(bids, r) ELSE bids
       /\ asks' = IF remaining[r] = MinQty(o, r) THEN Popped(asks, r) ELSE asks
       /\ adding' = IF Price[r] = 0 THEN {} ELSE adding
  /\ UNCHANGED <<sequence, seq, cancelled, crossing>>

\* Mutant of Rest: a stale top ends the loop.
RestAtStale(o) ==
  /\ o \in adding
  /\ \/ remaining[o] = 0
     \/ Opposite(o) = {}
     \/ \E r \in Opposite(o) : IsTop(r, Opposite(o)) /\ (~Live(r) \/ ~Crosses(o, r))
  /\ bids' = IF remaining[o] > 0 /\ o \in Buys THEN bids \cup {o} ELSE bids
  /\ asks' = IF remaining[o] > 0 /\ o \notin Buys THEN asks \cup {o} ELSE asks
  /\ adding' = {}
  /\ UNCHANGED <<sequence, seq, remaining, cancelled, crossing, fills>>

\* The loop ends: nothing is left of the order, the opposite heap is empty, or
\* its top is too dear.  What remains rests on the order's own side.
Rest(o) ==
  /\ o \in adding
  /\ \/ remaining[o] = 0
     \/ Opposite(o) = {}
     \/ \E r \in Opposite(o) : IsTop(r, Opposite(o)) /\ Live(r) /\ ~Crosses(o, r)
  /\ bids' = IF remaining[o] > 0 /\ o \in Buys THEN bids \cup {o} ELSE bids
  /\ asks' = IF remaining[o] > 0 /\ o \notin Buys THEN asks \cup {o} ELSE asks
  /\ adding' = {}
  /\ UNCHANGED <<sequence, seq, remaining, cancelled, crossing, fills>>

\* cancel_order marks any known order that is not yet cancelled, a filled one too.
CancelOrder(o) ==
  /\ Free
  /\ seq[o] > 0
  /\ o \notin cancelled
  /\ cancelled' = cancelled \cup {o}
  /\ UNCHANGED <<sequence, seq, remaining, bids, asks, adding, crossing, fills>>

\* match_orders takes the lock to cross the book.
MatchOrders ==
  /\ Free
  /\ sequence > 0
  /\ crossing' = TRUE
  /\ UNCHANGED <<sequence, seq, remaining, cancelled, bids, asks, adding, fills>>

\* The entries that are popped before the first live one comes to the top.
StalePrefix(heap) ==
  {x \in heap : ~Live(x) /\ \A y \in heap : Live(y) => Before(x, y)}

\* One iteration of _cross_book: clean both heaps, then trade their tops at the
\* price of the ask, or stop.
CrossBook ==
  LET b == bids \ StalePrefix(bids)
      a == asks \ StalePrefix(asks)
      Crossed(x, y) == IsTop(x, b) /\ IsTop(y, a) /\ Price[x] >= Price[y]
  IN /\ crossing
     /\ IF bids = {} \/ asks = {}
        THEN /\ crossing' = FALSE
             /\ UNCHANGED <<remaining, bids, asks, fills>>
        ELSE IF \E x \in b, y \in a : Crossed(x, y)
        THEN \E x \in b, y \in a :
               /\ Crossed(x, y)
               /\ Reduce(x, y, MinQty(x, y))
               /\ Emit(x, y, MinQty(x, y), Price[y])
               /\ bids' = IF remaining[x] = MinQty(x, y) THEN Popped(b, x) ELSE b
               /\ asks' = IF remaining[y] = MinQty(x, y) THEN Popped(a, y) ELSE a
               /\ crossing' = (Price[y] > 0)
        ELSE /\ crossing' = FALSE
             /\ bids' = b
             /\ asks' = a
             /\ UNCHANGED <<remaining, fills>>
     /\ UNCHANGED <<sequence, seq, cancelled, adding>>

-----------------------------------------------------------------------------
LockedStep ==
  \/ \E o \in Orders : SkipStale(o) \/ MatchTop(o) \/ Rest(o)
  \/ CrossBook

Next ==
  \/ \E o \in Orders : AddOrder(o) \/ CancelOrder(o)
  \/ MatchOrders
  \/ LockedStep

Spec == Init /\ [][Next]_vars

\* The thread that holds the lock keeps running.
FairSpec == Spec /\ WF_vars(LockedStep)

-----------------------------------------------------------------------------
\* No live bid reaches a live ask: add_order leaves nothing behind that could
\* trade, through partial fills, market orders that rest, cancellations whose
\* entries stay in the heaps, and forced re-matching.
NotCrossed ==
  \A b \in bids, a \in asks : Live(b) /\ Live(a) => Price[b] < Price[a]

\* Hence match_orders never finds a trade.
CrossingFindsNothing == [][crossing => remaining' = remaining]_vars

\* Neither party trades beyond its limit; a market buy has none.
LimitsRespected ==
  \A t \in trades :
    /\ Price[t.buy] > 0 => t.price <= Price[t.buy]
    /\ t.price >= Price[t.sell]

\* A resting order trades only when no live order of its side has a better price,
\* or the same price and an earlier arrival; a cancelled order does not trade.
PriceTimePriority ==
  [][\A r \in bids \cup asks :
       remaining'[r] < remaining[r] =>
         /\ r \notin cancelled
         /\ \A x \in IF r \in Buys THEN bids ELSE asks :
              Live(x) => /\ IF r \in Buys THEN Price[x] <= Price[r] ELSE Price[x] >= Price[r]
                         /\ Price[x] = Price[r] => seq[x] >= seq[r]]_vars

\* Every operation lets go of the lock.
LockIsReleased == ~Free ~> Free

\* The shares taken from an order are those of its fills, as "Emits OrderFill
\* events on every match" says: true until a match at price 0 is aborted.
EveryMatchIsReported ==
  \A o \in Orders : seq[o] > 0 => reported[o] + remaining[o] = Qty[o]

\* What is left of an order is on the book ("If the order has remaining quantity,
\* rest it on the book"), where the next one finds it, through partial fills and
\* the cleaning of the heaps, unless a match was aborted.
RemainderRests ==
  EveryMatchIsReported => \A o \in Orders : Live(o) => o \in bids \cup asks \cup adding
=============================================================================
