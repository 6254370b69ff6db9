-------------------------- MODULE TradeMatchingProofs ------------------------
(***************************************************************************)
(* Theorems about TradeMatching, for any orders, prices and quantities.    *)
(***************************************************************************)
EXTENDS TradeMatching, TLAPS

\* Orders on the book or being added are numbered; the others hold nothing.
Numbered ==
  /\ \A o \in bids \cup asks \cup adding : seq[o] > 0
  /\ \A o \in Orders : seq[o] = 0 => remaining[o] = 0 /\ reported[o] = 0

\* The lock has one holder, and the order it adds is not yet on the book.
OneHolder ==
  /\ \A x, y \in adding : x = y
  /\ crossing => adding = {}
  /\ \A o \in adding : o \notin bids \cup asks

\* No fill is reported twice.
ReportedAtMost ==
  \A o \in Orders : seq[o] > 0 => reported[o] + remaining[o] <= Qty[o]

IInv == TypeOK /\ Numbered /\ OneHolder /\ ReportedAtMost /\ NotCrossed

-----------------------------------------------------------------------------
\* A match between a buy and a sell order with something left takes the same
\* positive quantity from both and leaves one of them with nothing.
LEMMA MinQtyBounds ==
  ASSUME TypeOK, NEW x \in Orders, NEW y \in Orders, remaining[x] > 0, remaining[y] > 0
  PROVE  /\ MinQty(x, y) \in Nat \ {0}
         /\ MinQty(x, y) <= remaining[x] /\ MinQty(x, y) <= remaining[y]
BY DEF TypeOK, MinQty

\* A match in full: what it does to both parties and to everyone else.
LEMMA MatchEffect ==
  ASSUME TypeOK, NEW b \in Buys, NEW s \in Sells, NEW q \in Nat \ {0}, NEW p \in Nat,
         q <= remaining[b], q <= remaining[s], Reduce(b, s, q), Emit(b, s, q, p)
  PROVE  /\ remaining' \in [Orders -> Nat]
         /\ reported' \in [Orders -> Nat]
         /\ trades' \subseteq [buy : Buys, sell : Sells, price : Nat]
         /\ trades' = IF p = 0 THEN trades ELSE trades \cup {Trade(b, s, p)}
         /\ remaining'[b] = remaining[b] - q /\ remaining'[s] = remaining[s] - q
         /\ \A o \in Orders \ {b, s} : remaining'[o] = remaining[o] /\ reported'[o] = reported[o]
         /\ p > 0 => reported'[b] = reported[b] + q /\ reported'[s] = reported[s] + q
         /\ p = 0 => reported'[b] = reported[b] /\ reported'[s] = reported[s]
<1>1. b \in Orders /\ s \in Orders /\ b # s
  BY OrdersAssumption DEF Sells
<1>2. /\ remaining[b] - q \in Nat
      /\ remaining[s] - q \in Nat
      /\ reported[b] + q \in Nat
      /\ reported[s] + q \in Nat
  BY <1>1 DEF TypeOK
<1>3. /\ remaining' \in [Orders -> Nat]
      /\ remaining'[b] = remaining[b] - q /\ remaining'[s] = remaining[s] - q
      /\ \A o \in Orders \ {b, s} : remaining'[o] = remaining[o]
  BY <1>1, <1>2 DEF Reduce, TypeOK
<1>4. CASE p = 0
  BY <1>3, <1>4 DEF Emit, fills, TypeOK
<1>5. CASE p > 0
  <2>1. /\ reported' \in [Orders -> Nat]
        /\ reported'[b] = reported[b] + q /\ reported'[s] = reported[s] + q
        /\ \A o \in Orders \ {b, s} : reported'[o] = reported[o]
    BY <1>1, <1>2, <1>5 DEF Emit, TypeOK
  <2>2. trades' = trades \cup {Trade(b, s, p)}
    BY <1>5 DEF Emit
  <2>3. trades' \subseteq [buy : Buys, sell : Sells, price : Nat]
    BY <2>2 DEF Trade, TypeOK
  <2> QED BY <1>3, <1>5, <2>1, <2>2, <2>3
<1> QED BY <1>4, <1>5

\* A match gives no order more to trade, and reports no more than it took.
LEMMA MatchReduces ==
  ASSUME TypeOK, NEW b \in Buys, NEW s \in Sells, NEW q \in Nat \ {0}, NEW p \in Nat,
         q <= remaining[b], q <= remaining[s], Reduce(b, s, q), Emit(b, s, q, p),
         NEW x \in Orders
  PROVE  /\ remaining'[x] <= remaining[x]
         /\ reported'[x] + remaining'[x] <= reported[x] + remaining[x]
<1>1. b \in Orders /\ s \in Orders
  BY OrdersAssumption DEF Sells
<1>2. /\ remaining[b] \in Nat /\ remaining[s] \in Nat /\ remaining[x] \in Nat
      /\ reported[b] \in Nat /\ reported[s] \in Nat /\ reported[x] \in Nat
  BY <1>1 DEF TypeOK
<1>3. /\ remaining'[b] = remaining[b] - q /\ remaining'[s] = remaining[s] - q
      /\ x \notin {b, s} => remaining'[x] = remaining[x] /\ reported'[x] = reported[x]
      /\ p > 0 => reported'[b] = reported[b] + q /\ reported'[s] = reported[s] + q
      /\ p = 0 => reported'[b] = reported[b] /\ reported'[s] = reported[s]
  BY MatchEffect
<1>4. CASE x \notin {b, s}
  BY <1>2, <1>3, <1>4
<1>5. CASE x = b
  BY <1>2, <1>3, <1>5
<1>6. CASE x = s
  BY <1>2, <1>3, <1>6
<1> QED BY <1>4, <1>5, <1>6

\* The top of a heap has the best price of its side.
LEMMA TopAsk ==
  ASSUME TypeOK, NEW r \in asks, IsTop(r, asks), NEW x \in asks
  PROVE  Price[r] <= Price[x] /\ (Price[r] = Price[x] => seq[r] <= seq[x])
<1>1. r \in Orders /\ x \in Orders /\ r \notin Buys
  BY DEF TypeOK, Sells
<1>2. Price[r] \in Nat /\ Price[x] \in Nat /\ seq[r] \in Nat /\ seq[x] \in Nat
  BY <1>1, OrdersAssumption DEF TypeOK
<1>3. x = r \/ AskBefore(r, x)
  BY <1>1 DEF IsTop, Before
<1> QED BY <1>2, <1>3 DEF AskBefore

LEMMA TopBid ==
  ASSUME TypeOK, NEW r \in bids, IsTop(r, bids), NEW x \in bids
  PROVE  Price[r] >= Price[x] /\ (Price[r] = Price[x] => seq[r] <= seq[x])
<1>1. r \in Orders /\ x \in Orders /\ r \in Buys
  BY OrdersAssumption DEF TypeOK
<1>2. Price[r] \in Nat /\ Price[x] \in Nat /\ seq[r] \in Nat /\ seq[x] \in Nat
  BY <1>1, OrdersAssumption DEF TypeOK
<1>3. x = r \/ BidBefore(r, x)
  BY <1>1 DEF IsTop, Before
<1> QED BY <1>2, <1>3 DEF BidBefore

\* With the stale entries at its top gone, the top of a heap is live.
LEMMA CleanTopIsLive ==
  ASSUME NEW heap, NEW x, IsTop(x, heap \ StalePrefix(heap))
  PROVE  x \in heap /\ Live(x)
<1>1. x \in heap /\ x \notin StalePrefix(heap)
  BY DEF IsTop
<1>2. SUFFICES ASSUME ~Live(x) PROVE FALSE
  BY <1>1
<1>3. PICK z \in heap : Live(z) /\ ~Before(x, z)
  BY <1>1, <1>2 DEF StalePrefix
<1>4. z \in heap \ StalePrefix(heap) /\ z # x
  BY <1>2, <1>3 DEF StalePrefix
<1> QED BY <1>3, <1>4 DEF IsTop

\* The incoming order o meets r at the top of the other side: b buys q from s.
Matched(o, b, s, q, r) ==
  /\ {b, s} = {o, r} /\ r # o /\ o \in adding
  /\ IsTop(r, Opposite(o)) /\ Live(r) /\ Crosses(o, r)
  /\ q <= remaining[b] /\ q <= remaining[s]
  /\ Reduce(b, s, q) /\ Emit(b, s, q, Price[r])
  /\ bids' = IF remaining[r] = q THEN Popped(bids, r) ELSE bids
  /\ asks' = IF remaining[r] = q THEN Popped(asks, r) ELSE asks
  /\ adding' = IF Price[r] = 0 THEN {} ELSE adding
  /\ UNCHANGED <<sequence, seq, cancelled, crossing>>

\* What a step of the matching loop does.
LEMMA MatchTopEffect ==
  ASSUME IInv, NEW o \in Orders, MatchTop(o)
  PROVE  \E b \in Buys, s \in Sells, q \in Nat \ {0}, r \in Opposite(o) : Matched(o, b, s, q, r)
<1>1. PICK r \in Opposite(o) :
        /\ IsTop(r, Opposite(o)) /\ Live(r) /\ Crosses(o, r)
        /\ LET b == IF o \in Buys THEN o ELSE r
               s == IF o \in Buys THEN r ELSE o
           IN Reduce(b, s, MinQty(o, r)) /\ Emit(b, s, MinQty(o, r), Price[r])
        /\ bids' = IF remaining[r] = MinQty(o, r) THEN Popped(bids, r) ELSE bids
        /\ asks' = IF remaining[r] = MinQty(o, r) THEN Popped(asks, r) ELSE asks
        /\ adding' = IF Price[r] = 0 THEN {} ELSE adding
  BY DEF MatchTop
<1>2. o \in adding /\ remaining[o] > 0 /\ UNCHANGED <<sequence, seq, cancelled, crossing>>
  BY DEF MatchTop
<1>3. r \in Orders /\ r # o /\ (o \in Buys => r \in Sells) /\ (o \notin Buys => r \in Buys /\ o \in Sells)
  BY OrdersAssumption DEF Opposite, IInv, TypeOK, Sells
<1>4. remaining[r] > 0
  BY <1>1 DEF Live
<1>5. MinQty(o, r) \in Nat \ {0} /\ MinQty(o, r) <= remaining[o] /\ MinQty(o, r) <= remaining[r]
  BY <1>2, <1>3, <1>4, MinQtyBounds DEF IInv
<1>6. CASE o \in Buys
  <2>1. Matched(o, o, r, MinQty(o, r), r)
    BY <1>1, <1>2, <1>3, <1>5, <1>6 DEF Matched
  <2> QED BY <1>3, <1>5, <1>6, <2>1
<1>7. CASE o \notin Buys
  <2>1. Matched(o, r, o, MinQty(o, r), r)
    BY <1>1, <1>2, <1>3, <1>5, <1>7 DEF Matched
  <2> QED BY <1>3, <1>5, <1>7, <2>1
<1> QED BY <1>6, <1>7

-----------------------------------------------------------------------------
LEMMA InitIInv == Init => IInv
<1> SUFFICES ASSUME Init PROVE IInv
  OBVIOUS
<1>1. TypeOK
  BY DEF Init, TypeOK
<1>2. Numbered /\ OneHolder /\ ReportedAtMost /\ NotCrossed
  BY DEF Init, Numbered, OneHolder, ReportedAtMost, NotCrossed
<1> QED BY <1>1, <1>2 DEF IInv

LEMMA AddOrderKeeps ==
  ASSUME IInv, NEW o \in Orders, AddOrder(o) PROVE IInv'
<1> USE DEF IInv, AddOrder, Free, fills
<1>0. Qty[o] \in Nat /\ Qty[o] > 0
  BY OrdersAssumption
<1>1. /\ Qty[o] \in Nat /\ Qty[o] > 0 /\ sequence + 1 \in Nat /\ sequence + 1 > 0
      /\ seq' = [seq EXCEPT ![o] = sequence + 1]
      /\ remaining' = [remaining EXCEPT ![o] = Qty[o]]
  BY <1>0 DEF TypeOK
<1>2. TypeOK'
  BY <1>1 DEF TypeOK
<1>3. \A x \in Orders \ {o} : seq'[x] = seq[x] /\ remaining'[x] = remaining[x]
  BY <1>1 DEF TypeOK
<1>4. seq'[o] = sequence + 1 /\ remaining'[o] = Qty[o] /\ reported'[o] = 0
  BY <1>1 DEF TypeOK, Numbered
<1>5. bids \subseteq Orders /\ asks \subseteq Orders /\ o \notin bids \cup asks
  BY OrdersAssumption DEF TypeOK, Sells, Numbered
<1>6. Numbered'
  BY <1>1, <1>3, <1>4, <1>5 DEF Numbered
<1>7. OneHolder'
  BY <1>5 DEF OneHolder
<1>8. ReportedAtMost'
  BY <1>1, <1>3, <1>4 DEF ReportedAtMost
<1>9. NotCrossed'
  BY <1>3, <1>5 DEF NotCrossed, Live
<1> QED BY <1>2, <1>6, <1>7, <1>8, <1>9

LEMMA SkipStaleKeeps ==
  ASSUME IInv, NEW o \in Orders, SkipStale(o) PROVE IInv'
<1> USE DEF IInv, SkipStale, fills
<1>1. bids' \subseteq bids /\ asks' \subseteq asks
  BY DEF Popped
<1>2. TypeOK'
  BY <1>1 DEF TypeOK
<1>3. Numbered' /\ OneHolder' /\ ReportedAtMost'
  BY <1>1 DEF Numbered, OneHolder, ReportedAtMost
<1>4. NotCrossed'
  BY <1>1 DEF NotCrossed, Live
<1> QED BY <1>2, <1>3, <1>4

\* Matching only reduces what remains, so what was dead stays dead.
LEMMA MatchTopKeeps ==
  ASSUME IInv, NEW o \in Orders, MatchTop(o) PROVE IInv'
<1>m. PICK b \in Buys, s \in Sells, q \in Nat \ {0}, r \in Opposite(o) : Matched(o, b, s, q, r)
  BY MatchTopEffect
<1>1. /\ {b, s} = {o, r} /\ r # o /\ o \in adding
      /\ IsTop(r, Opposite(o)) /\ Live(r) /\ Crosses(o, r)
      /\ q <= remaining[b] /\ q <= remaining[s]
      /\ Reduce(b, s, q) /\ Emit(b, s, q, Price[r])
      /\ bids' = IF remaining[r] = q THEN Popped(bids, r) ELSE bids
      /\ asks' = IF remaining[r] = q THEN Popped(asks, r) ELSE asks
      /\ adding' = IF Price[r] = 0 THEN {} ELSE adding
      /\ UNCHANGED <<sequence, seq, cancelled, crossing>>
  BY <1>m DEF Matched
<1>2. r \in Orders /\ b \in Orders /\ s \in Orders /\ Price[r] \in Nat
  BY OrdersAssumption DEF IInv, TypeOK, Opposite, Sells
<1>3. bids' \subseteq bids /\ asks' \subseteq asks /\ adding' \subseteq adding
  BY <1>1 DEF Popped
<1>4. bids \subseteq Orders /\ asks \subseteq Orders /\ adding \subseteq Orders
  BY OrdersAssumption DEF IInv, TypeOK, Sells
<1>5. /\ remaining' \in [Orders -> Nat]
      /\ reported' \in [Orders -> Nat]
      /\ trades' \subseteq [buy : Buys, sell : Sells, price : Nat]
      /\ remaining'[b] = remaining[b] - q /\ remaining'[s] = remaining[s] - q
      /\ \A x \in Orders \ {b, s} : remaining'[x] = remaining[x] /\ reported'[x] = reported[x]
      /\ Price[r] > 0 => reported'[b] = reported[b] + q /\ reported'[s] = reported[s] + q
      /\ Price[r] = 0 => reported'[b] = reported[b] /\ reported'[s] = reported[s]
  BY <1>1, <1>2, MatchEffect DEF IInv
<1>6. TypeOK'
  BY <1>1, <1>3, <1>5 DEF IInv, TypeOK
<1>7. /\ \A x \in Orders : remaining'[x] <= remaining[x]
      /\ \A x \in Orders : reported'[x] + remaining'[x] <= reported[x] + remaining[x]
  BY <1>1, <1>2, MatchReduces DEF IInv
<1>8. seq[b] > 0 /\ seq[s] > 0
  BY <1>1, <1>4 DEF IInv, Numbered, Opposite
<1>9. Numbered'
  BY <1>1, <1>2, <1>3, <1>5, <1>8 DEF IInv, Numbered, TypeOK
<1>10. OneHolder'
  BY <1>1, <1>3 DEF IInv, OneHolder
<1>11. ReportedAtMost'
  BY <1>1, <1>5, <1>7, OrdersAssumption DEF IInv, ReportedAtMost, TypeOK
<1>12. NotCrossed'
  <2>1. \A x \in Orders : Live(x)' => Live(x)
    BY <1>1, <1>5, <1>7 DEF IInv, Live, TypeOK
  <2> QED BY <1>3, <1>4, <2>1 DEF IInv, NotCrossed
<1> QED BY <1>6, <1>9, <1>10, <1>11, <1>12 DEF IInv

\* The loop ended at a top that is too dear, so no live order of the opposite
\* side is within reach of what rests.
LEMMA RestKeeps ==
  ASSUME IInv, NEW o \in Orders, Rest(o) PROVE IInv'
<1>1. /\ o \in adding /\ adding' = {}
      /\ UNCHANGED <<sequence, seq, remaining, cancelled, crossing, reported, trades>>
      /\ bids' = IF remaining[o] > 0 /\ o \in Buys THEN bids \cup {o} ELSE bids
      /\ asks' = IF remaining[o] > 0 /\ o \notin Buys THEN asks \cup {o} ELSE asks
  BY DEF Rest, fills
<1>2. TypeOK'
  BY <1>1 DEF IInv, TypeOK, Sells
<1>3. Numbered' /\ OneHolder' /\ ReportedAtMost'
  BY <1>1 DEF IInv, Numbered, OneHolder, ReportedAtMost
<1>4. NotCrossed'
  <2>1. Live(o) => remaining[o] > 0
    BY DEF Live
  <2>2. SUFFICES ASSUME NEW b \in bids', NEW a \in asks', Live(b), Live(a)
                 PROVE  Price[b] < Price[a]
    BY <1>1 DEF NotCrossed, Live
  <2>3. b \in Orders /\ a \in Orders /\ Price[b] \in Nat /\ Price[a] \in Nat
    BY <1>2, OrdersAssumption DEF TypeOK, Sells
  <2>4. CASE b \in bids /\ a \in asks
    BY <2>2, <2>4 DEF IInv, NotCrossed
  <2>5. CASE b \notin bids
    <3>1. b = o /\ o \in Buys /\ a \in asks /\ Opposite(o) = asks /\ remaining[o] > 0
      BY <1>1, <2>5 DEF Opposite
    <3>2. PICK r \in asks : IsTop(r, asks) /\ ~Crosses(o, r)
      BY <3>1, OrdersAssumption DEF Rest, IInv, TypeOK
    <3>3. Price[r] <= Price[a] /\ Price[r] \in Nat
      BY <3>1, <3>2, TopAsk, OrdersAssumption DEF IInv, TypeOK, Sells
    <3> QED BY <2>3, <3>1, <3>2, <3>3 DEF Crosses
  <2>6. CASE a \notin asks
    <3>1. a = o /\ o \notin Buys /\ b \in bids /\ Opposite(o) = bids /\ remaining[o] > 0
      BY <1>1, <2>6 DEF Opposite
    <3>2. PICK r \in bids : IsTop(r, bids) /\ ~Crosses(o, r)
      BY <3>1, OrdersAssumption DEF Rest, IInv, TypeOK
    <3>3. Price[r] >= Price[b] /\ Price[r] \in Nat
      BY <3>1, <3>2, TopBid, OrdersAssumption DEF IInv, TypeOK
    <3> QED BY <2>3, <3>1, <3>2, <3>3 DEF Crosses
  <2> QED BY <2>4, <2>5, <2>6
<1> QED BY <1>2, <1>3, <1>4 DEF IInv

LEMMA CancelOrderKeeps ==
  ASSUME IInv, NEW o \in Orders, CancelOrder(o) PROVE IInv'
<1> USE DEF IInv, CancelOrder, fills
<1>1. TypeOK'
  BY DEF TypeOK
<1>2. Numbered' /\ OneHolder' /\ ReportedAtMost'
  BY DEF Numbered, OneHolder, ReportedAtMost
<1>3. NotCrossed'
  BY DEF NotCrossed, Live
<1> QED BY <1>1, <1>2, <1>3

LEMMA MatchOrdersKeeps ==
  ASSUME IInv, MatchOrders PROVE IInv'
<1> USE DEF IInv, MatchOrders, Free, fills
<1>1. TypeOK'
  BY DEF TypeOK
<1>2. Numbered' /\ OneHolder' /\ ReportedAtMost'
  BY DEF Numbered, OneHolder, ReportedAtMost
<1>3. NotCrossed'
  BY DEF NotCrossed, Live
<1> QED BY <1>1, <1>2, <1>3

\* The branch of _cross_book that trades is never taken: the tops it compares are
\* live, and live orders do not cross.
LEMMA CrossBookEffect ==
  ASSUME IInv, CrossBook
  PROVE  /\ crossing /\ crossing' = FALSE
         /\ bids' \subseteq bids /\ asks' \subseteq asks
         /\ \A x \in (bids \ bids') \cup (asks \ asks') : ~Live(x)
         /\ UNCHANGED <<sequence, seq, remaining, cancelled, adding, reported, trades>>
<1> DEFINE b == bids \ StalePrefix(bids)
           a == asks \ StalePrefix(asks)
           Crossed(x, y) == IsTop(x, b) /\ IsTop(y, a) /\ Price[x] >= Price[y]
<1>1. \A x \in b, y \in a : ~Crossed(x, y)
  <2>1. SUFFICES ASSUME NEW x \in b, NEW y \in a, Crossed(x, y) PROVE FALSE
    OBVIOUS
  <2>2. x \in bids /\ Live(x) /\ y \in asks /\ Live(y)
    BY <2>1, CleanTopIsLive
  <2>3. Price[x] < Price[y] /\ Price[x] \in Nat /\ Price[y] \in Nat
    BY <2>2, OrdersAssumption DEF IInv, TypeOK, NotCrossed, Sells
  <2> QED BY <2>1, <2>3
<1>2. /\ crossing /\ UNCHANGED <<sequence, seq, cancelled, adding>>
      /\ \/ /\ crossing' = FALSE
            /\ UNCHANGED <<remaining, bids, asks, fills>>
         \/ \E x \in b, y \in a : Crossed(x, y)
         \/ /\ crossing' = FALSE
            /\ bids' = b
            /\ asks' = a
            /\ UNCHANGED <<remaining, fills>>
  BY DEF CrossBook
<1>3. /\ b \subseteq bids /\ a \subseteq asks
      /\ \A x \in (bids \ b) \cup (asks \ a) : ~Live(x)
  BY DEF StalePrefix
<1> QED BY <1>1, <1>2, <1>3 DEF fills

LEMMA CrossBookKeeps ==
  ASSUME IInv, CrossBook PROVE IInv'
<1>1. /\ crossing /\ crossing' = FALSE
      /\ bids' \subseteq bids /\ asks' \subseteq asks
      /\ UNCHANGED <<sequence, seq, remaining, cancelled, adding, reported, trades>>
  BY CrossBookEffect
<1>2. TypeOK'
  BY <1>1 DEF IInv, TypeOK
<1>3. Numbered' /\ OneHolder' /\ ReportedAtMost'
  BY <1>1 DEF IInv, Numbered, OneHolder, ReportedAtMost
<1>4. NotCrossed'
  BY <1>1 DEF IInv, NotCrossed, Live
<1> QED BY <1>2, <1>3, <1>4 DEF IInv

LEMMA NextIInv == IInv /\ [Next]_vars => IInv'
<1> SUFFICES ASSUME IInv, [Next]_vars PROVE IInv'
  OBVIOUS
<1>1. ASSUME NEW o \in Orders, AddOrder(o) PROVE IInv'
  BY <1>1, AddOrderKeeps
<1>2. ASSUME NEW o \in Orders, SkipStale(o) PROVE IInv'
  BY <1>2, SkipStaleKeeps
<1>3. ASSUME NEW o \in Orders, MatchTop(o) PROVE IInv'
  BY <1>3, MatchTopKeeps
<1>4. ASSUME NEW o \in Orders, Rest(o) PROVE IInv'
  BY <1>4, RestKeeps
<1>5. ASSUME NEW o \in Orders, CancelOrder(o) PROVE IInv'
  BY <1>5, CancelOrderKeeps
<1>6. CASE MatchOrders
  BY <1>6, MatchOrdersKeeps
<1>7. CASE CrossBook
  BY <1>7, CrossBookKeeps
<1>8. CASE UNCHANGED vars
  BY <1>8 DEF vars, IInv, TypeOK, Numbered, OneHolder, ReportedAtMost, NotCrossed, Live
<1> QED BY <1>1, <1>2, <1>3, <1>4, <1>5, <1>6, <1>7, <1>8 DEF Next, LockedStep

LEMMA Inductive == Spec => []IInv
BY InitIInv, NextIInv, PTL DEF Spec

-----------------------------------------------------------------------------
\* The engine's data stays well-formed through add_order, cancel_order and
\* match_orders; in particular no remaining quantity goes below zero.
THEOREM TypeCorrect == Spec => []TypeOK
BY Inductive, PTL DEF IInv

\* After any calls of add_order, cancel_order and match_orders, and between the
\* iterations of their loops, no live bid reaches a live ask.
THEOREM BookIsNotCrossed == Spec => []NotCrossed
BY Inductive, PTL DEF IInv

\* match_orders trades nothing: _cross_book only drops stale entries.
THEOREM CrossingIsIdle == Spec => CrossingFindsNothing
<1>1. IInv /\ [Next]_vars => [crossing => remaining' = remaining]_vars
  <2>1. SUFFICES ASSUME IInv, Next, crossing PROVE remaining' = remaining
    BY DEF vars
  <2>2. adding = {}
    BY <2>1 DEF IInv, OneHolder
  <2>3. CrossBook
    BY <2>1, <2>2 DEF Next, LockedStep, AddOrder, CancelOrder, MatchOrders, Free,
                      SkipStale, MatchTop, Rest
  <2> QED BY <2>1, <2>3, CrossBookEffect
<1> QED BY <1>1, Inductive, PTL DEF Spec, CrossingFindsNothing

\* Steps other than those of the matching loop emit no fill.
LEMMA OnlyMatchTopTrades ==
  ASSUME IInv, [Next]_vars, trades' # trades
  PROVE  \E o \in Orders : MatchTop(o)
<1>1. CASE CrossBook
  BY <1>1, CrossBookEffect
<1>2. CASE ~CrossBook
  BY <1>2, Zenon DEF Next, LockedStep, AddOrder, CancelOrder, MatchOrders, SkipStale, Rest,
                     vars, fills
<1> QED BY <1>1, <1>2

\* Neither party of a fill trades beyond its limit price, whatever the book was
\* when the order came in.
THEOREM FillsRespectLimits == Spec => []LimitsRespected
<1>1. Init => LimitsRespected
  BY DEF Init, LimitsRespected
<1>2. IInv /\ LimitsRespected /\ [Next]_vars => LimitsRespected'
  <2>1. SUFFICES ASSUME IInv, LimitsRespected, [Next]_vars, trades' # trades
                 PROVE  LimitsRespected'
    BY DEF LimitsRespected
  <2>2. PICK o \in Orders : MatchTop(o)
    BY <2>1, OnlyMatchTopTrades
  <2>m. PICK b \in Buys, s \in Sells, q \in Nat \ {0}, r \in Opposite(o) : Matched(o, b, s, q, r)
    BY <2>1, <2>2, MatchTopEffect
  <2>3. /\ {b, s} = {o, r} /\ r # o /\ Crosses(o, r)
        /\ q <= remaining[b] /\ q <= remaining[s]
        /\ Reduce(b, s, q) /\ Emit(b, s, q, Price[r])
    BY <2>m DEF Matched
  <2>4. /\ b \in Orders /\ s \in Orders /\ r \in Orders /\ s \notin Buys
        /\ Price[b] \in Nat /\ Price[s] \in Nat /\ Price[r] \in Nat
    BY <2>3, OrdersAssumption DEF Sells
  <2>5. trades' = trades \cup {Trade(b, s, Price[r])}
    BY <2>1, <2>3 DEF Emit, fills
  <2>6. /\ Price[b] > 0 => Price[r] <= Price[b]
        /\ Price[r] >= Price[s]
    <3>1. CASE o = b /\ r = s
      BY <2>3, <2>4, <3>1 DEF Crosses
    <3>2. CASE o = s /\ r = b
      BY <2>3, <2>4, <3>2 DEF Crosses
    <3> QED BY <2>3, <3>1, <3>2
  <2> QED BY <2>1, <2>5, <2>6 DEF LimitsRespected, Trade
<1> QED BY <1>1, <1>2, Inductive, PTL DEF Spec

\* Only the matching loop takes anything from an order on the book.
LEMMA OnlyMatchTopReduces ==
  ASSUME IInv, [Next]_vars, NEW r \in bids \cup asks, remaining'[r] < remaining[r]
  PROVE  \E o \in Orders : MatchTop(o)
<1>1. r \in Orders /\ remaining[r] \in Nat /\ seq[r] > 0
  BY OrdersAssumption DEF IInv, TypeOK, Sells, Numbered
<1>2. remaining' # remaining
  BY <1>1
<1>3. ASSUME NEW o \in Orders, AddOrder(o) PROVE FALSE
  <2>1. o # r
    BY <1>1, <1>3 DEF AddOrder
  <2>2. remaining'[r] = remaining[r]
    BY <1>1, <1>3, <2>1 DEF AddOrder, IInv, TypeOK
  <2> QED BY <1>1, <2>2
<1>4. CASE CrossBook
  BY <1>2, <1>4, CrossBookEffect
<1>5. CASE ~CrossBook
  BY <1>2, <1>3, <1>5, Zenon DEF Next, LockedStep, CancelOrder, MatchOrders, SkipStale, Rest, vars
<1> QED BY <1>4, <1>5

\* The heaps keep price-time priority: add_order trades with the resting order of
\* the best price, of those with the earliest, and never with a cancelled one.
THEOREM KeepsPriceTimePriority == Spec => PriceTimePriority
<1> DEFINE Prior(r) ==
      /\ r \notin cancelled
      /\ \A x \in IF r \in Buys THEN bids ELSE asks :
           Live(x) => /\ IF r \in Buys THEN Price[x] <= Price[r] ELSE Price[x] >= Price[r]
                      /\ Price[x] = Price[r] => seq[x] >= seq[r]
<1>1. ASSUME IInv, [Next]_vars, NEW r \in bids \cup asks, remaining'[r] < remaining[r]
      PROVE  Prior(r)
  <2>1. PICK o \in Orders : MatchTop(o)
    BY <1>1, OnlyMatchTopReduces
  <2>m. PICK b \in Buys, s \in Sells, q \in Nat \ {0}, top \in Opposite(o) : Matched(o, b, s, q, top)
    BY <1>1, <2>1, MatchTopEffect
  <2>2. /\ {b, s} = {o, top} /\ o \in adding
        /\ IsTop(top, Opposite(o)) /\ Live(top)
        /\ q <= remaining[b] /\ q <= remaining[s]
        /\ Reduce(b, s, q) /\ Emit(b, s, q, Price[top])
    BY <2>m DEF Matched
  <2>3. /\ bids \subseteq Buys /\ asks \subseteq Sells /\ Buys \subseteq Orders
        /\ Price \in [Orders -> Nat] /\ seq \in [Orders -> Nat] /\ remaining \in [Orders -> Nat]
    BY <1>1, OrdersAssumption DEF IInv, TypeOK
  <2>4. r \in {b, s}
    <3>1. r \in Orders /\ Price[top] \in Nat
      BY <2>2, <2>3 DEF Opposite, Sells
    <3>2. \A x \in Orders \ {b, s} : remaining'[x] = remaining[x]
      BY <1>1, <2>2, <3>1, MatchEffect DEF IInv
    <3>3. remaining[r] \in Nat
      BY <2>3, <3>1
    <3> QED BY <1>1, <3>1, <3>2, <3>3
  <2>5. r = top
    BY <1>1, <2>2, <2>4 DEF IInv, OneHolder
  <2>6. CASE r \in Buys
    <3>1. Opposite(o) = bids
      BY <2>2, <2>3, <2>5, <2>6 DEF Opposite, Sells
    <3>2. \A x \in bids : Price[r] >= Price[x] /\ (Price[r] = Price[x] => seq[r] <= seq[x])
      BY <1>1, <2>2, <2>5, <3>1, TopBid DEF IInv
    <3>3. \A x \in bids : Price[x] \in Nat /\ seq[x] \in Nat
      BY <2>3
    <3>4. Price[r] \in Nat /\ seq[r] \in Nat
      BY <2>3, <2>6
    <3> QED BY <2>2, <2>5, <2>6, <3>2, <3>3, <3>4 DEF Live
  <2>7. CASE r \notin Buys
    <3>1. Opposite(o) = asks
      BY <2>2, <2>3, <2>5, <2>7 DEF Opposite
    <3>2. \A x \in asks : Price[r] <= Price[x] /\ (Price[r] = Price[x] => seq[r] <= seq[x])
      BY <1>1, <2>2, <2>5, <3>1, TopAsk DEF IInv
    <3>3. \A x \in asks : Price[x] \in Nat /\ seq[x] \in Nat
      BY <2>3 DEF Sells
    <3>4. Price[r] \in Nat /\ seq[r] \in Nat
      BY <2>2, <2>5, <3>1, <3>3
    <3> QED BY <2>2, <2>5, <2>7, <3>2, <3>3, <3>4 DEF Live
  <2> QED BY <2>6, <2>7
<1>2. IInv /\ [Next]_vars =>
        [\A r \in bids \cup asks : remaining'[r] < remaining[r] => Prior(r)]_vars
  BY <1>1
<1> QED BY <1>2, Inductive, PTL DEF Spec, PriceTimePriority

\* What is reported of an order and what remains of it never grow together, so
\* that a fill that was lost stays lost.
LEMMA LostStaysLost ==
  ASSUME IInv, [Next]_vars, EveryMatchIsReported' PROVE EveryMatchIsReported
<1>1. SUFFICES ASSUME NEW x \in Orders, seq[x] > 0
               PROVE  reported[x] + remaining[x] = Qty[x]
  BY DEF EveryMatchIsReported
<1>2. /\ reported[x] \in Nat /\ remaining[x] \in Nat /\ Qty[x] \in Nat
      /\ reported[x] + remaining[x] <= Qty[x]
  BY <1>1, OrdersAssumption DEF IInv, TypeOK, ReportedAtMost
<1>3. CASE /\ seq'[x] = seq[x]
           /\ reported'[x] \in Nat /\ remaining'[x] \in Nat
           /\ reported'[x] + remaining'[x] <= reported[x] + remaining[x]
  BY <1>1, <1>2, <1>3 DEF EveryMatchIsReported
<1>4. CASE /\ seq'[x] = seq[x] /\ reported'[x] = reported[x] /\ remaining'[x] = remaining[x]
  BY <1>2, <1>3, <1>4
<1>5. ASSUME NEW o \in Orders, AddOrder(o) PROVE reported[x] + remaining[x] = Qty[x]
  <2>1. x # o
    BY <1>1, <1>5 DEF AddOrder
  <2>2. seq'[x] = seq[x] /\ reported'[x] = reported[x] /\ remaining'[x] = remaining[x]
    BY <1>1, <1>5, <2>1 DEF AddOrder, IInv, TypeOK, fills
  <2> QED BY <1>4, <2>2
<1>6. ASSUME NEW o \in Orders, MatchTop(o) PROVE reported[x] + remaining[x] = Qty[x]
  <2>m. PICK b \in Buys, s \in Sells, q \in Nat \ {0}, r \in Opposite(o) : Matched(o, b, s, q, r)
    BY <1>6, MatchTopEffect
  <2>1. /\ q <= remaining[b] /\ q <= remaining[s]
        /\ Reduce(b, s, q) /\ Emit(b, s, q, Price[r])
        /\ UNCHANGED seq
    BY <2>m DEF Matched
  <2>2. Price[r] \in Nat
    BY OrdersAssumption DEF IInv, TypeOK, Opposite, Sells
  <2>3. /\ reported'[x] + remaining'[x] <= reported[x] + remaining[x]
        /\ reported' \in [Orders -> Nat] /\ remaining' \in [Orders -> Nat]
    BY <1>1, <2>1, <2>2, MatchReduces, MatchEffect DEF IInv
  <2> QED BY <1>1, <1>3, <2>1, <2>3
<1>7. CASE CrossBook
  BY <1>4, <1>7, CrossBookEffect
<1>8. CASE \/ \E o \in Orders : SkipStale(o) \/ Rest(o) \/ CancelOrder(o)
           \/ MatchOrders
           \/ UNCHANGED vars
  BY <1>4, <1>8, Zenon DEF SkipStale, Rest, CancelOrder, MatchOrders, vars, fills
<1> QED BY <1>5, <1>6, <1>7, <1>8 DEF Next, LockedStep

\* A match whose fills were emitted pops the resting order only when nothing
\* remains of it.
LEMMA MatchTopRests ==
  ASSUME IInv, EveryMatchIsReported, EveryMatchIsReported',
         \A x \in Orders : Live(x) => x \in bids \cup asks \cup adding,
         NEW o \in Orders, MatchTop(o),
         NEW x \in Orders, Live(x)'
  PROVE  x \in bids' \cup asks' \cup adding'
<1>m. PICK b \in Buys, s \in Sells, q \in Nat \ {0}, r \in Opposite(o) : Matched(o, b, s, q, r)
  BY MatchTopEffect
<1>1. /\ {b, s} = {o, r} /\ r # o /\ o \in adding
      /\ q <= remaining[b] /\ q <= remaining[s]
      /\ Reduce(b, s, q) /\ Emit(b, s, q, Price[r])
      /\ bids' = IF remaining[r] = q THEN Popped(bids, r) ELSE bids
      /\ asks' = IF remaining[r] = q THEN Popped(asks, r) ELSE asks
      /\ adding' = IF Price[r] = 0 THEN {} ELSE adding
      /\ UNCHANGED <<sequence, seq, cancelled, crossing>>
  BY <1>m DEF Matched
<1>2. /\ b \in Orders /\ s \in Orders /\ r \in Orders /\ Price[r] \in Nat
      /\ remaining[b] \in Nat /\ remaining[s] \in Nat /\ remaining[x] \in Nat
      /\ reported[b] \in Nat /\ Qty[b] \in Nat
  BY <1>1, OrdersAssumption DEF IInv, TypeOK, Sells
<1>3. /\ remaining'[b] = remaining[b] - q /\ remaining'[s] = remaining[s] - q
      /\ \A y \in Orders \ {b, s} : remaining'[y] = remaining[y]
      /\ Price[r] = 0 => reported'[b] = reported[b]
  BY <1>1, <1>2, MatchEffect DEF IInv
<1>4. Price[r] # 0
  <2>1. SUFFICES ASSUME Price[r] = 0 PROVE FALSE
    OBVIOUS
  <2>2. seq[b] > 0
    BY <1>1 DEF IInv, Numbered, Opposite
  <2>3. reported[b] + remaining[b] = Qty[b] /\ reported[b] + (remaining[b] - q) = Qty[b]
    BY <1>1, <1>2, <1>3, <2>1, <2>2 DEF EveryMatchIsReported
  <2> QED BY <1>2, <2>3
<1>5. x \notin cancelled /\ remaining'[x] > 0
  BY <1>1 DEF Live
<1>6. remaining[x] > 0
  BY <1>1, <1>2, <1>3, <1>5
<1>7. x \in bids \cup asks \cup adding
  BY <1>5, <1>6 DEF Live
<1>8. x = r => remaining[r] # q
  BY <1>1, <1>2, <1>3, <1>5
<1> QED BY <1>1, <1>4, <1>7, <1>8 DEF Popped

\* As long as no match was aborted by its fill's constructor, what remains of an
\* order that add_order accepted is on the book, or still in its matching loop.
THEOREM RemaindersRest == Spec => []RemainderRests
<1> DEFINE Held == \A x \in Orders : Live(x) => x \in bids \cup asks \cup adding
<1>1. Init => RemainderRests
  BY DEF Init, RemainderRests, Live
<1>2. IInv /\ RemainderRests /\ [Next]_vars => RemainderRests'
  <2>1. SUFFICES ASSUME IInv, EveryMatchIsReported, EveryMatchIsReported', Held, [Next]_vars,
                        NEW x \in Orders, Live(x)'
                 PROVE  x \in bids' \cup asks' \cup adding'
    BY LostStaysLost DEF RemainderRests
  <2>2. ASSUME NEW o \in Orders, AddOrder(o) PROVE x \in bids' \cup asks' \cup adding'
    <3>1. CASE x = o
      BY <2>2, <3>1 DEF AddOrder
    <3>2. CASE x # o
      <4>1. Live(x)
        BY <2>1, <2>2, <3>2 DEF AddOrder, Live, IInv, TypeOK
      <4> QED BY <2>1, <2>2, <4>1 DEF AddOrder, Free
    <3> QED BY <3>1, <3>2
  <2>3. ASSUME NEW o \in Orders, SkipStale(o) PROVE x \in bids' \cup asks' \cup adding'
    <3>1. Live(x)
      BY <2>1, <2>3 DEF SkipStale, Live
    <3> QED BY <2>1, <2>3, <3>1 DEF SkipStale, Popped
  <2>4. ASSUME NEW o \in Orders, MatchTop(o) PROVE x \in bids' \cup asks' \cup adding'
    BY <2>1, <2>4, MatchTopRests, Zenon
  <2>5. ASSUME NEW o \in Orders, Rest(o) PROVE x \in bids' \cup asks' \cup adding'
    <3>1. Live(x) /\ remaining[x] > 0
      BY <2>1, <2>5 DEF Rest, Live
    <3>2. x = o \/ x \notin adding
      BY <2>1, <2>5 DEF Rest, IInv, OneHolder
    <3> QED BY <2>1, <2>5, <3>1, <3>2 DEF Rest
  <2>6. ASSUME NEW o \in Orders, CancelOrder(o) PROVE x \in bids' \cup asks' \cup adding'
    BY <2>1, <2>6 DEF CancelOrder, Live
  <2>7. CASE MatchOrders
    BY <2>1, <2>7 DEF MatchOrders, Live
  <2>8. CASE CrossBook
    <3>1. Live(x)
      BY <2>1, <2>8, CrossBookEffect DEF Live
    <3> QED BY <2>1, <2>8, <3>1, CrossBookEffect
  <2>9. CASE UNCHANGED vars
    BY <2>1, <2>9 DEF vars, Live
  <2> QED BY <2>1, <2>2, <2>3, <2>4, <2>5, <2>6, <2>7, <2>8, <2>9 DEF Next, LockedStep
<1> QED BY <1>1, <1>2, Inductive, PTL DEF Spec
=============================================================================
