--------------------------- MODULE MarketDataRules ---------------------------
(***************************************************************************)
(* The rules a market data record has to pass: IDXOHLCVValidator for end   *)
(* of day bars, IDXFundamentalsValidator, and the checks that              *)
(* ValidationConsumer makes on intraday bars itself.  Prices are integers, *)
(* in tenths of a rupiah.                                                  *)
(*                                                                         *)
(* A record has a kind, a defect that keeps it from being read ("none",    *)
(* "caught" by the parser or "uncaught"), and the fields its rules look at.*)
(***************************************************************************)
EXTENDS Integers

Kinds == {"eod", "fundamentals", "intraday"}

Abs(n) == IF n < 0 THEN -n ELSE n

\* round() of a Decimal quotient: to the nearest integer, ties to the even one.
RoundHalfEven(n, d) ==
  LET q == n \div d
      r == n % d
  IN IF 2 * r > d \/ (2 * r = d /\ q % 2 = 1) THEN q + 1 ELSE q

\* The price tiers and their ticks, both ends included.
Tiers ==
  { [low |->     0, high |->   1990, tick |->  10],
    [low |->  2000, high |->   4990, tick |->  20],
    [low |->  5000, high |->  19990, tick |->  50],
    [low |-> 20000, high |->  49990, tick |-> 100],
    [low |-> 50000, high |-> 999990, tick |-> 250] }

DefaultTick == 250

\* The tick of a price; one between two tiers or above them has the default.
TickSize(price) ==
  LET tiers == {t \in Tiers : t.low <= price /\ price <= t.high}
  IN IF tiers = {} THEN DefaultTick ELSE (CHOOSE t \in tiers : TRUE).tick

OnGrid(price) == price % TickSize(price) = 0

\* Rule 4: the close on the grid of the tier it came from.
Adjusted(price) == RoundHalfEven(price, TickSize(price)) * TickSize(price)

\* Rules 1, 2, 3 and 5 of IDXOHLCVValidator for a bar with this close.  A prev of
\* 0 is a bar without a previous close.
BarPasses(bar, close) ==
  /\ bar.high >= bar.open /\ bar.high >= close /\ bar.high >= bar.low
  /\ bar.low <= bar.open /\ bar.low <= close
  /\ bar.open > 0 /\ bar.high > 0 /\ bar.low > 0 /\ close > 0
  /\ bar.prev > 0 => 100 * Abs(close - bar.prev) <= 35 * bar.prev
  /\ bar.volume >= 0
  /\ bar.tradingDay

\* IDXFundamentalsValidator.
StatementPasses(s) ==
  /\ s.assets # "not positive"
  /\ s.period \in {"missing", "past"}

\* ValidationConsumer._validate_intraday_bar.
TickerPasses(bar) ==
  /\ bar.named /\ bar.stamped
  /\ ~(bar.high < bar.low /\ bar.high > 0)
  /\ \A price \in {bar.open, bar.high, bar.low, bar.close} : price >= 0
  /\ bar.volume >= 0

\* A KeyError or ValueError in the parser of bars is a failed rule; any other
\* exception, and any exception in the other two, leaves the validator.
Verdict(r) ==
  IF r.defect = "uncaught" THEN "raises"
  ELSE IF \/ r.defect = "caught"
          \/ r.kind = "eod" /\ ~BarPasses(r, r.close)
          \/ r.kind = "fundamentals" /\ ~StatementPasses(r)
          \/ r.kind = "intraday" /\ ~TickerPasses(r)
       THEN "invalid"
       ELSE "valid"
=============================================================================
