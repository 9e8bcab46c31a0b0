-------------------------- MODULE PositionStrategy --------------------------
(***************************************************************************)
(* What the watching loop of abstract.trading.ts decides from prices: the  *)
(* arithmetic of trading-math.ts, the buy-back ladder, the trailing target *)
(* of _onPriceTracker, and the profit that order.repository.ts computes in *)
(* SQL when the session ends.  One session of one bot, from its entry to   *)
(* its end, with crashes in between.  TradeSession has the faults between  *)
(* the steps of a single order; here an order is placed, executed in whole *)
(* or in part, and saved in one step.                                      *)
(*                                                                         *)
(* Numbers are exact: a percentage is a number of 1/Unit, and a comparison *)
(* of quotients is multiplied out.  Quantities are whole lots.             *)
(***************************************************************************)
EXTENDS Integers, Sequences, Folds, SequencesExt

CONSTANTS
    Configs,      \* the bot configurations to try
    Prices,       \* prices the exchange may quote
    Unit,         \* one hundred percent
    Quote, Base,  \* free balances before the session
    MaxOrders,    \* bound: orders of the list when a buy-back opens another
    MaxRestarts   \* bound: starts of the process after the first

Config == [positionSize : Nat \ {0}, percentProfit : 0..Unit, stopLoss : 0..Unit,
           percentBuyBackStep : 0..Unit, percentFromBalance : 1..Unit, isFibonacci : BOOLEAN,
           isPercentTargetAfterTakeProfit : BOOLEAN, percentTargetAfterTakeProfit : 0..Unit,
           isCapitalizeDeltaFromSale : BOOLEAN]

ASSUME ConfigsAssumption == Configs \subseteq Config /\ Prices \subseteq Nat \ {0}
ASSUME NumbersAssumption == Unit \in Nat \ {0} /\ {Quote, Base, MaxOrders, MaxRestarts} \subseteq Nat

VARIABLES
    config,    \* the configuration
    free,      \* the exchange's free balance of the two currencies
    mem,       \* orders of OrdersOperationService: price and amount as ordered
    rows,      \* trade_operation of the session: price and amount as executed
    options,   \* drawdownStep and buyingBack of _watchingProcess, and its price
    lastPrice, \* the price this iteration read
    target,    \* reversePriceIndent, targetTakeProfit, targetStopProfit, times Unit
    pc,
    booked,    \* profit_session and the delta added to it, once the session ended
    restarts

vars == <<config, free, mem, rows, options, lastPrice, target, pc, booked, restarts>>

NoTarget == [indent |-> 0, take |-> 0, stop |-> 0]
Sides == {"buy", "sell"}
Opposite(side) == IF side = "buy" THEN "sell" ELSE "buy"
Order == [side : Sides, price : Nat \ {0}, amount : Nat \ {0}]
SumOver(seq, f(_)) == FoldLeft(LAMBDA n, o : n + f(o), 0, seq)
Amount(seq) == SumOver(seq, LAMBDA o : o.amount)
Value(seq) == SumOver(seq, LAMBDA o : o.price * o.amount)
Net(seq) == SumOver(seq, LAMBDA o : IF o.side = "buy" THEN o.amount ELSE -o.amount)
Covered(seq) == (\E o \in Range(seq) : o.side # seq[1].side) /\ Net(seq) = 0

-----------------------------------------------------------------------------
(* trading-math.ts.  An average entry price is the value by the amount.    *)

ResolvePositionSide(orders) == orders[1].side

\* Amount and value of the orders on the position's side.
IsEntry(orders, o) == o.side = ResolvePositionSide(orders)
EntryAmount(orders) == SumOver(orders, LAMBDA o : IF IsEntry(orders, o) THEN o.amount ELSE 0)
EntryValue(orders) ==
    SumOver(orders, LAMBDA o : IF IsEntry(orders, o) THEN o.price * o.amount ELSE 0)

\* As if a short position gained when the price rises.
PnlMutant(orders, price) == price * EntryAmount(orders) - EntryValue(orders)

\* positionPnl; pnlPerUnit is Pnl / Amount and pnlRatio is Pnl / Value.
Pnl(orders, price) ==
    LET gain == price * EntryAmount(orders) - EntryValue(orders)
    IN IF ResolvePositionSide(orders) = "buy" THEN gain ELSE -gain

PnlRatioAtLeast(orders, price, percent) ==
    Unit * Pnl(orders, price) >= percent * EntryValue(orders)
PnlRatioAtMost(orders, price, percent) ==
    Unit * Pnl(orders, price) <= percent * EntryValue(orders)

\* calculateBuyBackAmount, as a percentage of the average entry price.
BuyBackPercent == config.percentBuyBackStep * options.step

\* As if a purchase were paid for with its amount.
RequiredMutant(side, price, amount) == amount

Required(side, price, amount) == IF side = "buy" THEN price * amount ELSE amount
Available(side) == IF side = "buy" THEN free.quote ELSE free.base

\* The amount of calculateBuyBackOrderAmount, in whole lots.
BuyBackLots(side, price) ==
    IF config.isFibonacci THEN config.positionSize * options.step
    ELSE (Available(side) * config.percentFromBalance) \div (Unit * Required(side, price, 1))

\* calculateBuyBackOrderAmount returns more than zero.
BuyBackIsPossible(side, price) ==
    /\ Available(side) > 0
    /\ Required(side, price, BuyBackLots(side, price)) <= Available(side)

-----------------------------------------------------------------------------
(* The exchange: every request for the price may find another one, and a   *)
(* limit order executes at its price or a better one.                      *)

Better(side, price) == {p \in Prices : IF side = "buy" THEN p <= price ELSE p >= price}

\* What an execution does to the account.
Executed(o) ==
    free' = IF o.side = "buy"
            THEN [quote |-> free.quote - o.price * o.amount, base |-> free.base + o.amount]
            ELSE [quote |-> free.quote + o.price * o.amount, base |-> free.base - o.amount]

\* openPositionForStrategy: the row has what was executed, the list what was ordered.
OpenPosition(side, price, amount) ==
    /\ Required(side, price, amount) <= Available(side)
    /\ amount > 0
    /\ \E p \in Better(side, price), q \in 1..amount :
         LET done == [side |-> side, price |-> p, amount |-> q]
         IN Executed(done) /\ rows' = Append(rows, done)
    /\ mem' = Append(mem, [side |-> side, price |-> price, amount |-> amount])

\* createOrder throws, and the process ends.
Refused(side, price, amount) ==
    /\ \/ Required(side, price, amount) > Available(side) /\ pc' = "unfunded"
       \/ amount = 0 /\ pc' = "too small"
    /\ UNCHANGED <<free, mem, rows>>

ClosingAmount == IF Net(rows) > 0 THEN Net(rows) ELSE -Net(rows)
ClosingSide == IF Net(rows) > 0 THEN "sell" ELSE "buy"
ClosingPrices ==
    LET limits == {l \in Prices : Required(ClosingSide, l, ClosingAmount) <= Available(ClosingSide)}
    IN UNION {Better(ClosingSide, l) : l \in limits}
\* Executed in whole or in part, at a limit that is the price of the moment: what is left
\* after a minute is canceled, and any execution is an order to return.  Without the funds
\* for it, or any execution, it throws: Crash and TrackerFails.
CloseFilledPosition ==
    \E p \in ClosingPrices, q \in 1..ClosingAmount :
        LET done == [side |-> ClosingSide, price |-> p, amount |-> q]
        IN Executed(done) /\ rows' = Append(rows, done)

-----------------------------------------------------------------------------
(* The end of the session.                                                 *)

\* As if the formula for a closed long were used for every session.
GetProfitForTradeSessionMutant(orders) == Amount(orders) * Last(orders).price - Value(orders)

\* The closing order is the last one; its own share of the two sums cancels out.
GetProfitForTradeSession(orders) ==
    LET gain == Amount(orders) * Last(orders).price - Value(orders)
    IN IF Last(orders).side = "sell" THEN gain ELSE -gain

\* _getDeltaForSale, times the last price.
DeltaForSale ==
    IF ResolvePositionSide(mem) = "sell" /\ config.isCapitalizeDeltaFromSale
    THEN Value(mem) - options.buyingBack * options.price ELSE 0

EndTradeSession(delta) ==
    /\ booked' = <<[profit |-> GetProfitForTradeSession(rows'), delta |-> delta]>>
    /\ mem' = <<>>
    /\ pc' = "ended"

\* Whatever part of the position the closing order has closed.
CloseAndEnd ==
    /\ CloseFilledPosition
    /\ EndTradeSession(DeltaForSale)
    /\ lastPrice' = 0
    /\ target' = NoTarget
    /\ UNCHANGED <<config, options, restarts>>

-----------------------------------------------------------------------------
(* The loop.                                                               *)

OpenFirstPosition(side, price) ==
    /\ pc = "enter"
    /\ \/ OpenPosition(side, price, config.positionSize) /\ pc' = "watch"
       \/ Refused(side, price, config.positionSize)
    /\ options' = [step |-> 1, buyingBack |-> config.positionSize, price |-> price]
    /\ UNCHANGED <<config, lastPrice, target, booked, restarts>>

ReadPrice(price) ==
    /\ pc = "watch"
    /\ lastPrice' = price
    /\ pc' = "decide"
    /\ UNCHANGED <<config, free, mem, rows, options, target, booked, restarts>>

StopLossHit == config.stopLoss > 0 /\ PnlRatioAtMost(mem, lastPrice, -config.stopLoss)
ProfitHit == PnlRatioAtLeast(mem, lastPrice, config.percentProfit)
BuyBackHit ==
    /\ config.percentBuyBackStep > 0
    /\ PnlRatioAtMost(mem, lastPrice, -BuyBackPercent)

\* isEmergencyStop, which _reloadConfig may bring in any iteration.
EmergencyStop == pc = "decide" /\ CloseAndEnd

\* The close asks for the price again.
StopLoss == pc = "decide" /\ StopLossHit /\ CloseAndEnd

TakeProfit ==
    /\ pc = "decide" /\ ~StopLossHit /\ ProfitHit
    /\ ~config.isPercentTargetAfterTakeProfit
    /\ CloseAndEnd

StartTracker ==
    /\ pc = "decide" /\ ~StopLossHit /\ ProfitHit
    /\ config.isPercentTargetAfterTakeProfit
    /\ pc' = "profit"
    /\ lastPrice' = 0
    /\ UNCHANGED <<config, free, mem, rows, options, target, booked, restarts>>

BuyBack ==
    /\ pc = "decide" /\ ~StopLossHit /\ ~ProfitHit /\ BuyBackHit
    /\ Len(mem) < MaxOrders
    /\ LET side == ResolvePositionSide(mem)
           amount == BuyBackLots(side, lastPrice)
       IN /\ BuyBackIsPossible(side, lastPrice)
          /\ \/ /\ OpenPosition(side, lastPrice, amount)
                /\ options' = [options EXCEPT !.step = @ + 1, !.buyingBack = @ + amount]
                /\ pc' = "watch"
             \/ /\ Refused(side, lastPrice, amount)
                /\ UNCHANGED options
    /\ lastPrice' = 0
    /\ UNCHANGED <<config, target, booked, restarts>>

Sleep ==
    /\ pc = "decide" /\ ~StopLossHit /\ ~ProfitHit
    /\ ~BuyBackHit \/ ~BuyBackIsPossible(ResolvePositionSide(mem), lastPrice)
    /\ pc' = "watch"
    /\ lastPrice' = 0
    /\ UNCHANGED <<config, free, mem, rows, options, target, booked, restarts>>

-----------------------------------------------------------------------------
(* _onPriceTracker, whose side is the closing one.                         *)

CalculateTarget(side, price, indent) ==
    LET sign == IF side = "sell" THEN 1 ELSE -1
    IN [indent |-> indent, take |-> Unit * price + sign * indent, stop |-> Unit * price - sign * indent]

ClosesAs == Opposite(ResolvePositionSide(mem))
StopReached(p) == IF ClosesAs = "sell" THEN Unit * p <= target.stop ELSE Unit * p >= target.stop
TakeReached(p) == IF ClosesAs = "sell" THEN Unit * p >= target.take ELSE Unit * p <= target.take

\* The tracker starts from a price of its own, not from the one that made the profit.
OnPriceTracker(price) ==
    /\ pc = "profit"
    /\ target' = CalculateTarget(ClosesAs, price, price * config.percentTargetAfterTakeProfit)
    /\ pc' = "track"
    /\ UNCHANGED <<config, free, mem, rows, options, lastPrice, booked, restarts>>

TrackerStops == pc = "track" /\ {p \in Prices : StopReached(p)} # {} /\ CloseAndEnd

TrackerMoves(price) ==
    /\ pc = "track" /\ ~StopReached(price) /\ TakeReached(price)
    /\ target' = CalculateTarget(ClosesAs, price, target.indent)
    /\ UNCHANGED <<config, free, mem, rows, options, lastPrice, pc, booked, restarts>>

\* A read fails: the tracker returns false, and the loop goes on without its targets.
TrackerFails ==
    /\ pc = "track"
    /\ pc' = "watch"
    /\ target' = NoTarget
    /\ UNCHANGED <<config, free, mem, rows, options, lastPrice, booked, restarts>>

-----------------------------------------------------------------------------
(* The end of the process and its next start.                              *)

Running == {"watch", "decide", "profit", "track"}

Crash ==
    /\ pc \in Running
    /\ pc' = "down"
    /\ mem' = <<>>
    /\ lastPrice' = 0
    /\ target' = NoTarget
    /\ UNCHANGED <<config, free, rows, options, booked, restarts>>

\* endAlgorithms closes the position, or a part of it, and leaves the session active.
EndAlgorithms ==
    /\ pc \in Running
    /\ CloseFilledPosition
    /\ pc' = "down"
    /\ mem' = <<>>
    /\ lastPrice' = 0
    /\ target' = NoTarget
    /\ UNCHANGED <<config, options, booked, restarts>>

\* As if the ladder began again at its first step.
CheckingExistingOrdersMutant ==
    /\ mem' = rows
    /\ options' = [step |-> 1, buyingBack |-> Amount(rows), price |-> rows[1].price]
    /\ pc' = "watch"
    /\ UNCHANGED booked

\* A session with exposure is resumed with the rows for its list, the closing ones too.
CheckingExistingOrders ==
    /\ mem' = rows
    /\ options' = [step |-> Len(rows), buyingBack |-> Amount(rows), price |-> rows[1].price]
    /\ pc' = "watch"
    /\ UNCHANGED booked

Restart ==
    /\ pc \in {"down", "too small", "unfunded"}
    /\ rows # <<>>
    /\ restarts < MaxRestarts
    /\ restarts' = restarts + 1
    /\ \/ Covered(rows) /\ rows' = rows /\ EndTradeSession(0) /\ UNCHANGED options
       \/ ~Covered(rows) /\ UNCHANGED rows /\ CheckingExistingOrders
    /\ UNCHANGED <<config, free, lastPrice, target>>

-----------------------------------------------------------------------------
Init ==
    /\ config \in Configs
    /\ free = [quote |-> Quote, base |-> Base]
    /\ mem = <<>>
    /\ rows = <<>>
    /\ options = [step |-> 0, buyingBack |-> 0, price |-> 0]
    /\ lastPrice = 0
    /\ target = NoTarget
    /\ pc = "enter"
    /\ booked = <<>>
    /\ restarts = 0

Next ==
    \/ \E p \in Prices : \/ \E side \in Sides : OpenFirstPosition(side, p)
                          \/ ReadPrice(p) \/ OnPriceTracker(p) \/ TrackerMoves(p)
    \/ EmergencyStop \/ StopLoss \/ TakeProfit \/ StartTracker \/ BuyBack \/ Sleep
    \/ TrackerStops \/ TrackerFails
    \/ Crash \/ EndAlgorithms \/ Restart

Spec == Init /\ [][Next]_vars

-----------------------------------------------------------------------------
\* Types; the free balances stay natural numbers, so no order spent what was not there.
TypeOK ==
    /\ config \in Configs
    /\ free \in [quote : Nat, base : Nat]
    /\ mem \in Seq(Order) /\ rows \in Seq(Order)
    /\ options \in [step : Nat, buyingBack : Nat, price : Nat]
    /\ lastPrice \in Prices \cup {0}
    /\ target \in [indent : Nat, take : Int, stop : Int]
    /\ pc \in Running \cup {"enter", "unfunded", "too small", "down", "ended"}
    /\ booked = <<>> \/ booked \in [{1} -> [profit : Int, delta : Int]]
    /\ restarts \in 0..MaxRestarts

\* One order of the session, the last, is on the closing side.
ClosedOnce == \A i \in 1..(Len(rows) - 1) : rows[i].side = rows[1].side

\* The profit that the SQL of getProfitForTradeSession books for a session that one order
\* closed is what the account gained, what is left of the position at the closing price:
\* the change of the quote balance when the position was closed whole, and the rest of it
\* as if it had been sold too when the closing order was executed in part and the session
\* ended with the rest outside it.  This holds whatever the entries' prices, their partial
\* fills, the side, and the path to the end: the loop, or a closed position that the next
\* start finds.  No path trades through the position to the other side, and only a session
\* with more than an entry and its close adds a delta of sales to its profit.
BookedIsRealised ==
    booked # <<>> =>
        /\ ClosedOnce =>
              booked[1].profit = (free.quote - Quote) + Last(rows).price * (free.base - Base)
        /\ IF rows[1].side = "buy" THEN free.base >= Base ELSE free.base <= Base
        /\ booked[1].delta = 0 \/ Len(rows) > 2

\* Every order of the list was executed whole and at its own price.
Exact == mem = rows

\* While every entry so far was executed whole and at its own price, a crash now would
\* change nothing: the ladder's step, the amount bought back and the first price that the
\* next start reads from SQLite are the ones the loop holds.
RestartKeepsLadder ==
    pc \in Running /\ Exact =>
        options = [step |-> Len(rows), buyingBack |-> Amount(rows), price |-> rows[1].price]

\* While every entry so far was executed whole and at its own price, a buy-back, executed
\* as it may, improves the average entry price of the position: lower for a long, higher
\* for a short, in every step of the ladder, after a restart and after a partial close.
\* The loop averages the prices it ordered at, so of other entries this is not said.
AveragesTowardsMarket ==
    [][pc = "decide" /\ Len(rows') = Len(rows) + 1 /\ pc' = "watch" /\ Exact =>
          LET was == EntryValue(rows) * EntryAmount(rows')
              is == EntryValue(rows') * EntryAmount(rows)
          IN IF rows[1].side = "buy" THEN is < was ELSE is > was]_vars

=============================================================================
