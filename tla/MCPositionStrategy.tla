------------------------ MODULE MCPositionStrategy ------------------------
(* PositionStrategy for TLC.                                               *)
EXTENDS PositionStrategy

Trailing ==
    [positionSize |-> 2, percentProfit |-> 2, stopLoss |-> 0, percentBuyBackStep |-> 1,
     percentFromBalance |-> 5, isFibonacci |-> FALSE, isPercentTargetAfterTakeProfit |-> TRUE,
     percentTargetAfterTakeProfit |-> 1, isCapitalizeDeltaFromSale |-> FALSE]

Fibonacci ==
    [Trailing EXCEPT !.isFibonacci = TRUE, !.isPercentTargetAfterTakeProfit = FALSE,
                     !.stopLoss = 4, !.isCapitalizeDeltaFromSale = TRUE]

\* A position that the account cannot always pay for.
Large == [Fibonacci EXCEPT !.positionSize = 7, !.stopLoss = 1]

MCConfigs == {Trailing, Fibonacci, Large}
MCPrices == {5, 6, 8, 10}
=============================================================================
