---------------------------- MODULE TradeSession ----------------------------
(***************************************************************************)
(* One bot's trading process: the watching loop of abstract.trading.ts,    *)
(* order execution in OrdersOperationService.ts, the sessions and orders   *)
(* it keeps in SQLite, and the exchange it trades on.                      *)
(*                                                                         *)
(* Node runs one continuation at a time, so two threads share the process: *)
(* "main" is worker()'s loop, "stop" is stopWorker(true).  Every await is  *)
(* a point where the other one, the exchange or a crash may come first.    *)
(* Prices decide the side of the entry; what an iteration of the loop      *)
(* decides from them is a choice.  Quantities are small integers.          *)
(***************************************************************************)
EXTENDS Integers, Sequences, FiniteSets, FiniteSetsExt, SequencesExt

CONSTANTS
    Prices,       \* prices and candle limits the exchange may report
    IsOnlyBuy,    \* isOnlyBuy of the configuration
    Size,         \* quantity of an entry or buy-back order
    MaxOrders,    \* bound: orders the exchange accepts
    MaxSessions,  \* bound: rows of trade_session
    MaxStarts,    \* bound: times the process is started
    MaxFaults     \* bound: crashes, lost answers, failed reads and writes

ASSUME PricesAssumption == Prices \subseteq Nat /\ Prices # {} /\ IsOnlyBuy \in BOOLEAN
ASSUME SizeAssumption == Size \in Nat \ {0}
ASSUME BoundsAssumption == {MaxOrders, MaxSessions, MaxStarts, MaxFaults} \subseteq Nat

VARIABLES
    book,       \* the exchange: every order of this bot, by id
    sessions,   \* SQLite trade_session: "active" or "ended", by index_session
    rows,       \* SQLite trade_operation: the orders of each session, in insertion order
    alive,      \* the process runs
    stopping,   \* isStopping of worker.ts
    mem,        \* OrdersOperationService.orders
    sess,       \* _indexOperation; 0 while undefined
    th,         \* where the two threads are, with their local variables
    starts, faults,
    lost,       \* history: orders whose outcome a fault or an exit hid
    overlap     \* history: both threads once worked on orders, or on the list, at a time,
                \* or a close went on under the index of a session that was over

vars == <<book, sessions, rows, alive, stopping, mem, sess, th,
          starts, faults, lost, overlap>>
sqlite == <<sessions, rows>>

Threads == {"main", "stop"}
Other(t) == IF t = "main" THEN "stop" ELSE "main"
Opposite(side) == IF side = "buy" THEN "sell" ELSE "buy"
Signed(side, q) == IF side = "buy" THEN q ELSE -q

Order == [side : {"buy", "sell"}, amount : Nat \ {0}, filled : Nat,
          status : {"open", "closed", "canceled"}, sess : Nat]
Row == [id : Nat \ {0}, side : {"buy", "sell"}, amount : Nat]
Held == [id : Nat \ {0}, restored : BOOLEAN]
Working == {"fetch", "price", "submit", "wait", "recheck", "save", "push"}
Steps == Working \cup {"idle", "sleep", "begin", "enter", "resume", "watch", "tracking",
                       "cancel", "end", "ending", "clear", "done", "dispose"}
Thread == [pc : Steps, why : {"none", "entry", "loss", "profit", "track", "stop"},
           ord : Nat, idx : Nat, rest : Seq(Held), live : BOOLEAN, net : Int]
Idle == [pc |-> "idle", why |-> "none", ord |-> 0, idx |-> 0,
         rest |-> <<>>, live |-> FALSE, net |-> 0]
At(pc) == [Idle EXCEPT !.pc = pc]

RowsOf(s) == rows[s]
SavedRows == UNION {Range(RowsOf(s)) : s \in DOMAIN rows}
IsSaved(o) == \E r \in SavedRows : r.id = o
OpenOrders == {o \in DOMAIN book : book[o].status = "open"}
InFlight(t) == IF th[t].pc \in {"wait", "recheck", "save"} THEN {th[t].ord} ELSE {}
Overlaps(t) == overlap' = (overlap \/ th[Other(t)].pc \in Working)
NetOf(seq) == FoldSeq(LAMBDA r, n : n + Signed(r.side, r.amount), 0, seq)

\* A net exposure of zero over at least one order of each side.
IsSessionExposureClosed(seq) ==
    /\ \E i, j \in DOMAIN seq : seq[i].side # seq[j].side
    /\ NetOf(seq) = 0

\* As if orders counted with what was ordered, not with what was executed.
ResolveExecutedAmountMutant(m, fetched) == book[m.id].amount

\* What an order contributes to the exposure: the exchange's fill; when the fetch
\* failed the stored amount, which only an order read back from SQLite has.
ResolveExecutedAmount(m, fetched) ==
    IF fetched THEN book[m.id].filled
    ELSE IF m.restored THEN (CHOOSE r \in SavedRows : r.id = m.id).amount
    ELSE 0

-----------------------------------------------------------------------------
(* The exchange.                                                           *)

Fill(o, q) ==
    /\ o \in OpenOrders
    /\ q <= book[o].amount - book[o].filled
    /\ book' = [book EXCEPT ![o].filled = @ + q,
                            ![o].status = IF book[o].filled + q = book[o].amount THEN "closed" ELSE "open"]
    /\ UNCHANGED <<sqlite, alive, stopping, mem, sess, th, starts, faults, lost, overlap>>

\* The exchange ends an order by itself: expired, rejected after acceptance.
Drop(o) ==
    /\ o \in OpenOrders
    /\ book' = [book EXCEPT ![o].status = "canceled"]
    /\ UNCHANGED <<sqlite, alive, stopping, mem, sess, th, starts, faults, lost, overlap>>

Canceled(S) == [o \in DOMAIN book |-> IF o \in S THEN [book[o] EXCEPT !.status = "canceled"] ELSE book[o]]

-----------------------------------------------------------------------------
(* How a thread fails and how the process ends.                            *)

Fault == faults < MaxFaults /\ faults' = faults + 1

Exit(L) ==
    /\ alive' = FALSE
    /\ mem' = <<>>
    /\ th' = [t \in Threads |-> Idle]
    /\ lost' = lost \cup L
    /\ stopping' = FALSE
    /\ sess' = 0

\* An exception ends the process, except inside _onPriceTracker, which catches it
\* and lets the loop go on.  L: orders this failure hides from the process.
Throw(t, L) ==
    IF th[t].why = "track"
    THEN /\ th' = [th EXCEPT ![t] = At("watch")]
         /\ lost' = lost \cup L
         /\ UNCHANGED <<alive, mem, stopping, sess>>
    ELSE Exit(L \cup InFlight(Other(t)))

\* Where a thread goes on when the order it worked on was placed (or not).
Resumed(t, placed) ==
    CASE t = "stop" -> At("dispose")
      [] t = "main" /\ th[t].why = "entry" -> At("watch")
      [] t = "main" /\ th[t].why # "entry" /\ placed -> At("end")
      [] t = "main" /\ th[t].why = "loss" /\ ~placed -> At(IF stopping THEN "done" ELSE "sleep")
      [] OTHER -> At("watch")

Start ==
    /\ ~alive
    /\ starts < MaxStarts
    /\ starts' = starts + 1
    /\ alive' = TRUE
    /\ th' = [th EXCEPT !["main"] = At("sleep")]
    /\ UNCHANGED <<book, sqlite, stopping, mem, sess, faults, lost, overlap>>

\* SIGKILL, a crash, or the suspend request: nothing is closed.
Kill ==
    /\ alive
    /\ Fault
    /\ Exit(InFlight("main") \cup InFlight("stop"))
    /\ UNCHANGED <<book, sqlite, starts, overlap>>

-----------------------------------------------------------------------------
(* Opening and ending a session.                                           *)

ActiveSessions == {s \in DOMAIN sessions : sessions[s] = "active"}
EndedSession(s) == [sessions EXCEPT ![s] = "ended"]
\* setOrders: the list becomes what SQLite has of the session.
Restored(s) == [i \in DOMAIN RowsOf(s) |-> [id |-> RowsOf(s)[i].id, restored |-> TRUE]]
\* A close in progress keeps iterating over the array it began with.
Detached == [th EXCEPT !["stop"].live = FALSE]

\* As if a session found without exposure were replaced, not ended.
InitTradeSessionMutant ==
    /\ th["main"].pc = "sleep"
    /\ \A s \in ActiveSessions :
          RowsOf(s) = <<>> \/ IsSessionExposureClosed(RowsOf(s))
    /\ th' = [th EXCEPT !["main"] = At("begin")]
    /\ UNCHANGED <<book, sqlite, sess, alive, stopping, mem, starts, faults, lost, overlap>>

\* A session whose position is covered ended while the process could not record it.
\* clearingOrderList acts on the session service's own list, which nothing else reads.
CheckingIfClosingOrderHasBeenCreated(s) ==
    /\ IsSessionExposureClosed(RowsOf(s))
    /\ sessions' = EndedSession(s)
    /\ th' = [th EXCEPT !["main"] = At("begin")]

\* setOrders of the fourth case too acts on the session service's own list.
InitTradeSession ==
    /\ th["main"].pc = "sleep"
    /\ \/ /\ ActiveSessions = {}
          /\ th' = [th EXCEPT !["main"] = At("begin")]
          /\ UNCHANGED <<sessions, sess>>
       \/ /\ ActiveSessions # {}
          /\ RowsOf(Min(ActiveSessions)) = <<>>
          /\ sessions' = EndedSession(Min(ActiveSessions))
          /\ th' = [th EXCEPT !["main"] = At("begin")]
          /\ UNCHANGED sess
       \/ /\ ActiveSessions # {}
          /\ CheckingIfClosingOrderHasBeenCreated(Min(ActiveSessions))
          /\ UNCHANGED sess
       \/ /\ ActiveSessions # {}
          /\ RowsOf(Min(ActiveSessions)) # <<>>
          /\ ~IsSessionExposureClosed(RowsOf(Min(ActiveSessions)))
          /\ sess' = Min(ActiveSessions)
          /\ th' = [th EXCEPT !["main"] = At("resume")]
          /\ UNCHANGED sessions
    /\ UNCHANGED <<book, rows, alive, stopping, mem, starts, faults, lost, overlap>>

StartSession ==
    /\ th["main"].pc = "begin"
    /\ Len(sessions) < MaxSessions
    /\ sessions' = Append(sessions, "active")
    /\ rows' = Append(rows, <<>>)
    /\ sess' = Len(sessions) + 1
    /\ th' = [th EXCEPT !["main"] = At("enter")]
    /\ UNCHANGED <<book, alive, stopping, mem, starts, faults, lost, overlap>>

CheckingExistingOrders ==
    /\ th["main"].pc = "resume"
    /\ mem' = Restored(sess)
    /\ th' = [Detached EXCEPT !["main"] = At("watch")]
    /\ Overlaps("main")
    /\ UNCHANGED <<book, sqlite, alive, stopping, sess, starts, faults, lost>>

\* calculateProfitSession wants the last order of the list in SQLite, under this session.
CalculateProfitSession ==
    /\ th["main"].pc = "end"
    /\ IF \E r \in Range(RowsOf(sess)) : r.id = Last(mem).id
       THEN /\ th' = [th EXCEPT !["main"].pc = "ending"]
            /\ UNCHANGED <<alive, mem, stopping, sess, lost>>
       ELSE Throw("main", {})
    /\ UNCHANGED <<book, sqlite, starts, faults, overlap>>

EndTradeSession ==
    /\ th["main"].pc = "ending"
    /\ sessions' = EndedSession(sess)
    /\ th' = [th EXCEPT !["main"].pc = "clear"]
    /\ UNCHANGED <<book, rows, alive, stopping, mem, sess, starts, faults, lost, overlap>>

\* As if the list of a finished session were kept.
ClearingOrderListMutant ==
    /\ th["main"].pc = "clear"
    /\ th' = [th EXCEPT !["main"] = At(IF stopping THEN "done" ELSE "sleep")]
    /\ UNCHANGED <<book, sqlite, alive, stopping, mem, sess, starts, faults, lost, overlap>>

ClearingOrderList ==
    /\ th["main"].pc = "clear"
    /\ mem' = <<>>
    /\ th' = [Detached EXCEPT !["main"] = At(IF stopping THEN "done" ELSE "sleep")]
    /\ UNCHANGED <<book, sqlite, alive, stopping, sess, starts, faults, lost, overlap>>

-----------------------------------------------------------------------------
(* Placing one order and waiting for it: openPositionForStrategy and the   *)
(* second half of closeFilledPosition.                                     *)

\* createOrder: accepted; accepted with the answer lost; refused.
CreateOrder(t, side, amount, idx) ==
    LET o == [side |-> side, amount |-> amount, filled |-> 0, status |-> "open", sess |-> idx]
    IN \/ /\ Len(book) < MaxOrders
          /\ book' = Append(book, o)
          /\ th' = [th EXCEPT ![t] = [At("wait") EXCEPT !.ord = Len(book) + 1, !.idx = idx,
                                           !.why = IF th[t].why = "none" THEN "entry" ELSE th[t].why]]
          /\ UNCHANGED <<alive, mem, stopping, sess, lost, faults>>
       \/ /\ Len(book) < MaxOrders
          /\ Fault
          /\ book' = Append(book, o)
          /\ Throw(t, {Len(book) + 1})
       \/ /\ Throw(t, {})
          /\ UNCHANGED <<book, faults>>

\* getInfoPrice: the last price, the lowest and the highest of the last candle.
PriceInfo == {i \in [price : Prices, low : Prices, high : Prices] : i.low <= i.high}

\* The entry goes towards the farther end of the candle, or back into it.
EntrySide(i) ==
    IF \/ IsOnlyBuy
       \/ i.price < i.low
       \/ i.price \in i.low..i.high /\ i.high - i.price <= i.price - i.low
    THEN "buy" ELSE "sell"

OpenFirstPosition ==
    /\ th["main"].pc = "enter"
    /\ \E side \in {EntrySide(i) : i \in PriceInfo} : CreateOrder("main", side, Size, sess)
    /\ Overlaps("main")
    /\ UNCHANGED <<sqlite, starts>>

\* As if a canceled order had executed nothing.
PollSettlesMutant(t) ==
    /\ th[t].pc = "wait"
    /\ book[th[t].ord].status # "open"
    /\ IF book[th[t].ord].status = "closed"
       THEN /\ th' = [th EXCEPT ![t].pc = "save"]
            /\ UNCHANGED <<alive, mem, stopping, sess, lost>>
       ELSE Throw(t, {})
    /\ UNCHANGED <<book, sqlite, starts, faults, overlap>>

\* One poll of _waitForExecution that settles the order.
PollSettles(t) ==
    /\ th[t].pc = "wait"
    /\ book[th[t].ord].status # "open"
    /\ IF book[th[t].ord].filled > 0
       THEN /\ th' = [th EXCEPT ![t].pc = "save"]
            /\ UNCHANGED <<alive, mem, stopping, sess, lost>>
       ELSE Throw(t, {})
    /\ UNCHANGED <<book, sqlite, starts, faults, overlap>>

\* As if an order that executed in part after sixty polls were taken as it is.
PollTimesOutMutant(t) ==
    /\ th[t].pc = "wait"
    /\ book[th[t].ord].status = "open"
    /\ IF book[th[t].ord].filled > 0
       THEN th' = [th EXCEPT ![t].pc = "save"] /\ UNCHANGED book
       ELSE th' = [th EXCEPT ![t].pc = "recheck"] /\ book' = Canceled(OpenOrders)
    /\ UNCHANGED <<sqlite, alive, stopping, mem, sess, starts, faults, lost, overlap>>

\* Sixty polls found the order open: cancel everything on the symbol.
PollTimesOut(t) ==
    /\ th[t].pc = "wait"
    /\ book[th[t].ord].status = "open"
    /\ book' = Canceled(OpenOrders)
    /\ th' = [th EXCEPT ![t].pc = "recheck"]
    /\ UNCHANGED <<sqlite, alive, stopping, mem, sess, starts, faults, lost, overlap>>

\* As if an order canceled without execution counted as executed.
RecheckAfterCancelMutant(t) ==
    /\ th[t].pc = "recheck"
    /\ th' = [th EXCEPT ![t].pc = "save"]
    /\ UNCHANGED <<book, sqlite, alive, stopping, mem, sess, starts, faults, lost, overlap>>

RecheckAfterCancel(t) ==
    /\ th[t].pc = "recheck"
    /\ IF book[th[t].ord].filled > 0
       THEN /\ th' = [th EXCEPT ![t].pc = "save"]
            /\ UNCHANGED <<alive, mem, stopping, sess, lost>>
       ELSE Throw(t, {})
    /\ UNCHANGED <<book, sqlite, starts, faults, overlap>>

\* A read or a cancellation fails for good (five transient failures, or another error).
ExecutionFails(t) ==
    /\ th[t].pc \in {"wait", "recheck"}
    /\ Fault
    /\ Throw(t, {th[t].ord})
    /\ UNCHANGED <<book, sqlite, starts, overlap>>

\* What OrderRepository.createOrder inserts: the executed amount, not the ordered one.
CreateOrderRow(o) ==
    [id |-> o, side |-> book[o].side, amount |-> book[o].filled]

\* A failed insert is logged and forgotten; a close begun before the session's index
\* was known is not saved at all.
SaveActivatedOrder(t) ==
    /\ th[t].pc = "save"
    /\ LET o == th[t].ord
       IN \/ /\ th[t].idx # 0
             /\ rows' = [rows EXCEPT ![th[t].idx] = Append(@, CreateOrderRow(o))]
             /\ UNCHANGED <<lost, faults>>
          \/ /\ IF th[t].idx # 0 THEN Fault ELSE UNCHANGED faults
             /\ lost' = lost \cup {o}
             /\ UNCHANGED rows
    /\ th' = [th EXCEPT ![t].pc = "push"]
    /\ UNCHANGED <<book, sessions, alive, stopping, mem, sess, starts, overlap>>

PushOrder(t) ==
    /\ th[t].pc = "push"
    /\ LET m == [id |-> th[t].ord, restored |-> FALSE]
           u == Other(t)
       IN /\ mem' = Append(mem, m)
          /\ th' = [th EXCEPT ![t] = Resumed(t, TRUE),
                              ![u].rest = IF th[u].pc = "fetch" /\ th[u].live THEN Append(@, m) ELSE @]
    /\ UNCHANGED <<book, sqlite, alive, stopping, sess, starts, faults, lost, overlap>>

-----------------------------------------------------------------------------
(* closeFilledPosition                                                     *)

Closing(why) == [At("cancel") EXCEPT !.why = why, !.idx = sess]

CancelAllOrders(t) ==
    /\ th[t].pc = "cancel"
    /\ book' = Canceled(OpenOrders)
    /\ IF mem = <<>>
       THEN th' = [th EXCEPT ![t] = Resumed(t, FALSE)] /\ UNCHANGED overlap
       ELSE /\ th' = [th EXCEPT ![t].pc = "fetch", ![t].rest = mem, ![t].live = TRUE]
            /\ overlap' = (overlap \/ th[Other(t)].pc \in Working \/ th[t].idx \notin {0, sess})
    /\ UNCHANGED <<sqlite, alive, stopping, mem, sess, starts, faults, lost>>

\* Neither the bulk call nor the one-by-one cancellation emptied the book.
CancelAllFails(t) ==
    /\ th[t].pc = "cancel"
    /\ Fault
    /\ \E S \in SUBSET OpenOrders : book' = Canceled(S)
    /\ Throw(t, {})
    /\ UNCHANGED <<sqlite, starts, overlap>>

FetchStatus(t) ==
    /\ th[t].pc = "fetch"
    /\ \E fetched \in BOOLEAN :
         /\ IF fetched THEN UNCHANGED faults ELSE Fault
         /\ LET m == Head(th[t].rest)
                n == th[t].net + Signed(book[m.id].side, ResolveExecutedAmount(m, fetched))
            IN /\ th' = [th EXCEPT ![t].rest = Tail(@), ![t].net = n,
                                   ![t].pc = IF Len(th[t].rest) > 1 THEN "fetch" ELSE "price"]
               /\ lost' = IF fetched \/ m.restored THEN lost ELSE lost \cup {m.id}
    /\ UNCHANGED <<book, sqlite, alive, stopping, mem, sess, starts, overlap>>

\* As if a covered position were closed all the same.
CalculateClosingOrderExposureMutant(t) ==
    /\ th[t].pc = "price"
    /\ th' = [th EXCEPT ![t].pc = "submit"]
    /\ UNCHANGED <<book, sqlite, starts, overlap, alive, mem, stopping, sess, lost, faults>>

CalculateClosingOrderExposure(t) ==
    /\ th[t].pc = "price"
    /\ \/ /\ th[t].net = 0
          /\ th' = [th EXCEPT ![t] = Resumed(t, FALSE)]
          /\ UNCHANGED <<alive, mem, stopping, sess, lost, faults>>
       \/ /\ th[t].net # 0
          /\ th' = [th EXCEPT ![t].pc = "submit"]
          /\ UNCHANGED <<alive, mem, stopping, sess, lost, faults>>
       \/ /\ th[t].net # 0
          /\ Fault
          /\ Throw(t, {})
    /\ UNCHANGED <<book, sqlite, starts, overlap>>

SubmitClosingOrder(t) ==
    /\ th[t].pc = "submit"
    /\ CreateOrder(t, IF th[t].net > 0 THEN "sell" ELSE "buy",
                   IF th[t].net > 0 THEN th[t].net ELSE -th[t].net, th[t].idx)
    /\ UNCHANGED <<sqlite, starts, overlap>>

-----------------------------------------------------------------------------
(* The watching loop and the requests that reach the process.              *)

\* isEmergencyStop of the reloaded configuration, or the stop-loss ratio: close,
\* and leave the loop whether or not something was closed.
WatchStopLoss ==
    /\ th["main"].pc = "watch"
    /\ th' = [th EXCEPT !["main"] = Closing("loss")]
    /\ UNCHANGED <<book, sqlite, alive, stopping, mem, sess, starts, faults, lost, overlap>>

WatchTakeProfit ==
    /\ th["main"].pc = "watch"
    /\ \/ th' = [th EXCEPT !["main"] = Closing("profit")]
       \/ th' = [th EXCEPT !["main"] = At("tracking")]
    /\ UNCHANGED <<book, sqlite, alive, stopping, mem, sess, starts, faults, lost, overlap>>

\* _onPriceTracker reaches its stop price.
OnPriceTracker ==
    /\ th["main"].pc = "tracking"
    /\ th' = [th EXCEPT !["main"] = Closing("track")]
    /\ UNCHANGED <<book, sqlite, alive, stopping, mem, sess, starts, faults, lost, overlap>>

WatchBuyBack ==
    /\ th["main"].pc = "watch"
    /\ CreateOrder("main", book[mem[1].id].side, Size, sess)
    /\ Overlaps("main")
    /\ UNCHANGED <<sqlite, starts>>

\* A read that fails for good ends the process while a session is opened or ended: the
\* active session, its orders, the balance that saveBalanceState records.
SessionReadFails ==
    /\ th["main"].pc \in {"sleep", "begin", "resume", "end", "ending"}
    /\ Fault
    /\ Throw("main", {})
    /\ UNCHANGED <<book, sqlite, starts, overlap>>

\* The same for the candle and the balance _oneTradingBehavior reads before the entry.
EntryReadFails ==
    /\ th["main"].pc = "enter"
    /\ Fault
    /\ Throw("main", {})
    /\ UNCHANGED <<book, sqlite, starts, overlap>>

\* The same for the configuration, balance and price of one iteration of the loop.
WatchReadFails ==
    /\ th["main"].pc = "watch"
    /\ Fault
    /\ Throw("main", {})
    /\ UNCHANGED <<book, sqlite, starts, overlap>>

\* _onPriceTracker catches it, and the loop goes on.
TrackerReadFails ==
    /\ th["main"].pc = "tracking"
    /\ Fault
    /\ th' = [th EXCEPT !["main"] = At("watch")]
    /\ UNCHANGED <<book, sqlite, alive, stopping, mem, sess, starts, lost, overlap>>

StopWorker ==
    /\ alive
    /\ ~stopping
    /\ stopping' = TRUE
    /\ th' = [th EXCEPT !["stop"] = Closing("stop")]
    /\ UNCHANGED <<book, sqlite, alive, mem, sess, starts, faults, lost, overlap>>

Dispose ==
    /\ th["stop"].pc = "dispose"
    /\ Exit(InFlight("main"))
    /\ UNCHANGED <<book, sqlite, starts, faults, overlap>>

-----------------------------------------------------------------------------
Init ==
    /\ book = <<>>
    /\ sessions = <<>>
    /\ rows = <<>>
    /\ alive = FALSE
    /\ stopping = FALSE
    /\ mem = <<>>
    /\ sess = 0
    /\ th = [t \in Threads |-> Idle]
    /\ starts = 0
    /\ faults = 0
    /\ lost = {}
    /\ overlap = FALSE

MainStep ==
    \/ InitTradeSession \/ StartSession \/ CheckingExistingOrders \/ OpenFirstPosition
    \/ CalculateProfitSession \/ EndTradeSession \/ ClearingOrderList
    \/ WatchStopLoss \/ WatchTakeProfit \/ OnPriceTracker \/ WatchBuyBack

OrderStep(t) ==
    \/ PollSettles(t) \/ PollTimesOut(t) \/ RecheckAfterCancel(t)
    \/ SaveActivatedOrder(t) \/ PushOrder(t)
    \/ CancelAllOrders(t) \/ FetchStatus(t) \/ CalculateClosingOrderExposure(t) \/ SubmitClosingOrder(t)

Next ==
    \/ Start \/ Kill \/ StopWorker \/ Dispose
    \/ SessionReadFails \/ EntryReadFails \/ WatchReadFails \/ TrackerReadFails
    \/ MainStep
    \/ \E t \in Threads : OrderStep(t) \/ ExecutionFails(t) \/ CancelAllFails(t)
    \/ \E o \in DOMAIN book : Drop(o) \/ \E q \in 1..book[o].amount : Fill(o, q)

Spec == Init /\ [][Next]_vars

-----------------------------------------------------------------------------
\* Types: in particular no order of amount zero ever reaches the exchange, although
\* the net of a covered position, which closeFilledPosition computes, is zero.
TypeOK ==
    /\ book \in Seq(Order)
    /\ sessions \in Seq({"active", "ended"})
    /\ rows \in Seq(Seq(Row))
    /\ alive \in BOOLEAN /\ stopping \in BOOLEAN /\ overlap \in BOOLEAN
    /\ mem \in Seq(Held)
    /\ sess \in Nat
    /\ th \in [Threads -> Thread]
    /\ starts \in 0..MaxStarts /\ faults \in 0..MaxFaults
    /\ lost \subseteq 1..MaxOrders

\* However often the process crashes and starts again, one session is active at most:
\* initTradeSession takes the first active row and would never look at a second one.
OneActiveSession ==
    \A s, u \in DOMAIN sessions : sessions[s] = "active" /\ sessions[u] = "active" => s = u

\* What _saveActivatedOrder writes never changes afterwards on the exchange: the order
\* is no longer open, all of its fill is recorded, once, under its own session.
SavedIsFinal ==
    \A s \in DOMAIN rows : \A i \in DOMAIN rows[s] :
        LET r == rows[s][i]
        IN /\ r.id \in DOMAIN book
           /\ book[r.id].status # "open"
           /\ book[r.id].filled = r.amount
           /\ book[r.id].sess = s
           /\ \A j \in DOMAIN rows[s] : rows[s][j].id = r.id => i = j

\* An order that executed is in SQLite, or a thread is about to save it, or an event
\* that hides orders happened to it: a lost answer, a failed read or insert, the end
\* of the process, a close begun before the session's index was known.
OnlyFaultsHideOrders ==
    \A o \in DOMAIN book :
        book[o].filled > 0 => IsSaved(o) \/ o \in lost \/ \E t \in Threads : o \in InFlight(t)

\* What the exchange holds for a session, the direction of its entry, and a position
\* that has been turned round by closing more than was open.
SessionNet(s) ==
    FoldSeq(LAMBDA o, n : n + (IF o.sess = s THEN Signed(o.side, o.filled) ELSE 0), 0, book)
EntrySign(s) ==
    LET own == {o \in DOMAIN book : book[o].sess = s}
    IN IF own = {} THEN 0 ELSE Signed(book[Min(own)].side, 1)
OverClosed(s) == SessionNet(s) * EntrySign(s) < 0
Undisturbed == lost = {} /\ ~overlap

\* closeFilledPosition never closes more than the session holds, through partial fills,
\* time-outs, crashes and restores, as long as no order was hidden and the stop request
\* neither worked on orders at the same time as the loop nor closed a new session under
\* the index of the one it found when it arrived.
NeverOverClosed == Undisturbed => \A s \in DOMAIN sessions : ~OverClosed(s)

\* While the loop watches, OrdersOperationService.orders is the session's ledger of
\* SQLite, no order twice: after a restore, a buy-back, and a tracker's failed close.
\* Only the loop's own steps empty that list (initTradeSession and the end of a covered
\* session clear another instance's), so this needs them to leave it empty between two
\* sessions.  Nothing is promised once both threads worked at a time, or once the stop
\* request has an order to list: that one is booked under the index the request found.
MemoryIsLedger ==
    th["main"].pc = "watch" /\ th["stop"].pc \notin {"push", "dispose"} /\ Undisturbed =>
        /\ {m.id : m \in Range(mem)} = {r.id : r \in Range(RowsOf(sess))}
        /\ IsInjective(mem)

\* A session is ended with exposure left only when its closing order was canceled after
\* a partial execution: _endTradeSession asks whether an order was placed, not whether
\* the position is covered.
EndedIsFlatOrPartial ==
    Undisturbed => \A s \in DOMAIN sessions :
        sessions[s] = "ended" /\ SessionNet(s) # 0 =>
            \E o \in DOMAIN book : /\ book[o].sess = s
                                   /\ book[o].status = "canceled"
                                   /\ book[o].filled \in 1..(book[o].amount - 1)
                                   /\ Signed(book[o].side, 1) # EntrySign(s)
=============================================================================
