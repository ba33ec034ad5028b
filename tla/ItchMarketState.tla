--------------------------- MODULE ItchMarketState ---------------------------
(***************************************************************************)
(* common/market_data/itch/ItchMarketState.h with the order store, the     *)
(* book store and the instrument store it owns, and the quote and trade    *)
(* publishers its handlers call.  Messages come one at a time from the     *)
(* feed thread; the market event queue is emptied by the consumer thread.  *)
(*                                                                         *)
(* The order store is the map of OrderMap.  A price level is known by the  *)
(* key <<instrument, side, price>>, which also is the handle that a stored *)
(* order keeps to it: BooksMatchOrders says when that is right.            *)
(***************************************************************************)
EXTENDS Integers, Sequences, FiniteSets, FiniteSetsExt

CONSTANTS Instrument, OrderId, Price, MaxOrder,
          TradingState, RegShoState,
          Adds,            \* the orders that messages may add
          Replacements,    \* <<new id, price, shares>> of replace messages
          StoreCapacity,   \* slots of the order store
          MaxQuantity,     \* 2^32 - 1: the most a quote can carry
          EventLimit,      \* events the market event queue holds
          MaxMessages,     \* bound: messages of one run
          MaxRejected      \* bound: and those of them that are only counted

Side == {"Buy", "Sell"}
Quantity == 0 .. MaxOrder       \* of one message
Order == [id : OrderId, instrument : Instrument, side : Side, price : Price,
          quantity : Nat]
NoBbo == [bid |-> <<>>, ask |-> <<>>]
Idle == [kind |-> "idle"]

StateCounters == {"unknownTradingActionInstruments", "unknownRegShoInstruments",
                  "unknownOrderExecutions", "overExecutedOrders",
                  "unknownOrderExecutionsWithPrice", "overExecutedOrdersWithPrice",
                  "unknownOrderCancels", "overCancelledOrders", "unknownOrderDeletes",
                  "unknownOrderReplaces", "duplicateReplacementOrderIds",
                  "duplicateAddOrders", "missingBooks", "failedBookReductions",
                  "failedBookRemovals"}

ASSUME PriceAssumption == Price \subseteq Nat
ASSUME SizeAssumption == StoreCapacity \in Nat /\ EventLimit \in Nat
ASSUME MaxOrderAssumption == MaxOrder \in Nat
ASSUME AddsAssumption == Adds \subseteq Order
ASSUME ReplacementsAssumption == Replacements \subseteq OrderId \X Price \X Nat

VARIABLES
  instruments,    \* instruments_: a function on the instruments present
  orders,         \* orders_: a function on the ids of the active orders
  books,          \* books_: the instruments that have a book
  levels,         \* their price levels: a function on the keys of the levels
  counters,
  pending,        \* the reduction whose trade was published, "hung" or idle
  quotes, trades, \* ItchQuotePublisher, ItchTradePublisher: their counters
  events,         \* marketEventQueue
  lastQuote,      \* history: the last quote published of an instrument
  unquoted,       \* history: instruments whose last change was not published
  refused,        \* history: orders for which the order store had no room
  messages        \* bounds the run

stores == <<instruments, orders, books, levels>>
publishers == <<quotes, trades, events, lastQuote>>
stateVars == <<stores, counters, pending, publishers, unquoted, refused, messages>>

StateInit ==
  /\ instruments = [i \in {} |-> 0] /\ orders = [k \in {} |-> 0]
  /\ books = {} /\ levels = [k \in {} |-> 0]
  /\ counters = [c \in StateCounters |-> 0]
  /\ pending = Idle
  /\ quotes = [next |-> 0, published |-> 0, dropped |-> 0, unknown |-> 0]
  /\ trades = [next |-> 0, published |-> 0, dropped |-> 0, unknown |-> 0]
  /\ events = <<>>
  /\ lastQuote = [i \in Instrument |-> NoBbo]
  /\ unquoted = {} /\ refused = <<>> /\ messages = 0

(* A message arrives: the one before has been handled. *)
Message == pending = Idle /\ messages < MaxMessages /\ messages' = messages + 1

Count(c) == counters' = [counters EXCEPT ![c] = @ + 1]
-----------------------------------------------------------------------------
(* PriceLevel, BookSide, OrderBook *)

Without(f, k) == [x \in DOMAIN f \ {k} |-> f[x]]
With(f, k, v) == [x \in DOMAIN f \cup {k} |-> IF x = k THEN v ELSE f[x]]

KeyOf(o) == <<o.instrument, o.side, o.price>>

LevelAdd(lv, key, q) ==
  LET old == IF key \in DOMAIN lv THEN lv[key] ELSE [quantity |-> 0, orderCount |-> 0]
  IN  With(lv, key, [quantity |-> old.quantity + q, orderCount |-> old.orderCount + 1])

CanReduce(lv, key, q) == q <= lv[key].quantity
LevelReduce(lv, key, q) == [lv EXCEPT ![key].quantity = @ - q]

(* What if: a level were erased when no quantity is left. *)
RemoveEmptied(lv, key, q) ==
  IF lv[key].quantity = q
    THEN Without(lv, key)
    ELSE With(lv, key, [quantity |-> lv[key].quantity - q,
                        orderCount |-> lv[key].orderCount - 1])

CanRemove(lv, key, q) == lv[key].orderCount # 0 /\ q <= lv[key].quantity
RemoveOrder(lv, key, q) ==
  IF lv[key].orderCount = 1
    THEN Without(lv, key)
    ELSE With(lv, key, [quantity |-> lv[key].quantity - q,
                        orderCount |-> lv[key].orderCount - 1])

Best(lv, i, s) ==
  LET prices == {p \in Price : <<i, s, p>> \in DOMAIN lv}
      best == IF s = "Buy" THEN Max(prices) ELSE Min(prices)
  IN  IF prices = {} THEN <<>> ELSE <<best, lv[<<i, s, best>>].quantity>>

Bbo(lv, i) == [bid |-> Best(lv, i, "Buy"), ask |-> Best(lv, i, "Sell")]
-----------------------------------------------------------------------------
(* The publishers *)

HasRoom == Len(events) < EventLimit

Push(e) == events' = IF HasRoom THEN Append(events, e) ELSE events

Silently == UNCHANGED publishers /\ UNCHANGED unquoted

(* ItchQuotePublisher::onBboChange() for a best bid and offer that the     *)
(* instrument store knows, that has two sides, and that a quote can carry. *)
PublishQuote(i, bbo) ==
  /\ Push([publisher |-> "quote", sequence |-> quotes.next])
  /\ \/ /\ HasRoom
        /\ quotes' = [quotes EXCEPT !.next = @ + 1, !.published = @ + 1]
        /\ lastQuote' = [lastQuote EXCEPT ![i] = bbo]
        /\ unquoted' = unquoted \ {i}
     \/ /\ ~HasRoom
        /\ quotes' = [quotes EXCEPT !.next = @ + 1, !.dropped = @ + 1]
        /\ unquoted' = unquoted \cup {i}
        /\ UNCHANGED lastQuote

OneSided(bbo) == <<>> \in {bbo.bid, bbo.ask}
TooLarge(bbo) == bbo.bid[2] > MaxQuantity \/ bbo.ask[2] > MaxQuantity

(* The others it does not publish.  The sample of unknown instruments kept *)
(* for diagnostics is left out.                                            *)
OnBboChange(i, bbo) ==
  \/ /\ i \notin DOMAIN instruments
     /\ quotes' = [quotes EXCEPT !.unknown = @ + 1]
     /\ unquoted' = unquoted \cup {i}
     /\ UNCHANGED <<events, lastQuote>>
  \/ /\ i \in DOMAIN instruments /\ OneSided(bbo)
     /\ UNCHANGED <<quotes, events, lastQuote, unquoted>>
  \/ /\ i \in DOMAIN instruments /\ ~OneSided(bbo) /\ TooLarge(bbo)
     /\ quotes' = [quotes EXCEPT !.dropped = @ + 1]
     /\ unquoted' = unquoted \cup {i}
     /\ UNCHANGED <<events, lastQuote>>
  \/ /\ i \in DOMAIN instruments /\ ~OneSided(bbo) /\ ~TooLarge(bbo)
     /\ PublishQuote(i, bbo)

(* What if: quantities were not compared. *)
NotifyPriceChange(i, lv) ==
  LET PriceOf(b) == IF b = <<>> THEN 0 ELSE b[1]
      Prices(b) == <<PriceOf(b.bid), PriceOf(b.ask)>>
  IN  /\ IF Prices(Bbo(levels, i)) = Prices(Bbo(lv, i))
           THEN UNCHANGED <<quotes, events, lastQuote, unquoted>>
           ELSE OnBboChange(i, Bbo(lv, i))
      /\ UNCHANGED trades

(* notifyBboChange(), with the levels as they will be. *)
NotifyBboChange(i, lv) ==
  /\ IF Bbo(levels, i) = Bbo(lv, i)
       THEN UNCHANGED <<quotes, events, lastQuote, unquoted>>
       ELSE OnBboChange(i, Bbo(lv, i))
  /\ UNCHANGED trades

(* What if: a trade that was dropped did not use up a sequence number. *)
NotifyTradeReusing(i) ==
  /\ i \in DOMAIN instruments
  /\ Push([publisher |-> "trade", sequence |-> trades.next])
  /\ trades' = IF HasRoom THEN [trades EXCEPT !.next = @ + 1, !.published = @ + 1]
                          ELSE [trades EXCEPT !.dropped = @ + 1]
  /\ UNCHANGED <<quotes, lastQuote, unquoted>>

(* notifyTrade() and ItchTradePublisher::onOrderExecution() *)
NotifyTrade(i) ==
  /\ \/ /\ i \notin DOMAIN instruments
        /\ trades' = [trades EXCEPT !.unknown = @ + 1]
        /\ UNCHANGED events
     \/ /\ i \in DOMAIN instruments
        /\ Push([publisher |-> "trade", sequence |-> trades.next])
        /\ trades' = IF HasRoom
                       THEN [trades EXCEPT !.next = @ + 1, !.published = @ + 1]
                       ELSE [trades EXCEPT !.next = @ + 1, !.dropped = @ + 1]
  /\ UNCHANGED <<quotes, lastQuote, unquoted>>
-----------------------------------------------------------------------------
(* Instruments *)

(* A handler that only counts and returns. *)
Reject(c) == /\ MapThenSumSet(LAMBDA x : counters[x], StateCounters) < MaxRejected
             /\ Count(c)
             /\ UNCHANGED stores /\ UNCHANGED <<pending, refused>> /\ Silently

(* A directory message for an instrument that is there changes nothing.    *)
StockDirectory(i) ==
  /\ Message
  /\ instruments' = IF i \in DOMAIN instruments THEN instruments
                    ELSE With(instruments, i, [trading |-> "Unknown", regSho |-> "Unknown"])
  /\ UNCHANGED <<orders, books, levels, counters, pending, refused>> /\ Silently

Update(i, unknown, instrument) ==
  /\ Message
  /\ \/ i \notin DOMAIN instruments /\ Reject(unknown)
     \/ /\ i \in DOMAIN instruments
        /\ instruments' = [instruments EXCEPT ![i] = instrument]
        /\ UNCHANGED <<orders, books, levels, counters, pending, refused>> /\ Silently

StockTradingAction(i, s) ==
  Update(i, "unknownTradingActionInstruments", [instruments[i] EXCEPT !.trading = s])
RegShoRestriction(i, s) ==
  Update(i, "unknownRegShoInstruments", [instruments[i] EXCEPT !.regSho = s])
-----------------------------------------------------------------------------
(* Orders *)

StoreIsFull == Cardinality(DOMAIN orders) = StoreCapacity

(* Both kinds of add message.  The level is changed before the order store *)
(* is asked, and stays so when the store has no room.                      *)
AddOrder(o) ==
  LET added == LevelAdd(levels, KeyOf(o), o.quantity)
  IN  /\ Message
      /\ \/ o.id \in DOMAIN orders /\ Reject("duplicateAddOrders")
         \/ /\ o.id \notin DOMAIN orders
            /\ books' = books \cup {o.instrument}
            /\ levels' = added
            /\ \/ /\ ~StoreIsFull
                  /\ orders' = With(orders, o.id, o)
                  /\ NotifyBboChange(o.instrument, added)
                  /\ UNCHANGED <<counters, refused>>
               \/ /\ StoreIsFull
                  /\ Count("duplicateAddOrders")
                  /\ refused' = Append(refused, o)
                  /\ unquoted' = unquoted \cup {o.instrument}
                  /\ UNCHANGED orders /\ UNCHANGED publishers
            /\ UNCHANGED <<instruments, pending>>

(* Why a handler returns at once, or "none". *)
Refusal(k, quantity, unknown, over) ==
  IF k \notin DOMAIN orders THEN unknown
  ELSE IF quantity > orders[k].quantity THEN over
  ELSE IF orders[k].instrument \notin books THEN "missingBooks"
  ELSE "none"

(* removeAt() on the store, with the new levels and orders.  It does not   *)
(* return when the store has no empty slot (see OrderStore): the feed      *)
(* thread hangs, with the levels as they were when it was called.          *)
Remove(k, before, after, remaining) ==
  \/ /\ ~StoreIsFull
     /\ levels' = after /\ orders' = remaining
     /\ NotifyBboChange(orders[k].instrument, after)
     /\ pending' = Idle
  \/ /\ StoreIsFull
     /\ levels' = before /\ pending' = [kind |-> "hung"]
     /\ UNCHANGED orders /\ Silently

FailBook(c, lv) == /\ Count(c)
                   /\ levels' = lv /\ pending' = Idle /\ UNCHANGED orders /\ Silently

(* What the execution and cancel handlers have in common: `quantity' comes *)
(* off the level, and the order goes when nothing is left of it.           *)
ReduceOrder(k, quantity) ==
  LET o == orders[k]
      reduced == LevelReduce(levels, KeyOf(o), quantity)
      removed == RemoveOrder(reduced, KeyOf(o), 0)
  IN  IF ~CanReduce(levels, KeyOf(o), quantity) THEN FailBook("failedBookReductions", levels)
      ELSE \/ /\ quantity = o.quantity
              /\ IF CanRemove(reduced, KeyOf(o), 0)
                   THEN Remove(k, removed, removed, Without(orders, k)) /\ UNCHANGED counters
                   ELSE FailBook("failedBookRemovals", reduced)
           \/ /\ quantity # o.quantity
              /\ levels' = reduced
              /\ orders' = [orders EXCEPT ![k].quantity = @ - quantity]
              /\ NotifyBboChange(o.instrument, reduced)
              /\ pending' = Idle /\ UNCHANGED counters

(* OrderExecuted and OrderExecutedWithPrice: first the trade is published, *)
(* then the book is changed; the consumer may run in between.              *)
Execute(k, shares, unknown, over) ==
  LET refusal == Refusal(k, shares, unknown, over)
  IN  /\ Message
      /\ \/ refusal # "none" /\ Reject(refusal)
         \/ /\ refusal = "none"
            /\ NotifyTrade(orders[k].instrument)
            /\ pending' = [kind |-> "reduce", id |-> k, quantity |-> shares]
            /\ UNCHANGED stores /\ UNCHANGED <<counters, refused>>

OrderExecuted(k, shares) ==
  Execute(k, shares, "unknownOrderExecutions", "overExecutedOrders")
OrderExecutedWithPrice(k, shares) ==
  Execute(k, shares, "unknownOrderExecutionsWithPrice", "overExecutedOrdersWithPrice")

FinishExecution == /\ pending.kind = "reduce"
                   /\ ReduceOrder(pending.id, pending.quantity)
                   /\ UNCHANGED <<instruments, books, refused, messages>>

OrderCancel(k, shares) ==
  LET refusal == Refusal(k, shares, "unknownOrderCancels", "overCancelledOrders")
  IN  /\ Message
      /\ \/ refusal # "none" /\ Reject(refusal)
         \/ refusal = "none" /\ ReduceOrder(k, shares)
                             /\ UNCHANGED <<instruments, books, refused>>

OrderDelete(k) ==
  LET o == orders[k]
      refusal == Refusal(k, 0, "unknownOrderDeletes", "none")
      removed == RemoveOrder(levels, KeyOf(o), o.quantity)
  IN  /\ Message
      /\ \/ refusal # "none" /\ Reject(refusal)
         \/ /\ refusal = "none"
            /\ IF CanRemove(levels, KeyOf(o), o.quantity)
                 THEN Remove(k, removed, removed, Without(orders, k)) /\ UNCHANGED counters
                 ELSE FailBook("failedBookRemovals", levels)
            /\ UNCHANGED <<instruments, books, refused>>

(* The replaced order leaves its level before its replacement joins one,   *)
(* which may be the same; only the outcome of both is told.                *)
OrderReplace(k, new, price, shares) ==
  LET o == orders[k]
      r == [o EXCEPT !.id = new, !.price = price, !.quantity = shares]
      taken == new # k /\ new \in DOMAIN orders
      refusal == Refusal(k, 0, "unknownOrderReplaces", "none")
      removed == RemoveOrder(levels, KeyOf(o), o.quantity)
  IN  /\ Message
      /\ \/ k \notin DOMAIN orders /\ Reject("unknownOrderReplaces")
         \/ k \in DOMAIN orders /\ taken /\ Reject("duplicateReplacementOrderIds")
         \/ /\ k \in DOMAIN orders /\ ~taken
            /\ IF refusal # "none" THEN Reject(refusal)
               ELSE IF CanRemove(levels, KeyOf(o), o.quantity)
                 THEN /\ Remove(k, removed, LevelAdd(removed, KeyOf(r), shares),
                                With(Without(orders, k), new, r))
                      /\ UNCHANGED <<instruments, books, counters, refused>>
                 ELSE /\ FailBook("failedBookRemovals", levels)
                      /\ UNCHANGED <<instruments, books, refused>>

(* A trade of an order that was not displayed. *)
Trade(i) == /\ Message /\ NotifyTrade(i)
            /\ UNCHANGED stores /\ UNCHANGED <<counters, pending, refused>>

(* The consumer thread *)
ConsumeEvent == /\ events # <<>> /\ events' = Tail(events)
                /\ UNCHANGED stores
                /\ UNCHANGED <<counters, pending, quotes, trades, lastQuote,
                               unquoted, refused, messages>>

StateNext ==
  \/ \E i \in Instrument : StockDirectory(i) \/ Trade(i)
  \/ \E i \in Instrument, s \in TradingState : StockTradingAction(i, s)
  \/ \E i \in Instrument, s \in RegShoState : RegShoRestriction(i, s)
  \/ \E o \in Adds : AddOrder(o)
  \/ \E k \in OrderId, q \in Quantity :
       OrderExecuted(k, q) \/ OrderExecutedWithPrice(k, q) \/ OrderCancel(k, q)
  \/ FinishExecution
  \/ \E k \in OrderId : OrderDelete(k)
  \/ \E k \in OrderId, r \in Replacements : OrderReplace(k, r[1], r[2], r[3])
  \/ ConsumeEvent

StateSpec == StateInit /\ [][StateNext]_stateVars
-----------------------------------------------------------------------------
(* The stores hold what they are declared to hold; an order is kept under  *)
(* its own id, and the order store never holds more than its slots.        *)
StoresOK ==
  /\ DOMAIN instruments \subseteq Instrument
  /\ orders \in [DOMAIN orders -> Order] /\ \A k \in DOMAIN orders : orders[k].id = k
  /\ IsFiniteSet(DOMAIN orders) /\ Cardinality(DOMAIN orders) <= StoreCapacity
  /\ DOMAIN levels \subseteq books \X Side \X Price
  /\ counters \in [StateCounters -> Nat]
  /\ pending.kind \in {"idle", "reduce", "hung"}
  /\ refused \in Seq(Order)

Publisher == [next : Nat, published : Nat, dropped : Nat, unknown : Nat]
Event == [publisher : {"quote", "trade"}, sequence : Nat]

PublishersOK ==
  /\ quotes \in Publisher /\ trades \in Publisher
  /\ events \in Seq(Event) /\ Len(events) <= EventLimit
  /\ DOMAIN lastQuote = Instrument

StateTypeOK == StoresOK /\ PublishersOK

(* Orders held under their ids, or in a sequence, and those of one level.  *)
Keys(held) == {KeyOf(held[k]) : k \in DOMAIN held}
At(held, key) == {k \in DOMAIN held : KeyOf(held[k]) = key}
Total(held, K) == MapThenSumSet(LAMBDA k : held[k].quantity, K)

(* The levels as they are when each of them stands for the orders at it.   *)
LevelsOf(stored, lost) ==
  [key \in Keys(stored) \cup Keys(lost) |->
    [quantity   |-> Total(stored, At(stored, key)) + Total(lost, At(lost, key)),
     orderCount |-> Cardinality(At(stored, key)) + Cardinality(At(lost, key))]]

(* A level is there exactly as long as orders refer to it, with their      *)
(* number and the sum of what is left of them: no handle dangles, no       *)
(* quantity is lost or made up.  The one exception is an add that a full   *)
(* order store refused: its level keeps it although nobody can remove it.  *)
BooksMatchOrders == pending.kind # "hung" => levels = LevelsOf(orders, refused)

(* While a trade is published the order it took from stays as it was.      *)
ReductionFits ==
  pending.kind = "reduce" =>
    /\ pending.id \in DOMAIN orders
    /\ pending.quantity \in 0 .. orders[pending.id].quantity

(* The defensive checks of the handlers never find anything: a trade that  *)
(* was published is also taken off the book (the apps print these as       *)
(* consistency counters).                                                  *)
NoInconsistency ==
  /\ counters["missingBooks"] = 0
  /\ counters["failedBookReductions"] = 0
  /\ counters["failedBookRemovals"] = 0

(* The three stores agree with each other at every point between two       *)
(* messages.                                                               *)
StateInv == StateTypeOK /\ BooksMatchOrders /\ ReductionFits /\ NoInconsistency

(* The best price and its total, from the orders themselves. *)
BestOf(i, s) ==
  LET offers == {k \in DOMAIN orders : orders[k].instrument = i /\ orders[k].side = s}
      best == {k \in offers : \A x \in offers :
                 IF s = "Buy" THEN orders[x].price <= orders[k].price
                              ELSE orders[x].price >= orders[k].price}
  IN  IF offers = {} THEN <<>>
      ELSE <<orders[CHOOSE k \in best : TRUE].price,
             Total(orders, best)>>

(* The last quote published of an instrument that has two sides is its     *)
(* best bid and offer, unless the last change could not be published: the  *)
(* instrument unknown, the quantity too large, the queue full, or the add  *)
(* refused by a full store.                                                *)
QuoteIsCurrent ==
  \A i \in Instrument :
    (/\ i \notin unquoted /\ pending.kind # "hung"
     /\ BestOf(i, "Buy") # <<>> /\ BestOf(i, "Sell") # <<>>
     /\ \A n \in DOMAIN refused : refused[n].instrument # i)
    => lastQuote[i] = [bid |-> BestOf(i, "Buy"), ask |-> BestOf(i, "Sell")]

(* A consumer sees from the sequence numbers how many events the full      *)
(* queue cost it: every drop leaves a gap, and nothing else does but the   *)
(* quotes that are too large, which use up no number.                      *)
NextOf(e) == IF e.publisher = "quote" THEN quotes.next ELSE trades.next

GapsShowDrops ==
  /\ trades.next = trades.published + trades.dropped
  /\ quotes.next <= quotes.published + quotes.dropped
  /\ \A m, n \in DOMAIN events :
       (m < n /\ events[m].publisher = events[n].publisher)
         => events[m].sequence < events[n].sequence
  /\ \A n \in DOMAIN events : events[n].sequence < NextOf(events[n])
=============================================================================
