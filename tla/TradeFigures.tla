----------------------------- MODULE TradeFigures -----------------------------
(***************************************************************************)
(* What trade-lifecycle computes from a trade: the stop a trailing         *)
(* strategy proposes, the stage reported, the charges and the profit, the  *)
(* archived copy read back, and the lots of an instrument netted.          *)
(*                                                                         *)
(* Prices and quantities are integers, an amount of money is a number of   *)
(* millionths.  A division keeps the integral part.                        *)
(***************************************************************************)
EXTENDS Trade

CONSTANT Null   \* null, and the undefined field of a configuration

Sign(direction) == IF direction = "LONG" THEN 1 ELSE -1
Abs(n) == IF n < 0 THEN -n ELSE n
Least(a, b) == IF a < b THEN a ELSE b
OrZero(n) == IF n = Null THEN 0 ELSE n

-----------------------------------------------------------------------------
(* TrailingCalculator.  A configuration has a strategy, the size that       *)
(* strategy reads (fixedPoints, percentage or stepSize) and                 *)
(* lockProfitPoints; the context c has the direction, the entry fill, the   *)
(* current stop, the mark price and lastTrailingStepPrice.                  *)
Strategies == {"FIXED_POINTS", "PERCENTAGE", "STEP", "BREAK_EVEN", "ATR"}

Proposal(stop, step) == [stop |-> stop, step |-> step]
NoProposal == Proposal(Null, Null)

FixedPoints(config, c) == Proposal(c.mark - Sign(c.direction) * config.size, Null)

Percentage(config, c) ==
    Proposal(c.mark - Sign(c.direction) * ((c.mark * config.size) \div 100), Null)

Step(config, c) ==
    LET base == IF c.step = Null THEN c.entry ELSE c.step
        move == Sign(c.direction) * (c.mark - base)
        next == base + Sign(c.direction) * (move \div config.size) * config.size
    IN  IF move < config.size THEN NoProposal ELSE Proposal(next, next)

BreakEven(c) ==
    IF Better(c.direction, c.entry, c.stop) /\ Better(c.direction, c.mark, c.entry)
    THEN Proposal(c.entry, Null) ELSE NoProposal

Mutant_LockGivesBack(config, c, stop) ==
    LET floor == c.entry + Sign(c.direction) * config.lock
    IN  IF config.lock = Null \/ config.lock <= 0 \/ Better(c.direction, floor, stop)
        THEN stop ELSE floor

ApplyProfitLock(config, c, stop) ==
    LET floor == c.entry + Sign(c.direction) * config.lock
    IN  IF config.lock = Null \/ config.lock <= 0 \/ Better(c.direction, stop, floor)
        THEN stop ELSE floor

ComputeRaw(config, c) ==
    CASE config.strategy = "BREAK_EVEN" -> BreakEven(c)
      [] config.strategy = "ATR" -> NoProposal
      [] OTHER -> IF config.size = Null \/ config.size <= 0 THEN NoProposal
                  ELSE CASE config.strategy = "FIXED_POINTS" -> FixedPoints(config, c)
                         [] config.strategy = "PERCENTAGE" -> Percentage(config, c)
                         [] config.strategy = "STEP" -> Step(config, c)

Compute(config, c) ==
    LET raw == ComputeRaw(config, c)
    IN  IF raw = NoProposal THEN NoProposal
        ELSE [raw EXCEPT !.stop = ApplyProfitLock(config, c, raw.stop)]

-----------------------------------------------------------------------------
(* deriveTradeLifecycleStage *)
TradeLifecycleStage ==
    {"CREATED", "VALIDATED", "QUEUED", "ORDER_PLACED", "ORDER_PENDING", "ORDER_FILLED",
     "PARTIALLY_FILLED", "POSITION_OPEN", "TARGET1_HIT", "TARGET2_HIT", "TARGET3_HIT",
     "TRAILING_SL", "EXIT_REQUESTED", "EXIT_PENDING", "EXIT_FILLED", "COMPLETED", "REJECTED",
     "FAILED", "CANCELLED", "EXPIRED", "STOPLOSS_HIT", "FORCE_EXITED", "MANUAL_EXIT"}

ExitReasons == {"STOPLOSS", "TARGET", "MANUAL", "FORCE", "MARKET_CLOSE", "BROKER_DISCONNECT",
                "EMERGENCY"}

ActiveStage(def, tr) ==
    CASE tr.awaiting -> IF tr.exit = "none" THEN "EXIT_REQUESTED" ELSE "EXIT_PENDING"
      [] ~tr.awaiting /\ tr.filled < def.quantity -> "PARTIALLY_FILLED"
      [] OTHER -> CASE tr.next = 1 -> "POSITION_OPEN"
                    [] tr.next = 2 -> "TARGET1_HIT"
                    [] tr.next = 3 -> "TARGET2_HIT"
                    [] tr.next = 4 -> "TARGET3_HIT"
                    [] OTHER -> "TRAILING_SL"

CompletedStage(reason) ==
    CASE reason = "STOPLOSS" -> "STOPLOSS_HIT"
      [] reason = "MANUAL" -> "MANUAL_EXIT"
      [] reason \in {"FORCE", "EMERGENCY", "BROKER_DISCONNECT"} -> "FORCE_EXITED"
      [] OTHER -> "COMPLETED"

Stage(def, tr, reason) ==
    CASE tr.state = "DRAFT" -> "CREATED"
      [] tr.state = "WAITING_ENTRY" -> "QUEUED"
      [] tr.state = "ENTRY_PENDING" ->
           IF tr.entry \in {"PENDING", "PARTIALLY_FILLED"} THEN "ORDER_PENDING" ELSE "ORDER_PLACED"
      [] tr.state = "ENTRY_FILLED" -> "ORDER_FILLED"
      [] tr.state \in {"ACTIVE", "TARGET_HIT", "TRAILING_SL_UPDATED"} -> ActiveStage(def, tr)
      [] tr.state = "COMPLETED" -> CompletedStage(reason)
      [] tr.state = "CANCELLED" -> IF reason = "EMERGENCY" THEN "FORCE_EXITED" ELSE "CANCELLED"
      [] tr.state = "REJECTED" -> "REJECTED"
      [] tr.state \in {"FAILED", "ERROR"} -> "FAILED"
      [] tr.state = "RECOVERY" -> IF tr.filled > 0 THEN ActiveStage(def, tr) ELSE "ORDER_PENDING"

-----------------------------------------------------------------------------
(* calculateTradeCharges, in millionths of the unit of the two values *)
Brokerage(value) == Least(20000000, value * 300)

Charges(direction, entryValue, exitValue) ==
    LET buy == IF direction = "LONG" THEN entryValue ELSE exitValue
        sell == IF direction = "LONG" THEN exitValue ELSE entryValue
        brokerage == Brokerage(entryValue) + Brokerage(exitValue)
        exchange == (entryValue + exitValue) * 500
    IN  brokerage + sell * 1000 + exchange + ((brokerage + exchange) * 18) \div 100
          + buy * 30 + entryValue + exitValue

(* calculateUnrealizedPnl and calculateBookedPnl, which PnLService.compute  *)
(* adds up; p is the part of a trade they read.                             *)
UnrealizedPnl(p, mark) ==
    IF p.fill = Null \/ p.filled = 0 THEN Null
    ELSE Sign(p.direction) * (mark - p.fill) * (p.filled - p.exited)

BookedPnl(p) ==
    IF p.fill = Null \/ p.exited = 0 THEN Null
    ELSE Sign(p.direction) * (p.proceeds - p.fill * p.exited)

Mtm(p, mark) ==
    LET live == IF mark = Null THEN Null ELSE UnrealizedPnl(p, mark)
    IN  IF {live, BookedPnl(p)} = {Null} THEN Null ELSE OrZero(live) + OrZero(BookedPnl(p))

(* composeTradeRecord: the figures of the record; the exit price and the    *)
(* realized profit are only there once the whole position has been sold.    *)
Record(p, mark) ==
    LET closed == p.exited = p.filled /\ p.filled > 0
        exitPrice == IF closed THEN p.proceeds \div p.exited ELSE Null
        unrealized == IF mark = Null THEN Null ELSE UnrealizedPnl(p, mark)
        realized == IF closed THEN BookedPnl(p) ELSE Null
        charges == Charges(p.direction, OrZero(p.fill) * p.filled, OrZero(exitPrice) * p.exited)
    IN  [direction |-> p.direction, averagePrice |-> p.fill, entryPrice |-> p.trigger,
         exitPrice |-> exitPrice, filled |-> p.filled, open |-> p.filled - p.exited,
         exited |-> p.exited, realized |-> realized, unrealized |-> unrealized,
         charges |-> charges,
         net |-> IF p.filled = 0 THEN Null
                 ELSE (OrZero(realized) + OrZero(unrealized)) * 1000000 - charges]

(* TradeHistoryRepository.toRecord: the charges and the net profit are not  *)
(* stored but computed again from what is.                                  *)
ToRecord(doc) ==
    LET charges == Charges(doc.direction, OrZero(doc.averagePrice) * doc.filled,
                           OrZero(doc.exitPrice) * doc.exited)
    IN  [doc EXCEPT !.charges = charges,
                    !.net = IF doc.filled = 0 THEN Null
                            ELSE (OrZero(doc.realized) + OrZero(doc.unrealized)) * 1000000 - charges]

-----------------------------------------------------------------------------
(* aggregateNetPositions, for the records of one instrument: the totals over *)
(* the lots that are open, taken in the order of the records.                *)
NoTotals == [quantity |-> 0, value |-> 0, unrealized |-> 0, net |-> 0]

Counted(total, lot) ==
    LET signed == Sign(lot.direction) * lot.open
        price == IF lot.averagePrice = Null THEN lot.entryPrice ELSE lot.averagePrice
    IN  [quantity |-> total.quantity + signed,
         value |-> total.value + signed * price,
         unrealized |-> total.unrealized + OrZero(lot.unrealized),
         net |-> total.net + OrZero(lot.net)]

Totals(records) ==
    LET total[n \in 0..Len(records)] ==
          IF n = 0 THEN NoTotals
          ELSE IF records[n].open <= 0 THEN total[n - 1]
          ELSE Counted(total[n - 1], records[n])
    IN  total[Len(records)]

AggregateOneInstrument(total) ==
    IF total.quantity = 0 THEN Null
    ELSE [direction |-> IF total.quantity > 0 THEN "LONG" ELSE "SHORT",
          quantity |-> Abs(total.quantity),
          value |-> total.value,
          averagePrice |-> Abs(total.value) \div Abs(total.quantity),
          unrealized |-> total.unrealized,
          net |-> total.net]

NetPosition(records) == AggregateOneInstrument(Totals(records))

-----------------------------------------------------------------------------
(* A stop that is proposed never gives back the profit that is locked, and  *)
(* without a lock it is on the losing side of the mark price: it does not   *)
(* close the trade at once.                                                 *)
ProposalHolds(config, c) ==
    LET stop == Compute(config, c).stop
    IN  stop # Null =>
          IF config.lock # Null /\ config.lock > 0
          THEN Sign(c.direction) * (stop - c.entry) >= config.lock
          ELSE ~Better(c.direction, stop, c.mark)

(* What is shown of a position at a price is what is booked when it is sold  *)
(* there.                                                                    *)
MarkIsRealized(p, mark) ==
    (mark # Null /\ p.filled > 0) =>
      Mtm(p, mark)
        = BookedPnl([p EXCEPT !.exited = p.filled,
                              !.proceeds = @ + mark * (p.filled - p.exited)])

(* What the history reads back of an archived record is the record, though  *)
(* the charges and the net profit are computed again.                       *)
ArchiveReadsBack(p, mark) == ToRecord(Record(p, mark)) = Record(p, mark)

(* The netted position earns what its lots earn, at any price: the sum over *)
(* the lots is the value of the net quantity less what the lots cost.       *)
NetEarnsWhatLotsEarn(records, mark) ==
    LET net == NetPosition(records)
    IN  net # Null =>
          net.unrealized
            = mark * Sign(net.direction) * net.quantity - net.value
=============================================================================
