----------------------------- MODULE TradeEngine -----------------------------
(***************************************************************************)
(* TradingEngineService holding trades on one instrument, the executors it *)
(* calls (PaperExecutor, DhanExecutor) and the managers that call it: the  *)
(* TargetManager's partial exits, the ExitManager's full exits, the        *)
(* TrailingManager's stop moves, and cancellations.                        *)
(*                                                                         *)
(* A handler is one running call into the engine: a market price going     *)
(* through its loop over the trades, an exit, or a cancel.  Between two    *)
(* awaits nothing else runs.  An await on DhanExecutor is HTTP: anything   *)
(* may happen before it answers.  An await on PaperExecutor resolves in    *)
(* the same turn of the event loop, so that only the other calls of that   *)
(* turn can come in between: the prices whose frames were read from the    *)
(* socket together, of which the feed dispatches one after the other.      *)
(*                                                                         *)
(* The event bus starts a handler with `void handler(event)`: a rejection  *)
(* of the market price handler is unhandled, and ends the process.  The    *)
(* other callers catch what the engine throws.                             *)
(***************************************************************************)
EXTENDS Trade

CONSTANTS
    Count,       \* how many trades there are: trade t is the t-th one created
    Definition,  \* CreateTradeParams of each, and its plan: targetExitQuantities
    Prices,      \* market prices
    Handlers,    \* calls into the engine that may run at a time
    Burst,       \* frames one read from the socket may hold
    Trailing,    \* stop losses a trailing strategy may propose
    MaxOrders,   \* bound on the exits DhanExecutor is asked for of a trade
    MaxResends   \* POSTs of one call of it that go unanswered and are sent again

Trades == 1..Count

ASSUME TradeEngineAssumption ==
    /\ {Count, Burst, MaxOrders} \subseteq Nat \ {0} /\ MaxResends \in Nat
    /\ Prices \subseteq Nat \ {0}
    /\ Trailing \subseteq Prices
    /\ \A t \in Trades :
         /\ ValidDefinition(Definition[t])
         /\ {Definition[t].trigger, Definition[t].stop} \subseteq Prices
         /\ \A i \in 1..Len(Definition[t].targets) : Definition[t].targets[i] \in Prices
         /\ Definition[t].mode \in {"PAPER", "LIVE"}
         /\ Definition[t].market \in BOOLEAN
         /\ Definition[t].plan \in [1..Len(Definition[t].targets) -> Nat]

VARIABLES
    created,  \* TradingEngineService.trades holds the trades 1..created
    trade,    \* the aggregates
    handler,  \* the calls that are running
    due,      \* planned partial exits TargetManager.onTargetHit has still to request
    mark,     \* PaperExecutor.marketPrices of the instrument
    burst,    \* frames of this read not yet dispatched
    order,    \* the executor's side of each trade
    alive     \* the process has not met an unhandled rejection

vars == <<created, trade, handler, due, mark, burst, order, alive>>

Def(t) == Definition[t]
Paper(t) == Def(t).mode = "PAPER"

-----------------------------------------------------------------------------
Calling == {"entry", "exit", "cancel"}

Idle == [pc |-> "idle", by |-> "tick", trade |-> 1, last |-> 0, price |-> 0, quantity |-> 0]

(* A handler whose continuation runs in this turn of the event loop *)
Hot(h) == handler[h].pc = "loop" \/ (handler[h].pc \in Calling /\ Paper(handler[h].trade))

(* A new turn starts: a message, a reply or a timer *)
NewTurn == alive /\ burst = 0 /\ \A h \in Handlers : ~Hot(h)

(* The entries an executor was asked for, what the order it answered with   *)
(* bought and has resting, and what the orders nobody knows of buy; the     *)
(* exits, what their orders sold and have resting; PaperExecutor's status   *)
(* EXITED.                                                                  *)
NoOrders == [entries |-> 0, bought |-> 0, buying |-> 0, stray |-> 0,
             exits |-> 0, sold |-> 0, selling |-> 0, closed |-> FALSE]

Init ==
    /\ created = 0
    /\ trade = [t \in Trades |-> New(Def(t))]
    /\ handler = [h \in Handlers |-> Idle]
    /\ due = [t \in Trades |-> {}]
    /\ mark \in Prices
    /\ burst = 0
    /\ order = [t \in Trades |-> NoOrders]
    /\ alive = TRUE

Planned(t, hits) == {i \in hits : Def(t).plan[i] > 0}

(* The trade is tr, and publishDomainEvents drains its events: a TargetHit  *)
(* makes TargetManager look up the plan.                                    *)
Publish(t, tr) ==
    /\ trade' = [trade EXCEPT ![t] = [tr EXCEPT !.hits = {}]]
    /\ due' = [due EXCEPT ![t] = @ \cup Planned(t, tr.hits)]

(* The trade is tr, its events still queued. *)
Keep(t, tr) == trade' = [trade EXCEPT ![t] = tr] /\ UNCHANGED due

-----------------------------------------------------------------------------
CreateTrade ==
    /\ NewTurn
    /\ created < Count
    /\ created' = created + 1
    /\ Publish(created + 1, Arm(trade[created + 1]).trade)
    /\ UNCHANGED <<handler, mark, burst, order, alive>>

(* handleMarketPriceUpdate goes on to the next trade of its list *)
Onward(run) ==
    IF run.trade = run.last THEN Idle
    ELSE [run EXCEPT !.pc = "loop", !.trade = @ + 1, !.quantity = 0]

(* Whether this price makes the trade place its entry *)
Enters(t, price) ==
    /\ trade[t].state = "WAITING_ENTRY"
    /\ Def(t).market \/ Reached(Def(t).direction, price, Def(t).trigger)

(* The trade after evaluateActive, if evaluateTrade calls it *)
Evaluated(t, price) ==
    IF trade[t].state = "ACTIVE" /\ ~trade[t].awaiting
    THEN AdvancePrice(Def(t), trade[t], price) ELSE trade[t]

Exits(tr) == tr.state = "ACTIVE" /\ tr.awaiting

(* evaluateTrade up to its first await.  `run` is the handler's record. *)
EvaluateTrade(h, run) ==
    LET t == run.trade
        tr == Evaluated(t, run.price)
    IN  \/ /\ Enters(t, run.price)
           /\ Publish(t, TriggerEntry(trade[t]).trade)
           /\ handler' = [handler EXCEPT ![h] = [run EXCEPT !.pc = "entry"]]
        \/ /\ ~Enters(t, run.price)
           /\ Exits(tr)
           /\ Keep(t, BeginExitAttempt(tr))
           /\ handler' = [handler EXCEPT ![h] = [run EXCEPT !.pc = "exit",
                                                            !.quantity = OpenQuantity(tr)]]
        \/ /\ ~Enters(t, run.price)
           /\ ~Exits(tr)
           /\ Publish(t, tr)
           /\ handler' = [handler EXCEPT ![h] = Onward(run)]

(* A frame of the feed: PaperExecutor takes the price, and the engine's     *)
(* handler runs until it waits.  Other frames of the read may follow.       *)
Tick(h, price) ==
    /\ \/ NewTurn /\ burst' \in 0..(Burst - 1)
       \/ alive /\ burst > 0 /\ burst' = burst - 1
    /\ created > 0
    /\ handler[h] = Idle
    /\ mark' = price
    /\ EvaluateTrade(h, [pc |-> "loop", by |-> "tick", trade |-> 1, last |-> created,
                         price |-> price, quantity |-> 0])
    /\ UNCHANGED <<created, order, alive>>

(* The read held fewer frames, or no handler is left to model the next one. *)
EndOfRead ==
    /\ alive
    /\ burst > 0
    /\ burst' = 0
    /\ UNCHANGED <<created, trade, handler, due, mark, order, alive>>

NextTrade(h) ==
    /\ alive /\ burst = 0
    /\ handler[h].pc = "loop"
    /\ EvaluateTrade(h, handler[h])
    /\ UNCHANGED <<created, mark, burst, order, alive>>

-----------------------------------------------------------------------------
(* The continuation of an executor call whose command ended as `result`: a  *)
(* throw leaves the events queued, and ends the process if a price handler  *)
(* was running.                                                             *)
Continue(h, result) ==
    LET t == handler[h].trade
    IN  /\ IF result.ok THEN Publish(t, result.trade) ELSE Keep(t, result.trade)
        /\ handler' = [handler EXCEPT ![h] =
                         IF result.ok /\ handler[h].by = "tick" THEN Onward(handler[h]) ELSE Idle]
        /\ alive' = (result.ok \/ handler[h].by # "tick")

Waiting(h, pc, mode) ==
    /\ alive /\ handler[h].pc = pc
    /\ Def(handler[h].trade).mode = mode

Answer(status, quantity, price) ==
    [status |-> status, quantity |-> quantity, price |-> price]

(* PaperExecutor.placeEntryOrder, with the default configuration: a MARKET  *)
(* order fills in full at the market price.                                 *)
PaperEntry(h) ==
    LET t == handler[h].trade
    IN  /\ Waiting(h, "entry", "PAPER")
        /\ burst = 0
        /\ order' = [order EXCEPT ![t].entries = @ + 1, ![t].bought = @ + Def(t).quantity]
        /\ Continue(h, ApplyEntryOrderResponse(Def(t), trade[t],
                                               Answer("FILLED", Def(t).quantity, mark)))
        /\ UNCHANGED <<created, mark, burst>>

(* PaperExecutor.exitPosition sells a quantity of an order that is filled,  *)
(* which it then is no longer.                                              *)
PaperExitable(t, quantity) == ~order[t].closed /\ quantity \in 1..order[t].bought

PaperExit(h) ==
    LET t == handler[h].trade
        quantity == handler[h].quantity
    IN  /\ Waiting(h, "exit", "PAPER")
        /\ burst = 0
        /\ \/ /\ PaperExitable(t, quantity)
              /\ order' = [order EXCEPT ![t].exits = @ + 1, ![t].sold = @ + quantity,
                                        ![t].closed = TRUE]
              /\ Continue(h, ApplyExitOrderResponse(trade[t],
                                   Answer("FILLED", quantity, handler[h].price)))
           \/ /\ ~PaperExitable(t, quantity)
              /\ Continue(h, MarkExitAttemptFailed(trade[t]))
              /\ UNCHANGED order
        /\ UNCHANGED <<created, mark, burst>>

-----------------------------------------------------------------------------
(* DhanExecutor: what a submitted order for a quantity has come to when the *)
(* call ends: how much of it is filled and how much rests.                  *)
Fates(quantity) ==
    {fate \in [filled : 0..quantity, resting : 0..quantity] :
        fate.filled + fate.resting = quantity \/ fate.resting = 0}

(* The statuses the order book may give an order with that fate *)
StatusOf(fate, quantity) ==
    CASE fate.filled = quantity -> {"FILLED"}
      [] fate.resting > 0 /\ fate.filled = 0 -> {"OPEN"}
      [] fate.resting > 0 /\ fate.filled > 0 -> {"PARTIALLY_FILLED"}
      [] fate.resting = 0 /\ fate.filled = 0 -> {"REJECTED", "CANCELLED"}
      [] fate.resting = 0 /\ fate.filled \in 1..(quantity - 1) -> {"CANCELLED"}

(* safeSend answers a 5xx or a lost reply by sending the same POST again.    *)
(* The copies carry one correlation id, but nothing says that the broker    *)
(* drops any for it: each may be an order of its own.  Nobody learns the    *)
(* number of that order, so that nothing in the program depends on when it  *)
(* is filled: all that the copies of an order for a quantity come to.       *)
Copies(quantity) == 0..MaxResends * quantity

(* placeEntryOrder: the safety gate refuses, and the call throws; or orders *)
(* are placed, and the call answers with the status of the last, or throws  *)
(* because that answer is lost, or it was refused.                          *)
LiveEntry(h) ==
    LET t == handler[h].trade
        Placed(fate, copies) ==
            order' = [order EXCEPT ![t].entries = @ + 1,
                                   ![t].bought = @ + fate.filled, ![t].buying = @ + fate.resting,
                                   ![t].stray = @ + copies]
    IN  /\ Waiting(h, "entry", "LIVE")
        /\ NewTurn
        /\ \/ /\ Continue(h, MarkEntryOrderFailed(trade[t]))
              /\ UNCHANGED order
           \/ \E fate \in Fates(Def(t).quantity), copies \in Copies(Def(t).quantity) :
                /\ Placed(fate, copies)
                /\ \/ Continue(h, MarkEntryOrderFailed(trade[t]))
                   \/ \E status \in StatusOf(fate, Def(t).quantity), price \in Prices :
                        /\ fate.filled = 0 => price = Def(t).trigger
                        /\ Continue(h, ApplyEntryOrderResponse(Def(t), trade[t],
                                         Answer(status, fate.filled, price)))
        /\ UNCHANGED <<created, mark, burst>>

(* exitPosition: throws unless the entry order it knows of has filled that  *)
(* much; else a LIMIT sell order is submitted, as often as placeEntryOrder. *)
LiveExit(h) ==
    LET t == handler[h].trade
        quantity == handler[h].quantity
        Placed(fate, copies) ==
            order' = [order EXCEPT ![t].exits = @ + 1,
                                   ![t].sold = @ + fate.filled + copies,
                                   ![t].selling = @ + fate.resting]
    IN  /\ Waiting(h, "exit", "LIVE")
        /\ NewTurn
        /\ \/ /\ Continue(h, MarkExitAttemptFailed(trade[t]))
              /\ UNCHANGED order
           \/ /\ quantity \in 1..order[t].bought
              /\ order[t].exits < MaxOrders
              /\ \E fate \in Fates(quantity), copies \in Copies(quantity) :
                   /\ Placed(fate, copies)
                   /\ \/ Continue(h, MarkExitAttemptFailed(trade[t]))
                      \/ \E status \in StatusOf(fate, quantity) :
                           Continue(h, ApplyExitOrderResponse(trade[t],
                                         Answer(status, fate.filled, handler[h].price)))
        /\ UNCHANGED <<created, mark, burst>>

(* cancelOrder throws unless the entry order it knows of rests; the DELETE  *)
(* or the status call after it may fail too.  The engine marks the trade     *)
(* FAILED when the call throws.                                             *)
LiveCancel(h) ==
    LET t == handler[h].trade
    IN  /\ Waiting(h, "cancel", "LIVE")
        /\ NewTurn
        /\ \/ /\ Continue(h, MarkFailed(trade[t]))
              /\ UNCHANGED order
           \/ /\ order[t].buying > 0
              /\ order' = [order EXCEPT ![t].buying = 0]
              /\ \/ Continue(h, Cancel(trade[t]))
                 \/ Continue(h, MarkFailed(trade[t]))
        /\ UNCHANGED <<created, mark, burst>>

(* The broker fills what rests. *)
BrokerFills(t) ==
    /\ NewTurn
    /\ \/ /\ order[t].buying > 0
          /\ order' = [order EXCEPT ![t].bought = @ + order[t].buying, ![t].buying = 0]
       \/ /\ order[t].selling > 0
          /\ order' = [order EXCEPT ![t].sold = @ + order[t].selling, ![t].selling = 0]
    /\ UNCHANGED <<created, trade, handler, due, mark, burst, alive>>

-----------------------------------------------------------------------------
(* Calls from outside the price loop *)

(* cancelTrade: an entry order that rests is cancelled first. *)
CancelTrade(h, t) ==
    /\ NewTurn
    /\ handler[h] = Idle
    /\ t <= created
    /\ \/ /\ trade[t].state = "ENTRY_PENDING" /\ trade[t].ordered
          /\ handler' = [handler EXCEPT ![h] = [Idle EXCEPT !.pc = "cancel", !.by = "cancel",
                                                            !.trade = t]]
          /\ UNCHANGED <<trade, due>>
       \/ /\ ~(trade[t].state = "ENTRY_PENDING" /\ trade[t].ordered)
          /\ Cancel(trade[t]).ok
          /\ Publish(t, Cancel(trade[t]).trade)
          /\ UNCHANGED handler
    /\ UNCHANGED <<created, mark, burst, order, alive>>

(* assertExitable *)
Exitable(t, quantity) ==
    trade[t].state = "ACTIVE" /\ quantity \in 1..OpenQuantity(trade[t])

StartExit(h, t, quantity, by) ==
    /\ handler[h] = Idle
    /\ trade' = [trade EXCEPT ![t] = BeginExitAttempt(@)]
    /\ handler' = [handler EXCEPT ![h] = [Idle EXCEPT !.pc = "exit", !.by = by, !.trade = t,
                                                      !.price = mark, !.quantity = quantity]]

RequestFullExit(h, t) ==
    /\ NewTurn
    /\ Exitable(t, OpenQuantity(trade[t]))
    /\ StartExit(h, t, OpenQuantity(trade[t]), "full")
    /\ UNCHANGED <<created, due, mark, burst, order, alive>>

(* TargetManager.onTargetHit, once it has the plan: an exit that cannot be  *)
(* requested is logged and forgotten.                                       *)
RequestPartialExit(h, t, i) ==
    /\ NewTurn
    /\ i \in due[t]
    /\ due' = [due EXCEPT ![t] = @ \ {i}]
    /\ \/ Exitable(t, Def(t).plan[i]) /\ StartExit(h, t, Def(t).plan[i], "partial")
       \/ ~Exitable(t, Def(t).plan[i]) /\ UNCHANGED <<trade, handler>>
    /\ UNCHANGED <<created, mark, burst, order, alive>>

(* TrailingManager: a stop loss its strategy proposes *)
UpdateTrailingStopLoss(t, stop) ==
    /\ NewTurn
    /\ t <= created
    /\ MoveStopLoss(Def(t), trade[t], stop) # trade[t]
    /\ Publish(t, MoveStopLoss(Def(t), trade[t], stop))
    /\ UNCHANGED <<created, handler, mark, burst, order, alive>>

HandlerStep(h) ==
    \/ NextTrade(h)
    \/ PaperEntry(h)
    \/ PaperExit(h)
    \/ LiveEntry(h)
    \/ LiveExit(h)
    \/ LiveCancel(h)

Next ==
    \/ CreateTrade
    \/ EndOfRead
    \/ \E h \in Handlers : HandlerStep(h)
    \/ \E h \in Handlers, price \in Prices : Tick(h, price)
    \/ \E h \in Handlers, t \in Trades : CancelTrade(h, t)
    \/ \E h \in Handlers, t \in Trades : RequestFullExit(h, t)
    \/ \E h \in Handlers, t \in Trades : \E i \in due[t] : RequestPartialExit(h, t, i)
    \/ \E t \in Trades, stop \in Trailing : UpdateTrailingStopLoss(t, stop)
    \/ \E t \in Trades : BrokerFills(t)

Spec == Init /\ [][Next]_vars

(* Continuations run, and the feed goes on quoting. *)
FairSpec ==
    /\ Spec
    /\ \A h \in Handlers : WF_vars(HandlerStep(h))
    /\ WF_vars(EndOfRead)
    /\ WF_vars(\E h \in Handlers, price \in Prices : Tick(h, price))

-----------------------------------------------------------------------------
(* The types of the variables. *)
HandlerRecord ==
    [pc : {"idle", "loop"} \cup Calling, by : {"tick", "full", "partial", "cancel"},
     trade : Trades, last : 0..Count, price : Nat, quantity : Int]

OrderRecord ==
    [entries : Nat, bought : Nat, buying : Nat, stray : Nat,
     exits : Nat, sold : Nat, selling : Nat, closed : BOOLEAN]

TypeOK ==
    /\ created \in 0..Count
    /\ DOMAIN trade = Trades
    /\ \A t \in Trades : trade[t] \in TradeRecord(Def(t), Prices)
    /\ handler \in [Handlers -> HandlerRecord]
    /\ DOMAIN due = Trades
    /\ \A t \in Trades : due[t] \subseteq 1..Len(Def(t).targets)
    /\ mark \in Prices
    /\ burst \in 0..(Burst - 1)
    /\ order \in [Trades -> OrderRecord]
    /\ alive \in BOOLEAN

(* However many price handlers run at a time, and whatever cancels come in  *)
(* between, a trade's entry order is sent to its executor at most once.     *)
EntryPlacedOnce == \A t \in DOMAIN order : order[t].entries <= 1

(* A trade never records a fill its executor did not make; a paper trade    *)
(* has recorded every one.                                                  *)
BooksFollowOrders ==
    \A t \in DOMAIN trade :
        /\ trade[t].filled <= order[t].bought
        /\ trade[t].exited <= order[t].sold
        /\ trade[t].mode = "PAPER" =>
             trade[t].filled = order[t].bought /\ trade[t].exited = order[t].sold

(* Exits that overlap - of two prices read together, of several targets, of *)
(* a request - never sell more of a paper trade than it bought; COMPLETED,  *)
(* it has bought its quantity and sold it; ended CANCELLED, REJECTED or     *)
(* FAILED, it holds no position.                                            *)
EndedWithoutEntry(t) == trade[t].state \in {"CANCELLED", "REJECTED", "FAILED"}

PaperEndsFlat ==
    \A t \in DOMAIN trade : trade[t].mode = "PAPER" =>
        /\ order[t].sold <= order[t].bought
        /\ trade[t].state = "COMPLETED" =>
             order[t].bought = Def(t).quantity /\ order[t].sold = Def(t).quantity
        /\ EndedWithoutEntry(t) => order[t].bought = 0

(* Whatever order target hits and trailing moves come in, the stop loss of  *)
(* an ACTIVE trade locks in what the last target hit is worth: the target   *)
(* before it, or the entry price; and before any target, the initial stop.  *)
LockedIn(t) ==
    CASE trade[t].next = 1 -> Def(t).stop
      [] trade[t].next = 2 -> trade[t].fillPrice
      [] trade[t].next > 2 -> Def(t).targets[trade[t].next - 2]

StopFollowsTargets ==
    \A t \in DOMAIN trade :
        trade[t].state = "ACTIVE" => ~Better(Def(t).direction, LockedIn(t), trade[t].stop)

(* Once its stop loss is hit, a trade waits for its exit until nothing of   *)
(* it is open: no failed, partial or late answer makes it forget.           *)
KeepsStopHit(t) == trade[t].awaiting => trade'[t].awaiting \/ OpenQuantity(trade'[t]) <= 0
StopHitIsKept == [][\A t \in DOMAIN trade : KeepsStopHit(t)]_vars

(* A paper trade whose stop loss is hit is COMPLETED. *)
StopIsHonoured ==
    \A t \in Trades :
        Paper(t) => (trade[t].awaiting ~> trade[t].state = "COMPLETED")

(* What the trader sees of a trade and its orders is a Position. *)
PhaseOf(state) ==
    CASE state \in {"DRAFT", "WAITING_ENTRY", "ENTRY_PENDING"} -> "waiting"
      [] state = "COMPLETED" -> "completed"
      [] state \in Terminal \ {"COMPLETED"} -> "ended"
      [] OTHER -> "open"

PositionOf(def, tr, o) ==
    [mode |-> tr.mode, quantity |-> def.quantity, phase |-> PhaseOf(tr.state),
     entries |-> o.entries, bought |-> o.bought + o.stray, sold |-> o.sold,
     filled |-> tr.filled, exited |-> tr.exited]

Positions == [t \in DOMAIN trade |-> PositionOf(Def(t), trade[t], order[t])]

Kept == INSTANCE Position WITH position <- Positions, OrdersPerCall <- 1 + MaxResends

(* Whatever prices, exits, cancels and answers come in whatever order, the   *)
(* executor is asked to buy a trade once, and to sell it only when it was   *)
(* open; it records no more than one order for its quantity bought, and no  *)
(* more than was executed, and ends once.  A paper trade is bought once, in *)
(* full, sells no more than it holds and is completed by the sale that      *)
(* leaves nothing; of a live one the broker may have bought and sold as     *)
(* much again for every POST it was sent again.                             *)
PositionsAreKept == Kept!Spec

(* The executor never holds or has filled exit orders for more than the     *)
(* entry bought: it is sent no duplicate.                                   *)
NoDuplicateExit ==
    \A t \in Trades : order[t].sold + order[t].selling <= order[t].bought
=============================================================================
