--------------------------- MODULE TradeEngineProofs ---------------------------
(* What holds of TradingEngineService for any number of trades, handlers,     *)
(* prices and quantities: one entry order per trade, books that say what was  *)
(* executed, a stop loss that follows the targets and is not forgotten once   *)
(* hit, and paper trades that end flat.                                       *)
EXTENDS TradeEngine, FiniteSetTheorems, TLAPS

(* The states a trade is in between two steps *)
Seen == {"DRAFT", "WAITING_ENTRY", "ENTRY_PENDING", "ACTIVE"}
        \cup {"COMPLETED", "CANCELLED", "REJECTED", "FAILED"}

IsTrade(t, tr) == tr \in TradeRecord(Def(t), Prices) /\ tr.state \in Seen

On(hf, h, t, pc) == hf[h].pc = pc /\ hf[h].trade = t

(* An entry order is sent once: by the one handler that is at it, of a trade  *)
(* that no longer waits for its entry.                                        *)
Entering(t, tr, o, hf) ==
    /\ o.entries \in {0, 1}
    /\ tr.state \in {"DRAFT", "WAITING_ENTRY"} => tr.entry = "none" /\ o.entries = 0
    /\ \A h \in Handlers : On(hf, h, t, "entry") =>
         /\ o.entries = 0 /\ tr.entry = "SUBMITTED"
         /\ tr.state \in {"ENTRY_PENDING", "CANCELLED", "FAILED"}
         /\ \A g \in Handlers : On(hf, g, t, "entry") => g = h

(* Before it is sent, nothing is filled, hit or sold. *)
Unsent(t, tr, o, hf) ==
    o.entries = 0 =>
        /\ o = NoOrders
        /\ tr.filled = 0 /\ tr.exited = 0 /\ tr.next = 1
        /\ tr.state \notin {"ACTIVE", "COMPLETED"}
        /\ \A h \in Handlers : ~On(hf, h, t, "exit")

Books(t, tr, o) ==
    /\ tr.filled <= o.bought /\ tr.exited <= o.sold
    /\ Paper(t) => tr.filled = o.bought /\ tr.exited = o.sold

Locked(t, tr) ==
    CASE tr.next = 1 -> Def(t).stop
      [] tr.next = 2 -> tr.fillPrice
      [] tr.next > 2 -> Def(t).targets[tr.next - 2]

StopFollows(t, tr) ==
    tr.state = "ACTIVE" => ~Better(Def(t).direction, Locked(t, tr), tr.stop)

(* A paper trade is sold once, by the one exit that finds its order open, and *)
(* waits for its entry only while a handler is at it.                         *)
OnPaper(t, tr, o, hf) ==
    Paper(t) =>
        /\ tr.state \notin {"REJECTED", "FAILED"}
        /\ tr.state = "ENTRY_PENDING" => \E h \in Handlers : On(hf, h, t, "entry")
        /\ \A h \in Handlers : On(hf, h, t, "entry") => tr.state = "ENTRY_PENDING"
        /\ o.entries = 1 => o.bought = Def(t).quantity /\ tr.state \in {"ACTIVE", "COMPLETED"}
        /\ o.buying = 0 /\ o.selling = 0 /\ o.stray = 0
        /\ ~o.closed => o.sold = 0
        /\ o.sold <= o.bought
        /\ tr.state = "COMPLETED" => o.sold = o.bought
        /\ ~o.closed => \A h \in Handlers : On(hf, h, t, "exit") =>
             tr.exit = "SUBMITTED" /\ hf[h].quantity \in 1..o.bought

(* A trade that is open has recorded a fill; one that waits has not, and no   *)
(* more than its quantity is bought of it by the order it knows of, nor more  *)
(* than the copies of that order can come to by those; nothing is sold of one *)
(* that was never opened.                                                     *)
Waits == {"DRAFT", "WAITING_ENTRY", "ENTRY_PENDING"}
Opened == {"ACTIVE", "COMPLETED"}

Extra(t) == MaxResends * Def(t).quantity

Opens(t, tr, o, hf) ==
    /\ o.bought + o.buying <= Def(t).quantity /\ o.stray <= Extra(t)
    /\ tr.state \in Waits => tr.filled = 0
    /\ tr.state \in Opened => tr.filled > 0
    /\ tr.state \notin Opened =>
         /\ tr.exited = 0 /\ o.sold = 0 /\ o.selling = 0
         /\ \A h \in Handlers : ~On(hf, h, t, "exit")

TradeInv(t, tr, o, hf) ==
    /\ IsTrade(t, tr) /\ o \in OrderRecord
    /\ Entering(t, tr, o, hf) /\ Unsent(t, tr, o, hf)
    /\ Books(t, tr, o) /\ StopFollows(t, tr) /\ OnPaper(t, tr, o, hf)
    /\ Opens(t, tr, o, hf)

(* A price handler is at a trade of its list. *)
InLoop(r) ==
    /\ r.pc = "loop" => r.by = "tick"
    /\ r.by = "tick" /\ r.pc # "idle" => r.trade <= r.last

Loops ==
    /\ created \in 0..Count
    /\ mark \in Prices
    /\ burst \in 0..(Burst - 1)
    /\ alive \in BOOLEAN
    /\ handler \in [Handlers -> HandlerRecord]
    /\ \A h \in Handlers : InLoop(handler[h])

Dues ==
    /\ due = [t \in Trades |-> due[t]]
    /\ \A t \in Trades : due[t] \subseteq 1..Len(Def(t).targets)

World ==
    /\ Loops /\ Dues
    /\ trade = [t \in Trades |-> trade[t]]
    /\ order = [t \in Trades |-> order[t]]

IInv == World /\ \A t \in Trades : TradeInv(t, trade[t], order[t], handler)

-----------------------------------------------------------------------------
(* The transition tables, of the states that are seen *)

LEMMA Transitions ==
    ASSUME NEW s \in Seen
    PROVE  /\ CanTransition(s, "WAITING_ENTRY") <=> s = "DRAFT"
           /\ CanTransition(s, "ENTRY_PENDING") <=> s = "WAITING_ENTRY"
           /\ CanTransition(s, "ENTRY_FILLED") <=> s = "ENTRY_PENDING"
           /\ CanTransition(s, "COMPLETED") <=> s = "ACTIVE"
           /\ CanTransition(s, "CANCELLED") <=> s \in {"DRAFT", "WAITING_ENTRY", "ENTRY_PENDING"}
           /\ CanTransition(s, "FAILED") <=> s = "ENTRY_PENDING"
           /\ CanTransition(s, "REJECTED") <=> s \in {"DRAFT", "ENTRY_PENDING"}
BY DEF Seen, CanTransition, StateTable, Live

LEMMA Advances ==
    ASSUME NEW s \in Lifecycle
    PROVE  /\ CanAdvance("SUBMITTED", "FILLED") /\ CanAdvance("SUBMITTED", "FAILED")
           /\ CanAdvance("FILLED", "COMPLETED")
           /\ CanAdvance(s, "COMPLETED") <=> s = "FILLED"
           /\ \A how \in Lifecycle : CanAdvance(s, how) => s \notin {"REJECTED", "FAILED", "COMPLETED"}
BY DEF Lifecycle, CanAdvance, LifecycleTable

LEMMA Definitions ==
    ASSUME NEW t \in Trades
    PROVE  /\ Def(t).direction \in {"LONG", "SHORT"}
           /\ Def(t).quantity \in Nat \ {0}
           /\ Def(t).trigger \in Prices /\ Def(t).stop \in Prices
           /\ Def(t).targets \in Seq(Nat \ {0}) /\ Len(Def(t).targets) \in Nat \ {0}
           /\ \A i \in 1..Len(Def(t).targets) : Def(t).targets[i] \in Prices
           /\ Def(t).mode \in {"PAPER", "LIVE"}
           /\ Prices \subseteq Nat \ {0}
           /\ Count \in Nat \ {0} /\ Burst \in Nat \ {0}
BY TradeEngineAssumption DEF TradeEngineAssumption, ValidDefinition, Def

(* What one request may come to: its order, and the copies of it. *)
LEMMA Copying ==
    ASSUME NEW t \in Trades
    PROVE  /\ Extra(t) \in Nat
           /\ (1 + MaxResends) * Def(t).quantity = Def(t).quantity + Extra(t)
           /\ \A copies \in Copies(Def(t).quantity) : copies \in Nat /\ copies <= Extra(t)
           /\ \A n \in Nat : Copies(n) \subseteq Nat
<1>1. MaxResends \in Nat /\ Def(t).quantity \in Nat
  BY TradeEngineAssumption, Definitions DEF TradeEngineAssumption
<1>2. ASSUME NEW n \in Nat, NEW q \in Nat
      PROVE  n * q \in Nat /\ (1 + n) * q = q + n * q
  OBVIOUS
<1>3. \A n \in Nat : \A i \in 0..n : i \in Nat /\ i <= n
  OBVIOUS
<1>4. \A n \in Nat : MaxResends * n \in Nat
  BY <1>1, <1>2
<1>5. \A n \in Nat : \A i \in Copies(n) : i \in Nat /\ i <= MaxResends * n
  BY <1>3, <1>4 DEF Copies
<1> QED
  BY <1>1, <1>2, <1>5 DEF Extra

-----------------------------------------------------------------------------
(* The commands of the aggregate *)

Same(tr, tr2) ==
    /\ tr2.state = tr.state /\ tr2.entry = tr.entry /\ tr2.exit = tr.exit
    /\ tr2.fillPrice = tr.fillPrice /\ tr2.filled = tr.filled /\ tr2.exited = tr.exited
    /\ tr.state # "ACTIVE" => tr2.next = tr.next

LEMMA PriceAdvances ==
    ASSUME NEW t \in Trades, NEW tr, IsTrade(t, tr), tr.state = "ACTIVE", StopFollows(t, tr),
           NEW price \in Nat
    PROVE  LET tr2 == AdvancePrice(Def(t), tr, price)
           IN  /\ IsTrade(t, tr2) /\ Same(tr, tr2) /\ StopFollows(t, tr2)
               /\ tr.awaiting => tr2.awaiting
<1> DEFINE def == Def(t)
           hits == Hit(def, tr, price)
           last == tr.next + Cardinality(hits) - 1
           stop == IF hits = {} THEN tr.stop ELSE StopAfter(def, tr, last)
           tr2 == AdvancePrice(def, tr, price)
<1>1. /\ def.direction \in {"LONG", "SHORT"} /\ def.stop \in Prices
      /\ Len(def.targets) \in Nat
      /\ \A i \in 1..Len(def.targets) : def.targets[i] \in Prices
      /\ Prices \subseteq Nat
  BY Definitions
<1>2. tr.next \in 1..Len(def.targets) + 1 /\ tr.fillPrice \in Prices /\ tr.stop \in Prices
      /\ tr.hits \subseteq 1..Len(def.targets) /\ tr.awaiting \in BOOLEAN
  BY DEF IsTrade, TradeRecord
<1>3. hits \subseteq tr.next..Len(def.targets)
  BY DEF Hit
<1>4. /\ IsFiniteSet(hits) /\ Cardinality(hits) \in Nat
      /\ Cardinality(hits) <= Len(def.targets) - tr.next + 1
      /\ hits = {} <=> Cardinality(hits) = 0
  <2>1. IsFiniteSet(tr.next..Len(def.targets))
        /\ Cardinality(tr.next..Len(def.targets)) = Len(def.targets) - tr.next + 1
    BY <1>1, <1>2, FS_Interval
  <2>2. IsFiniteSet(hits) /\ Cardinality(hits) <= Cardinality(tr.next..Len(def.targets))
    BY <1>3, <2>1, FS_Subset
  <2> QED
    BY <2>1, <2>2, FS_CardinalityType, FS_EmptySet
<1>5. last \in Nat /\ last + 1 \in 1..Len(def.targets) + 1
  BY <1>1, <1>2, <1>4, SMTT(20)
<1>6. hits # {} => last \in 1..Len(def.targets)
  BY <1>1, <1>2, <1>4
<1>7. stop \in Prices
  <2>1. CASE hits = {}
    BY <2>1, <1>2
  <2>2. CASE hits # {}
    <3>1. last \in 1..Len(def.targets)
      BY <2>2, <1>6
    <3>2. last = 1 \/ last - 1 \in 1..Len(def.targets)
      BY <3>1, <1>1
    <3> HIDE DEF hits, last
    <3>3. StopAfter(def, tr, last) \in Prices
      BY <3>2, <1>1, <1>2 DEF StopAfter
    <3> QED
      BY <3>3, <2>2
  <2> QED
    BY <2>1, <2>2
<1>8. tr2 = [tr EXCEPT !.next = last + 1, !.stop = stop, !.hits = @ \cup hits,
                       !.awaiting = @ \/ StopCrossed(def.direction, price, stop)]
  BY DEF AdvancePrice
<1>9. hits \subseteq 1..Len(def.targets)
  BY <1>1, <1>2, <1>3
<1> HIDE DEF hits, last, stop, tr2
<1>10. (tr.awaiting \/ StopCrossed(def.direction, price, stop)) \in BOOLEAN
  OBVIOUS
<1>11. IsTrade(t, tr2)
  BY <1>2, <1>5, <1>7, <1>8, <1>9, <1>10 DEF IsTrade, TradeRecord
<1>12. /\ Same(tr, tr2) /\ tr2.next = last + 1 /\ tr2.stop = stop
       /\ tr2.awaiting = (tr.awaiting \/ StopCrossed(def.direction, price, stop))
  BY <1>8 DEF IsTrade, TradeRecord, Same
<1>13. StopFollows(t, tr2)
  <2>1. CASE hits = {}
    <3>1. last + 1 = tr.next /\ stop = tr.stop
      BY <2>1, <1>2, <1>4 DEF last, stop
    <3> QED
      BY <3>1, <1>12 DEF StopFollows, Locked, Same
  <2>2. CASE hits # {}
    <3>1. last \in 1..Len(def.targets) /\ stop = StopAfter(def, tr, last)
      BY <2>2, <1>6 DEF stop
    <3>2. Locked(t, tr2) = stop
      <4>1. CASE last = 1
        BY <3>1, <4>1, <1>12 DEF Locked, StopAfter, Same
      <4>2. CASE last # 1
        <5>1. last + 1 > 2 /\ last + 1 - 2 = last - 1 /\ last + 1 # 1 /\ last + 1 # 2
          BY <3>1, <4>2, <1>1
        <5> QED
          BY <3>1, <4>2, <5>1, <1>12 DEF Locked, StopAfter
      <4> QED
        BY <4>1, <4>2
    <3>3. ~Better(def.direction, stop, stop)
      BY <1>1, <1>7 DEF Better
    <3> QED
      BY <3>2, <3>3, <1>12 DEF StopFollows
  <2> QED
    BY <2>1, <2>2
<1> QED
  BY <1>11, <1>12, <1>13 DEF tr2

-----------------------------------------------------------------------------
(* What a step does to the position of a trade *)

Moves(t, tr, o, tr2, o2) ==
    \/ PositionOf(Def(t), tr2, o2) = PositionOf(Def(t), tr, o)
    \/ Kept!Step(PositionOf(Def(t), tr, o), PositionOf(Def(t), tr2, o2))

LEMMA Phases ==
    ASSUME NEW s \in Seen
    PROVE  /\ PhaseOf(s) = "waiting" <=> s \in Waits
           /\ PhaseOf(s) = "open" <=> s = "ACTIVE"
           /\ PhaseOf(s) = "completed" <=> s = "COMPLETED"
           /\ PhaseOf(s) = "ended" <=> s \in {"CANCELLED", "REJECTED", "FAILED"}
BY DEF Seen, PhaseOf, Waits, Terminal

LEMMA SamePosition ==
    ASSUME NEW t \in Trades, NEW tr, NEW tr2, NEW o, NEW o2, IsTrade(t, tr), IsTrade(t, tr2),
           tr2.state = tr.state \/ {tr.state, tr2.state} \subseteq Waits,
           tr2.filled = tr.filled, tr2.exited = tr.exited,
           o2.entries = o.entries, o2.bought = o.bought, o2.stray = o.stray, o2.sold = o.sold
    PROVE  Moves(t, tr, o, tr2, o2)
<1>1. PhaseOf(tr2.state) = PhaseOf(tr.state)
  BY Phases DEF IsTrade
<1>2. tr2.mode = tr.mode
  BY DEF IsTrade, TradeRecord
<1> QED
  BY <1>1, <1>2 DEF Moves, PositionOf

(* The fields of the position before and after *)
LEMMA Seeing ==
    ASSUME NEW t \in Trades, NEW tr, NEW o, IsTrade(t, tr), o \in OrderRecord
    PROVE  LET p == PositionOf(Def(t), tr, o)
           IN  /\ p = [mode |-> Def(t).mode, quantity |-> Def(t).quantity,
                       phase |-> PhaseOf(tr.state), entries |-> o.entries,
                       bought |-> o.bought + o.stray, sold |-> o.sold,
                       filled |-> tr.filled, exited |-> tr.exited]
               /\ Def(t).quantity \in Nat \ {0}
               /\ tr.filled \in Nat /\ tr.exited \in Nat /\ tr.state \in Seen
               /\ o.entries \in Nat /\ o.bought \in Nat /\ o.sold \in Nat
               /\ o.buying \in Nat /\ o.selling \in Nat /\ o.stray \in Nat
<1>1. tr.mode = Def(t).mode
  BY DEF IsTrade, TradeRecord
<1>2. /\ tr.filled \in Nat /\ tr.exited \in Nat /\ tr.state \in Seen
      /\ o.entries \in Nat /\ o.bought \in Nat /\ o.sold \in Nat
      /\ o.buying \in Nat /\ o.selling \in Nat /\ o.stray \in Nat
  BY DEF IsTrade, TradeRecord, OrderRecord
<1> QED
  BY <1>1, <1>2, Definitions DEF PositionOf

(* The entry order was sent. *)
LEMMA BuysIt ==
    ASSUME NEW t \in Trades, NEW tr, NEW tr2, NEW o \in OrderRecord, NEW o2 \in OrderRecord,
           IsTrade(t, tr), IsTrade(t, tr2),
           o.entries = 0, o2.entries = 1, o2.sold = o.sold, tr2.exited = tr.exited,
           tr.state \in {"ENTRY_PENDING", "CANCELLED", "FAILED"},
           o2.bought <= Def(t).quantity, o2.stray <= Extra(t), tr2.filled \in {0, o2.bought},
           tr.state = "ENTRY_PENDING" => (tr2.filled > 0 <=> tr2.state = "ACTIVE"),
           \/ tr2.state = tr.state
           \/ tr.state = "ENTRY_PENDING" /\ tr2.state \in {"ACTIVE", "REJECTED", "FAILED"},
           Paper(t) => tr2.state = "ACTIVE" /\ tr2.filled = Def(t).quantity /\ o2.stray = 0
    PROVE  Moves(t, tr, o, tr2, o2)
<1> DEFINE p == PositionOf(Def(t), tr, o)
           q == PositionOf(Def(t), tr2, o2)
<1>1. /\ p = [mode |-> Def(t).mode, quantity |-> Def(t).quantity,
              phase |-> PhaseOf(tr.state), entries |-> o.entries,
              bought |-> o.bought + o.stray, sold |-> o.sold,
              filled |-> tr.filled, exited |-> tr.exited]
      /\ q = [mode |-> Def(t).mode, quantity |-> Def(t).quantity,
              phase |-> PhaseOf(tr2.state), entries |-> o2.entries,
              bought |-> o2.bought + o2.stray, sold |-> o2.sold,
              filled |-> tr2.filled, exited |-> tr2.exited]
      /\ tr2.filled \in Nat /\ tr.state \in Seen /\ tr2.state \in Seen
      /\ o2.bought \in Nat /\ o2.stray \in Nat /\ Def(t).quantity \in Nat \ {0}
  BY Seeing
<1>2. /\ \/ p.phase = "ended" /\ q.phase = "ended"
         \/ p.phase = "waiting" /\ q.phase = "open" /\ q.filled > 0
         \/ p.phase = "waiting" /\ q.phase \in {"waiting", "ended"} /\ q.filled = 0
      /\ p.mode = "PAPER" => /\ q.phase = "open"
                             /\ q.filled = p.quantity /\ q.bought = p.quantity
  BY <1>1, Phases DEF Waits, Paper
<1>3. /\ p.entries = 0
      /\ q.entries = 1 /\ Kept!Only(p, q, {"entries", "bought", "filled", "phase"})
  BY <1>1 DEF Kept!Only
<1>4. /\ q.bought \in 0..(1 + MaxResends) * p.quantity
      /\ q.filled \in 0..p.quantity /\ q.filled <= q.bought
  <2>1. o2.bought + o2.stray \in 0..(1 + MaxResends) * Def(t).quantity
    BY <1>1, Copying
  <2>2. tr2.filled \in 0..Def(t).quantity /\ tr2.filled <= o2.bought + o2.stray
    BY <1>1
  <2> QED
    BY <1>1, <2>1, <2>2
<1> HIDE DEF p, q
<1>5. Kept!Buy(p, q)
  BY <1>2, <1>3, <1>4 DEF Kept!Buy, Kept!OnPaper
<1> QED
  BY <1>5 DEF Moves, Kept!Step, p, q

(* What rests is executed. *)
LEMMA FillsIt ==
    ASSUME NEW t \in Trades, NEW tr, NEW o \in OrderRecord, NEW o2 \in OrderRecord,
           IsTrade(t, tr), ~Paper(t), o.entries = 1, o2.entries = o.entries,
           o.bought <= o2.bought, o2.bought <= Def(t).quantity, o.sold <= o2.sold,
           o2.stray = o.stray, o.stray <= Extra(t),
           o.sold # o2.sold => tr.state \in Opened
    PROVE  Moves(t, tr, o, tr, o2)
<1> DEFINE p == PositionOf(Def(t), tr, o)
           q == PositionOf(Def(t), tr, o2)
<1>1. /\ p = [mode |-> Def(t).mode, quantity |-> Def(t).quantity,
              phase |-> PhaseOf(tr.state), entries |-> o.entries,
              bought |-> o.bought + o.stray, sold |-> o.sold,
              filled |-> tr.filled, exited |-> tr.exited]
      /\ q = [mode |-> Def(t).mode, quantity |-> Def(t).quantity,
              phase |-> PhaseOf(tr.state), entries |-> o2.entries,
              bought |-> o2.bought + o2.stray, sold |-> o2.sold,
              filled |-> tr.filled, exited |-> tr.exited]
      /\ tr.state \in Seen /\ o.entries \in Nat
      /\ o.bought \in Nat /\ o2.bought \in Nat /\ o.stray \in Nat
      /\ Def(t).quantity \in Nat \ {0} /\ o.sold \in Nat /\ o2.sold \in Nat
  BY Seeing
<1>2. q.sold > p.sold => p.phase \in {"open", "completed"}
  BY <1>1, Phases DEF Opened
<1>3. /\ p.mode # "PAPER" /\ p.entries = 1 /\ q.sold >= p.sold
      /\ Kept!Only(p, q, {"bought", "sold"})
  BY <1>1 DEF Paper, Kept!Only
<1>4. q.bought \in p.bought..(1 + MaxResends) * p.quantity
  <2>1. o2.bought + o2.stray \in o.bought + o.stray..(1 + MaxResends) * Def(t).quantity
    BY <1>1, Copying
  <2> QED
    BY <1>1, <2>1
<1> HIDE DEF p, q
<1>5. Kept!Fill(p, q)
  BY <1>2, <1>3, <1>4 DEF Kept!Fill, Kept!OnPaper
<1> QED
  BY <1>5 DEF Moves, Kept!Step, p, q

(* An exit was answered, or failed. *)
LEMMA SellsIt ==
    ASSUME NEW t \in Trades, NEW tr, NEW tr2, NEW o \in OrderRecord, NEW o2 \in OrderRecord,
           IsTrade(t, tr), IsTrade(t, tr2), NEW quantity \in Nat, NEW copies \in Nat,
           tr.state \in Opened, tr2.filled = tr.filled,
           o2.entries = o.entries, o2.bought = o.bought, o2.stray = o.stray,
           o2.sold = o.sold + quantity + copies,
           tr2.exited \in {tr.exited, tr.exited + quantity},
           \/ tr2.state = tr.state
           \/ tr.state = "ACTIVE" /\ tr2.state = "COMPLETED" /\ tr2.filled <= tr2.exited,
           Paper(t) => /\ tr.state = "ACTIVE" /\ tr2.exited = o2.sold
                       /\ copies = 0 /\ o.stray = 0 /\ quantity > 0 /\ o2.sold <= o.bought
                       /\ tr2.state = "COMPLETED" <=> o2.sold = o.bought
    PROVE  Moves(t, tr, o, tr2, o2)
<1> DEFINE p == PositionOf(Def(t), tr, o)
           q == PositionOf(Def(t), tr2, o2)
<1>1. /\ p = [mode |-> Def(t).mode, quantity |-> Def(t).quantity,
              phase |-> PhaseOf(tr.state), entries |-> o.entries,
              bought |-> o.bought + o.stray, sold |-> o.sold,
              filled |-> tr.filled, exited |-> tr.exited]
      /\ q = [mode |-> Def(t).mode, quantity |-> Def(t).quantity,
              phase |-> PhaseOf(tr2.state), entries |-> o2.entries,
              bought |-> o2.bought + o2.stray, sold |-> o2.sold,
              filled |-> tr2.filled, exited |-> tr2.exited]
      /\ tr.state \in Seen /\ tr2.state \in Seen
      /\ tr.filled \in Nat /\ tr.exited \in Nat /\ o.sold \in Nat /\ o.bought \in Nat
      /\ o.stray \in Nat
  BY Seeing
<1>2. /\ PhaseOf(tr.state) \in {"open", "completed"}
      /\ PhaseOf(tr.state) = "open" <=> tr.state = "ACTIVE"
      /\ PhaseOf(tr2.state) = "completed" <=> tr2.state = "COMPLETED"
  BY <1>1, Phases DEF Opened
<1>3. /\ p.phase \in {"open", "completed"}
      /\ Kept!Only(p, q, {"sold", "exited", "phase"})
      /\ q.sold >= p.sold
      /\ q.exited \in p.exited..(p.exited + q.sold - p.sold)
  BY <1>1, <1>2 DEF Kept!Only
<1>4. \/ q.phase = p.phase
      \/ p.phase = "open" /\ q.phase = "completed" /\ q.exited >= q.filled
  BY <1>1, <1>2
<1>5. p.mode = "PAPER" => /\ p.phase = "open"
                          /\ q.exited = q.sold /\ q.sold \in p.sold + 1..p.bought
                          /\ q.phase = "completed" <=> q.sold = p.bought
  BY <1>1, <1>2 DEF Paper
<1> HIDE DEF p, q
<1>6. Kept!Sell(p, q)
  BY <1>3, <1>4, <1>5 DEF Kept!Sell, Kept!OnPaper
<1> QED
  BY <1>6 DEF Moves, Kept!Step, p, q

(* The trade ends before it has recorded anything. *)
LEMMA EndsIt ==
    ASSUME NEW t \in Trades, NEW tr, NEW tr2, NEW o \in OrderRecord, NEW o2 \in OrderRecord,
           IsTrade(t, tr), IsTrade(t, tr2),
           tr.state \in Waits, tr2.state \in {"CANCELLED", "REJECTED", "FAILED"},
           tr.filled = 0, tr2.filled = 0, tr2.exited = tr.exited,
           o2.entries = o.entries, o2.bought = o.bought, o2.stray = o.stray, o2.sold = o.sold,
           Paper(t) => o.entries = 0
    PROVE  Moves(t, tr, o, tr2, o2)
<1> DEFINE p == PositionOf(Def(t), tr, o)
           q == PositionOf(Def(t), tr2, o2)
<1>1. /\ p = [mode |-> Def(t).mode, quantity |-> Def(t).quantity,
              phase |-> PhaseOf(tr.state), entries |-> o.entries,
              bought |-> o.bought + o.stray, sold |-> o.sold,
              filled |-> tr.filled, exited |-> tr.exited]
      /\ q = [mode |-> Def(t).mode, quantity |-> Def(t).quantity,
              phase |-> PhaseOf(tr2.state), entries |-> o2.entries,
              bought |-> o2.bought + o2.stray, sold |-> o2.sold,
              filled |-> tr2.filled, exited |-> tr2.exited]
      /\ tr.state \in Seen /\ tr2.state \in Seen
  BY Seeing
<1>2. /\ p.phase = "waiting" /\ p.filled = 0 /\ (p.mode = "PAPER" => p.entries = 0)
      /\ q.phase = "ended" /\ Kept!Only(p, q, {"phase"})
  BY <1>1, Phases DEF Paper, Kept!Only
<1> HIDE DEF p, q
<1>3. Kept!End(p, q)
  BY <1>2 DEF Kept!End, Kept!OnPaper
<1> QED
  BY <1>3 DEF Moves, Kept!Step, p, q

(* What rests does not show in the position. *)
LEMMA RestingIsUnseen ==
    ASSUME NEW t \in Trades, NEW tr, NEW o, NEW tr2, NEW o2, Moves(t, tr, o2, tr2, o2),
           o2.entries = o.entries, o2.bought = o.bought, o2.stray = o.stray, o2.sold = o.sold
    PROVE  Moves(t, tr, o, tr2, o2)
<1>1. PositionOf(Def(t), tr, o2) = PositionOf(Def(t), tr, o)
  BY DEF PositionOf
<1> QED
  BY <1>1 DEF Moves

-----------------------------------------------------------------------------
(* What a step does to a trade, to its order and to the handlers at it *)

Agree(hf, hf2, t) ==
    \A h \in Handlers :
        \/ hf[h].trade = t /\ hf[h].pc \in {"entry", "exit"}
        \/ hf2[h].trade = t /\ hf2[h].pc \in {"entry", "exit"}
        => hf2[h] = hf[h]

(* No entry or exit of the trade begins or ends. *)
LEMMA Elsewhere ==
    ASSUME NEW t, NEW tr, NEW o, NEW hf, NEW hf2, TradeInv(t, tr, o, hf), Agree(hf, hf2, t)
    PROVE  TradeInv(t, tr, o, hf2)
<1>1. \A h \in Handlers, pc \in {"entry", "exit"} :
        /\ On(hf, h, t, pc) <=> On(hf2, h, t, pc)
        /\ On(hf2, h, t, pc) => hf2[h] = hf[h]
  BY DEF Agree, On
<1>2. Entering(t, tr, o, hf2) /\ Unsent(t, tr, o, hf2)
  BY <1>1 DEF TradeInv, Entering, Unsent
<1>3. OnPaper(t, tr, o, hf2) /\ Opens(t, tr, o, hf2)
  BY <1>1 DEF TradeInv, OnPaper, Opens
<1> QED
  BY <1>2, <1>3 DEF TradeInv

(* The trade's prices, its stop or its events change. *)
LEMMA QuietKeeps ==
    ASSUME NEW t, NEW tr, NEW o, NEW hf, NEW tr2, TradeInv(t, tr, o, hf),
           IsTrade(t, tr2), Same(tr, tr2), StopFollows(t, tr2)
    PROVE  TradeInv(t, tr2, o, hf)
<1>1. Entering(t, tr2, o, hf)
  BY DEF TradeInv, Entering, Same
<1>2. Unsent(t, tr2, o, hf)
  BY DEF TradeInv, Unsent, Same
<1>3. Books(t, tr2, o) /\ OnPaper(t, tr2, o, hf) /\ Opens(t, tr2, o, hf)
  BY DEF TradeInv, Books, OnPaper, Opens, Same
<1> QED
  BY <1>1, <1>2, <1>3 DEF TradeInv

LEMMA Drains ==
    ASSUME NEW t, NEW tr, NEW o, NEW hf, TradeInv(t, tr, o, hf)
    PROVE  TradeInv(t, [tr EXCEPT !.hits = {}], o, hf)
<1> DEFINE tr2 == [tr EXCEPT !.hits = {}]
<1>1. IsTrade(t, tr2) /\ Same(tr, tr2) /\ tr2.next = tr.next /\ tr2.stop = tr.stop
  BY DEF TradeInv, IsTrade, TradeRecord, Same
<1>2. StopFollows(t, tr2)
  BY <1>1 DEF TradeInv, StopFollows, Locked, Same
<1> HIDE DEF tr2
<1>3. TradeInv(t, tr2, o, hf)
  BY <1>1, <1>2, QuietKeeps
<1> QED
  BY <1>3 DEF tr2

(* A handler that did not call anything begins to. *)
Begins(hf, hf2, h, t, pc) ==
    /\ hf[h].pc \notin Calling
    /\ hf2 = [hf EXCEPT ![h] = hf2[h]]
    /\ hf2[h].pc = pc /\ hf2[h].trade = t

LEMMA EntryStarts ==
    ASSUME NEW t \in Trades, NEW tr, NEW o, NEW hf \in [Handlers -> HandlerRecord], NEW hf2,
           NEW h \in Handlers,
           TradeInv(t, tr, o, hf), tr.state = "WAITING_ENTRY", Begins(hf, hf2, h, t, "entry")
    PROVE  /\ TriggerEntry(tr).ok
           /\ TriggerEntry(tr).trade.awaiting = tr.awaiting
           /\ TradeInv(t, TriggerEntry(tr).trade, o, hf2)
           /\ Moves(t, tr, o, TriggerEntry(tr).trade, o)
<1> DEFINE tr2 == [tr EXCEPT !.state = "ENTRY_PENDING", !.entry = "SUBMITTED"]
<1>1. tr.entry = "none" /\ o.entries = 0 /\ tr \in TradeRecord(Def(t), Prices)
  BY DEF TradeInv, Entering, IsTrade
<1>2. CanTransition(tr.state, "ENTRY_PENDING")
  BY Transitions DEF Seen
<1>3. TriggerEntry(tr) = Done(tr2)
  BY <1>1, <1>2 DEF TriggerEntry, TradeRecord
<1>4. /\ IsTrade(t, tr2)
      /\ tr2.state = "ENTRY_PENDING" /\ tr2.entry = "SUBMITTED" /\ tr2.awaiting = tr.awaiting
      /\ tr2.filled = tr.filled /\ tr2.exited = tr.exited /\ tr2.next = tr.next
  BY <1>1 DEF IsTrade, TradeRecord, Seen, TradeState, Live, Lifecycle
<1> HIDE DEF tr2
<1>5. \A g \in Handlers : hf2[g] = IF g = h THEN hf2[h] ELSE hf[g]
  BY DEF Begins
<1>6. \A g \in Handlers : ~On(hf, g, t, "entry") /\ ~On(hf, g, t, "exit")
  BY <1>1 DEF TradeInv, Entering, Unsent
<1>7. \A g \in Handlers : ~On(hf2, g, t, "exit") /\ (On(hf2, g, t, "entry") <=> g = h)
  BY <1>5, <1>6 DEF On, Begins
<1>8. Entering(t, tr2, o, hf2)
  BY <1>1, <1>4, <1>7 DEF TradeInv, Entering
<1>9. Unsent(t, tr2, o, hf2)
  BY <1>1, <1>4, <1>7 DEF TradeInv, Unsent
<1>10. Books(t, tr2, o) /\ StopFollows(t, tr2)
  BY <1>4 DEF TradeInv, Books, StopFollows
<1>11. OnPaper(t, tr2, o, hf2)
  BY <1>1, <1>4, <1>7 DEF TradeInv, OnPaper
<1>12. Opens(t, tr2, o, hf2)
  BY <1>1, <1>4, <1>7 DEF TradeInv, Opens, Waits, Opened
<1>13. TradeInv(t, tr2, o, hf2)
  BY <1>4, <1>8, <1>9, <1>10, <1>11, <1>12 DEF TradeInv
<1>14. Moves(t, tr, o, tr2, o)
  BY <1>4, SamePosition DEF TradeInv, Waits
<1> QED
  BY <1>3, <1>4, <1>13, <1>14 DEF Done

LEMMA ExitStarts ==
    ASSUME NEW t \in Trades, NEW tr, NEW o, NEW hf \in [Handlers -> HandlerRecord], NEW hf2,
           NEW h \in Handlers,
           TradeInv(t, tr, o, hf), tr.state = "ACTIVE", Begins(hf, hf2, h, t, "exit"),
           hf2[h].quantity = OpenQuantity(tr) \/ hf2[h].quantity \in 1..OpenQuantity(tr)
    PROVE  /\ TradeInv(t, BeginExitAttempt(tr), o, hf2)
           /\ BeginExitAttempt(tr).awaiting = tr.awaiting
           /\ BeginExitAttempt(tr).state = tr.state
           /\ BeginExitAttempt(tr).filled = tr.filled
           /\ BeginExitAttempt(tr).exited = tr.exited
<1> DEFINE tr2 == BeginExitAttempt(tr)
<1>1. tr \in TradeRecord(Def(t), Prices) /\ o \in OrderRecord
  BY DEF TradeInv, IsTrade
<1>2. /\ IsTrade(t, tr2) /\ tr2.exit = "SUBMITTED"
      /\ tr2.state = "ACTIVE" /\ tr2.entry = tr.entry /\ tr2.awaiting = tr.awaiting
      /\ tr2.filled = tr.filled /\ tr2.exited = tr.exited /\ tr2.next = tr.next
      /\ tr2.stop = tr.stop /\ tr2.fillPrice = tr.fillPrice
  BY <1>1 DEF BeginExitAttempt, TradeInv, IsTrade, TradeRecord, Seen, Lifecycle
<1> HIDE DEF tr2
<1>3. \A g \in Handlers : hf2[g] = IF g = h THEN hf2[h] ELSE hf[g]
  BY DEF Begins
<1>4. \A g \in Handlers : On(hf2, g, t, "entry") <=> On(hf, g, t, "entry")
  BY <1>3 DEF On, Begins, Calling
<1>5. \A g \in Handlers : On(hf2, g, t, "exit") => g = h \/ (On(hf, g, t, "exit") /\ hf2[g] = hf[g])
  BY <1>3 DEF On
<1>6. o.entries = 1
  BY DEF TradeInv, Entering, Unsent
<1>7. Entering(t, tr2, o, hf2)
  BY <1>2, <1>4, <1>6 DEF TradeInv, Entering
<1>8. Unsent(t, tr2, o, hf2)
  BY <1>6 DEF Unsent
<1>9. Books(t, tr2, o) /\ StopFollows(t, tr2)
  BY <1>2 DEF TradeInv, Books, StopFollows, Locked
<1>10. Paper(t) /\ ~o.closed => hf2[h].quantity \in 1..o.bought
  <2> SUFFICES ASSUME Paper(t), ~o.closed PROVE hf2[h].quantity \in 1..o.bought
    OBVIOUS
  <2>1. tr.exited = 0 /\ tr.filled = o.bought /\ o.bought = Def(t).quantity
    BY <1>6 DEF TradeInv, Books, OnPaper
  <2>2. OpenQuantity(tr) = o.bought /\ o.bought \in Nat \ {0}
    BY <2>1, <1>1, Definitions, SMTT(20) DEF OpenQuantity, TradeRecord, OrderRecord
  <2> QED
    BY <2>2
<1>11. OnPaper(t, tr2, o, hf2)
  BY <1>2, <1>4, <1>5, <1>6, <1>10 DEF TradeInv, OnPaper
<1>12. Opens(t, tr2, o, hf2)
  BY <1>2 DEF TradeInv, Opens, Waits, Opened
<1>13. TradeInv(t, tr2, o, hf2)
  BY <1>1, <1>2, <1>7, <1>8, <1>9, <1>11, <1>12 DEF TradeInv
<1> QED
  BY <1>2, <1>13 DEF tr2

-----------------------------------------------------------------------------
(* The answers of an executor *)

EntryMove(t, tr, tr2, quantity) ==
    /\ IsTrade(t, tr2)
    /\ tr2.exited = tr.exited /\ tr2.next = tr.next /\ tr2.awaiting = tr.awaiting
    /\ tr2.filled \in {0, quantity}
    /\ \/ tr2.state = tr.state
       \/ tr.state = "ENTRY_PENDING" /\ tr2.state \in {"ACTIVE", "REJECTED", "FAILED"}
    /\ tr.state = "ENTRY_PENDING" =>
         (tr2.filled > 0 <=> tr2.state = "ACTIVE")
    /\ tr2.state = "ACTIVE" => tr2.stop = Def(t).stop

AtEntry(t, tr) ==
    /\ IsTrade(t, tr)
    /\ tr.entry = "SUBMITTED" /\ tr.filled = 0
    /\ tr.state \in {"ENTRY_PENDING", "CANCELLED", "FAILED"}

LEMMA EntryFails ==
    ASSUME NEW t \in Trades, NEW tr, AtEntry(t, tr), NEW quantity, NEW how \in {"FAILED", "REJECTED"}
    PROVE  EntryMove(t, tr, EntryEnds(tr, how).trade, quantity)
           /\ EntryEnds(tr, how).trade.state # "ACTIVE"
<1> DEFINE tr1 == [tr EXCEPT !.entry = how]
           tr2 == [tr EXCEPT !.entry = how, !.state = how]
<1>1. tr \in TradeRecord(Def(t), Prices)
  BY DEF AtEntry, IsTrade
<1>2. \/ EntryEnds(tr, how).trade \in {tr, tr1}
      \/ EntryEnds(tr, how).trade = tr2 /\ tr.state = "ENTRY_PENDING"
  <2>1. tr1.state = tr.state /\ tr.state \in Seen \ {"DRAFT"}
    BY <1>1 DEF AtEntry, IsTrade, TradeRecord, Seen
  <2>2. CanTransition(tr1.state, how) => tr.state = "ENTRY_PENDING"
    BY <2>1, Transitions
  <2>3. EntryEnds(tr, how) \in {Thrown(tr), Thrown(tr1)}
        \/ (EntryEnds(tr, how) = Done(tr2) /\ tr.state = "ENTRY_PENDING")
    BY <1>1, <2>2 DEF EntryEnds, TransitionTo, TradeRecord
  <2> HIDE DEF tr1, tr2
  <2> QED
    BY <2>3 DEF Done, Thrown
<1>3. EntryMove(t, tr, tr, quantity)
  BY DEF EntryMove, AtEntry
<1>4. IsTrade(t, tr1) /\ IsTrade(t, tr2)
  BY <1>1, ZenonT(30) DEF AtEntry, IsTrade, TradeRecord, Seen, TradeState, Terminal, Lifecycle
<1>5. /\ tr1.exited = tr.exited /\ tr1.next = tr.next /\ tr1.awaiting = tr.awaiting
      /\ tr1.filled = 0 /\ tr1.state = tr.state
      /\ tr2.exited = tr.exited /\ tr2.next = tr.next /\ tr2.awaiting = tr.awaiting
      /\ tr2.filled = 0 /\ tr2.state = how
  BY <1>1 DEF AtEntry, TradeRecord
<1>6. EntryMove(t, tr, tr1, quantity) /\ tr1.state # "ACTIVE"
  BY <1>4, <1>5 DEF EntryMove, AtEntry
<1>7. /\ tr.state = "ENTRY_PENDING" => EntryMove(t, tr, tr2, quantity)
      /\ tr2.state # "ACTIVE"
  BY <1>4, <1>5 DEF EntryMove, AtEntry
<1> QED
  BY <1>2, <1>3, <1>6, <1>7 DEF AtEntry

LEMMA EntryIsFilled ==
    ASSUME NEW t \in Trades, NEW tr, AtEntry(t, tr), NEW answer,
           answer.status \in {"FILLED", "PARTIALLY_FILLED"},
           answer.quantity \in Nat \ {0}, answer.price \in Prices
    PROVE  LET res == EntryFills(Def(t), [tr EXCEPT !.ordered = TRUE], answer)
           IN  /\ EntryMove(t, tr, res.trade, answer.quantity)
               /\ answer.status = "FILLED" /\ tr.state = "ENTRY_PENDING" =>
                    res.ok /\ res.trade.state = "ACTIVE" /\ res.trade.filled = answer.quantity
<1> DEFINE known == [tr EXCEPT !.ordered = TRUE]
           filled == [known EXCEPT !.entry = answer.status, !.fillPrice = answer.price,
                                   !.filled = answer.quantity, !.stop = Def(t).stop]
           active == [filled EXCEPT !.state = "ACTIVE"]
           res == EntryFills(Def(t), known, answer)
<1>1. tr \in TradeRecord(Def(t), Prices) /\ Def(t).stop \in Prices
  BY Definitions DEF AtEntry, IsTrade
<1>2. IsTrade(t, known) /\ IsTrade(t, filled) /\ IsTrade(t, active)
  <2>1. known \in TradeRecord(Def(t), Prices) /\ known.state = tr.state
    BY <1>1 DEF TradeRecord
  <2> HIDE DEF known
  <2>2. filled \in TradeRecord(Def(t), Prices) /\ filled.state = tr.state
    BY <1>1, <2>1 DEF TradeRecord, Lifecycle
  <2> HIDE DEF filled
  <2>3. active \in TradeRecord(Def(t), Prices) /\ active.state = "ACTIVE"
    BY <2>2 DEF TradeRecord, TradeState, Live
  <2> QED
    BY <2>1, <2>2, <2>3 DEF AtEntry, IsTrade, Seen
<1>3. /\ known.exited = tr.exited /\ known.next = tr.next /\ known.awaiting = tr.awaiting
      /\ known.filled = 0 /\ known.state = tr.state /\ known.entry = "SUBMITTED"
      /\ filled.exited = tr.exited /\ filled.next = tr.next /\ filled.awaiting = tr.awaiting
      /\ filled.filled = answer.quantity /\ filled.state = tr.state /\ filled.stop = Def(t).stop
      /\ active.exited = tr.exited /\ active.next = tr.next /\ active.awaiting = tr.awaiting
      /\ active.filled = answer.quantity /\ active.state = "ACTIVE" /\ active.stop = Def(t).stop
  BY <1>1 DEF AtEntry, TradeRecord
<1>4. /\ EntryMove(t, tr, known, answer.quantity)
      /\ tr.state # "ENTRY_PENDING" => EntryMove(t, tr, filled, answer.quantity)
      /\ tr.state = "ENTRY_PENDING" => EntryMove(t, tr, active, answer.quantity)
  BY <1>2, <1>3 DEF EntryMove, AtEntry
<1>5. \/ res = Thrown(known)
      \/ res = Thrown(filled) /\ tr.state # "ENTRY_PENDING"
      \/ res = Done(active) /\ tr.state = "ENTRY_PENDING"
  <2>1. CanTransition(known.state, "ENTRY_FILLED") <=> tr.state = "ENTRY_PENDING"
    BY <1>3, Transitions DEF AtEntry, IsTrade
  <2> QED
    BY <2>1 DEF EntryFills
<1>6. ASSUME answer.status = "FILLED", tr.state = "ENTRY_PENDING"
      PROVE  res = Done(active)
  <2>1. CanAdvance(known.entry, answer.status)
    BY <1>3, <1>6, Advances DEF Lifecycle
  <2>2. CanTransition(known.state, "ENTRY_FILLED")
    BY <1>3, <1>6, Transitions DEF Seen
  <2> QED
    BY <2>1, <2>2 DEF EntryFills
<1> HIDE DEF known, filled, active
<1>7. EntryMove(t, tr, res.trade, answer.quantity)
  BY <1>4, <1>5 DEF Thrown, Done
<1>8. answer.status = "FILLED" /\ tr.state = "ENTRY_PENDING" =>
        res.ok /\ res.trade.state = "ACTIVE" /\ res.trade.filled = answer.quantity
  BY <1>3, <1>6 DEF Done
<1> QED
  BY <1>7, <1>8 DEF known

LEMMA EntryAnswers ==
    ASSUME NEW t \in Trades, NEW tr, AtEntry(t, tr), NEW answer,
           answer.status \in {"FILLED", "PARTIALLY_FILLED", "OPEN", "REJECTED", "CANCELLED"},
           answer.status \in {"FILLED", "PARTIALLY_FILLED"} => answer.quantity > 0,
           answer.quantity \in Nat, answer.price \in Prices
    PROVE  LET res == ApplyEntryOrderResponse(Def(t), tr, answer)
           IN  /\ EntryMove(t, tr, res.trade, answer.quantity)
               /\ answer.status = "FILLED" /\ tr.state = "ENTRY_PENDING" =>
                    res.ok /\ res.trade.state = "ACTIVE" /\ res.trade.filled = answer.quantity
<1> DEFINE known == [tr EXCEPT !.ordered = TRUE]
           pending == [known EXCEPT !.entry = "PENDING"]
           res == ApplyEntryOrderResponse(Def(t), tr, answer)
<1>1. tr \in TradeRecord(Def(t), Prices)
  BY DEF AtEntry, IsTrade
<1>2. IsTrade(t, known) /\ IsTrade(t, pending)
  BY <1>1 DEF AtEntry, IsTrade, TradeRecord, Lifecycle
<1>3. /\ known.exited = tr.exited /\ known.next = tr.next /\ known.awaiting = tr.awaiting
      /\ known.filled = 0 /\ known.state = tr.state /\ known.entry = "SUBMITTED"
      /\ pending.exited = tr.exited /\ pending.next = tr.next /\ pending.awaiting = tr.awaiting
      /\ pending.filled = 0 /\ pending.state = tr.state
  BY <1>1 DEF AtEntry, TradeRecord
<1>4. EntryMove(t, tr, known, answer.quantity) /\ EntryMove(t, tr, pending, answer.quantity)
  BY <1>2, <1>3 DEF EntryMove, AtEntry
<1>5. CASE answer.status \in {"FILLED", "PARTIALLY_FILLED"}
  <2>1. res = EntryFills(Def(t), known, answer)
    BY <1>5 DEF ApplyEntryOrderResponse
  <2>2. answer.quantity \in Nat \ {0}
    BY <1>5
  <2> QED
    BY <2>1, <2>2, <1>5, EntryIsFilled
<1>6. CASE answer.status = "OPEN"
  <2>1. res \in {Done(pending), Thrown(known)}
    BY <1>6 DEF ApplyEntryOrderResponse
  <2> HIDE DEF known, pending
  <2> QED
    BY <2>1, <1>4, <1>6 DEF Done, Thrown
<1>7. CASE answer.status = "REJECTED"
  <2>1. res = EntryEnds(known, "REJECTED")
    BY <1>7 DEF ApplyEntryOrderResponse
  <2>2. AtEntry(t, known)
    BY <1>2, <1>3 DEF AtEntry
  <2>3. EntryMove(t, known, res.trade, answer.quantity)
    BY <2>1, <2>2, EntryFails
  <2> QED
    BY <2>3, <1>3, <1>7 DEF EntryMove
<1>8. CASE answer.status = "CANCELLED"
  <2>1. res = Thrown(known)
    BY <1>8 DEF ApplyEntryOrderResponse
  <2> HIDE DEF known
  <2> QED
    BY <2>1, <1>4, <1>8 DEF Thrown
<1> QED
  BY <1>5, <1>6, <1>7, <1>8

ExitMove(t, tr, tr2, quantity) ==
    /\ IsTrade(t, tr2)
    /\ tr2.entry = tr.entry /\ tr2.filled = tr.filled /\ tr2.fillPrice = tr.fillPrice
    /\ tr2.next = tr.next /\ tr2.stop = tr.stop
    /\ tr2.exited \in {tr.exited, tr.exited + quantity}
    /\ \/ tr2.state = tr.state
       \/ tr.state = "ACTIVE" /\ tr2.state = "COMPLETED" /\ tr2.filled <= tr2.exited
    /\ tr.awaiting => tr2.awaiting \/ tr2.filled <= tr2.exited

LEMMA ExitFails ==
    ASSUME NEW t \in Trades, NEW tr, IsTrade(t, tr), NEW quantity, NEW how
    PROVE  LET tr2 == ExitEnds(tr, how).trade
           IN  ExitMove(t, tr, tr2, quantity) /\ tr2.exited = tr.exited /\ tr2.state = tr.state
<1> DEFINE none == [tr EXCEPT !.exit = "none"]
<1>1. ExitEnds(tr, how).trade \in {tr, none}
  BY DEF ExitEnds, Done, Thrown
<1>2. IsTrade(t, none)
  BY DEF IsTrade, TradeRecord, Lifecycle
<1>3. /\ none.entry = tr.entry /\ none.filled = tr.filled /\ none.fillPrice = tr.fillPrice
      /\ none.next = tr.next /\ none.stop = tr.stop /\ none.exited = tr.exited
      /\ none.state = tr.state /\ none.awaiting = tr.awaiting
  BY DEF IsTrade, TradeRecord
<1> HIDE DEF none
<1> QED
  BY <1>1, <1>2, <1>3 DEF ExitMove

LEMMA ExitIsFilled ==
    ASSUME NEW t \in Trades, NEW tr, IsTrade(t, tr), NEW answer,
           answer.status \in {"FILLED", "PARTIALLY_FILLED"}, answer.quantity \in Nat
    PROVE  LET res == ExitFills(tr, answer)
           IN  /\ ExitMove(t, tr, res.trade, answer.quantity)
               /\ answer.status = "FILLED" /\ tr.exit = "SUBMITTED" =>
                    /\ res.trade.exited = tr.exited + answer.quantity
                    /\ tr.state = "ACTIVE" /\ tr.filled <= res.trade.exited =>
                         res.trade.state = "COMPLETED"
<1> DEFINE sold == [tr EXCEPT !.exit = answer.status, !.exited = @ + answer.quantity]
           flat == [sold EXCEPT !.awaiting = FALSE]
           none == [sold EXCEPT !.exit = "none"]
           over == [flat EXCEPT !.exit = "COMPLETED"]
           done == [over EXCEPT !.state = "COMPLETED"]
           res == ExitFills(tr, answer)
<1>1. tr \in TradeRecord(Def(t), Prices)
  BY DEF IsTrade
<1>2. IsTrade(t, flat) /\ IsTrade(t, none) /\ IsTrade(t, over) /\ IsTrade(t, done)
  <2>1. tr.exited + answer.quantity \in Nat
    BY <1>1 DEF TradeRecord
  <2>2. IsTrade(t, sold)
    BY <1>1, <2>1 DEF IsTrade, TradeRecord, Lifecycle
  <2> HIDE DEF sold
  <2>3. IsTrade(t, flat) /\ IsTrade(t, none)
    BY <2>2 DEF IsTrade, TradeRecord, Lifecycle
  <2> HIDE DEF flat
  <2>4. IsTrade(t, over)
    BY <2>3 DEF IsTrade, TradeRecord, Lifecycle
  <2> HIDE DEF over
  <2>5. IsTrade(t, done)
    BY <2>4 DEF IsTrade, TradeRecord, Seen, TradeState, Terminal
  <2> QED
    BY <2>3, <2>4, <2>5
<1>3. \A x \in {flat, none, over, done} :
        /\ x.entry = tr.entry /\ x.filled = tr.filled /\ x.fillPrice = tr.fillPrice
        /\ x.next = tr.next /\ x.stop = tr.stop /\ x.exited = tr.exited + answer.quantity
  BY <1>1 DEF TradeRecord
<1>4. /\ flat.state = tr.state /\ none.state = tr.state /\ over.state = tr.state
      /\ done.state = "COMPLETED" /\ none.awaiting = tr.awaiting
  BY <1>1 DEF TradeRecord
<1>5. OpenQuantity(sold) = tr.filled - (tr.exited + answer.quantity)
      /\ tr.filled \in Nat /\ tr.exited \in Nat
  BY <1>1 DEF OpenQuantity, TradeRecord
<1>6. CASE ~CanAdvance(tr.exit, answer.status)
  <2>1. res = Thrown(tr)
    BY <1>6 DEF ExitFills
  <2>2. ~(answer.status = "FILLED" /\ tr.exit = "SUBMITTED")
    BY <1>6, Advances DEF Lifecycle
  <2> QED
    BY <2>1, <2>2 DEF Thrown, ExitMove
<1>7. CASE CanAdvance(tr.exit, answer.status) /\ OpenQuantity(sold) > 0
  <2>1. res = Done(none)
    BY <1>7, <1>5 DEF ExitFills
  <2>2. ~(tr.filled <= tr.exited + answer.quantity)
    BY <1>5, <1>7
  <2> HIDE DEF none
  <2> QED
    BY <2>1, <2>2, <1>2, <1>3, <1>4 DEF Done, ExitMove
<1>8. CASE CanAdvance(tr.exit, answer.status) /\ OpenQuantity(sold) <= 0
  <2>1. tr.filled <= tr.exited + answer.quantity
    BY <1>5, <1>8
  <2>2. res = IF CanAdvance(answer.status, "COMPLETED")
              THEN TransitionTo(over, "COMPLETED") ELSE Thrown(flat)
    BY <1>8, <1>5 DEF ExitFills
  <2>3. res \in {Thrown(flat), Thrown(over)} \/ (res = Done(done) /\ tr.state = "ACTIVE")
    <3>1. CanTransition(over.state, "COMPLETED") => tr.state = "ACTIVE"
      BY <1>4, Transitions DEF IsTrade
    <3> HIDE DEF over
    <3> QED
      BY <2>2, <3>1 DEF TransitionTo
  <2>4. answer.status = "FILLED" /\ tr.state = "ACTIVE" => res = Done(done)
    <3>1. CanTransition(over.state, "COMPLETED") <=> tr.state = "ACTIVE"
      BY <1>4, Transitions DEF IsTrade
    <3> HIDE DEF over
    <3> QED
      BY <2>2, <3>1, Advances DEF TransitionTo, Lifecycle
  <2> HIDE DEF flat, over, done, res
  <2>5. res.trade \in {flat, over} \/ (res.trade = done /\ tr.state = "ACTIVE")
    BY <2>3 DEF Done, Thrown
  <2>6. /\ ExitMove(t, tr, res.trade, answer.quantity)
        /\ res.trade.exited = tr.exited + answer.quantity
    BY <2>1, <2>5, <1>2, <1>3, <1>4 DEF ExitMove
  <2>7. answer.status = "FILLED" /\ tr.state = "ACTIVE" => res.trade.state = "COMPLETED"
    BY <2>4, <1>4 DEF Done
  <2> QED
    BY <2>6, <2>7 DEF res
<1> QED
  BY <1>5, <1>6, <1>7, <1>8

LEMMA ExitAnswers ==
    ASSUME NEW t \in Trades, NEW tr, IsTrade(t, tr), NEW answer,
           answer.status \in {"FILLED", "PARTIALLY_FILLED", "OPEN", "REJECTED", "CANCELLED"},
           answer.quantity \in Nat
    PROVE  LET res == ApplyExitOrderResponse(tr, answer)
           IN  /\ ExitMove(t, tr, res.trade, answer.quantity)
               /\ answer.status = "FILLED" /\ tr.exit = "SUBMITTED" =>
                    /\ res.trade.exited = tr.exited + answer.quantity
                    /\ tr.state = "ACTIVE" /\ tr.filled <= res.trade.exited =>
                         res.trade.state = "COMPLETED"
<1> DEFINE pending == [tr EXCEPT !.exit = "PENDING"]
           res == ApplyExitOrderResponse(tr, answer)
<1>1. CASE answer.status \in {"FILLED", "PARTIALLY_FILLED"}
  <2>1. res = ExitFills(tr, answer)
    BY <1>1 DEF ApplyExitOrderResponse
  <2> QED
    BY <2>1, <1>1, ExitIsFilled
<1>2. CASE answer.status = "OPEN"
  <2>1. res \in {Done(pending), Thrown(tr)}
    BY <1>2 DEF ApplyExitOrderResponse
  <2>2. IsTrade(t, pending)
    BY DEF IsTrade, TradeRecord, Lifecycle
  <2>3. /\ pending.entry = tr.entry /\ pending.filled = tr.filled /\ pending.fillPrice = tr.fillPrice
        /\ pending.next = tr.next /\ pending.stop = tr.stop /\ pending.exited = tr.exited
        /\ pending.state = tr.state /\ pending.awaiting = tr.awaiting
    BY DEF IsTrade, TradeRecord
  <2> HIDE DEF pending, res
  <2>4. res.trade \in {pending, tr}
    BY <2>1 DEF Done, Thrown
  <2>5. ExitMove(t, tr, res.trade, answer.quantity)
    BY <2>2, <2>3, <2>4 DEF ExitMove
  <2> QED
    BY <2>5, <1>2 DEF res
<1>3. CASE answer.status = "REJECTED"
  <2>1. res = ExitEnds(tr, "REJECTED")
    BY <1>3 DEF ApplyExitOrderResponse
  <2> QED
    BY <2>1, <1>3, ExitFails
<1>4. CASE answer.status = "CANCELLED"
  <2>1. res = Thrown(tr)
    BY <1>4 DEF ApplyExitOrderResponse
  <2> QED
    BY <2>1, <1>4 DEF Thrown, ExitMove
<1> QED
  BY <1>1, <1>2, <1>3, <1>4

-----------------------------------------------------------------------------
(* A handler that was at a call on the trade has its answer. *)

Finishes(hf, hf2, h, t, pc) ==
    /\ hf2 = [hf EXCEPT ![h] = hf2[h]]
    /\ On(hf, h, t, pc) /\ hf2[h].pc \notin Calling

LEMMA Finished ==
    ASSUME NEW t, NEW hf \in [Handlers -> HandlerRecord], NEW hf2, NEW h \in Handlers,
           NEW pc \in Calling, Finishes(hf, hf2, h, t, pc)
    PROVE  \A g \in Handlers, at \in Calling :
             On(hf2, g, t, at) => g # h /\ On(hf, g, t, at) /\ hf2[g] = hf[g]
BY DEF Finishes, On, Calling

(* The entry order was sent, and what it bought is o2.bought; or it was not. *)
LEMMA EntryFinishes ==
    ASSUME NEW t \in Trades, NEW tr, NEW o, NEW hf \in [Handlers -> HandlerRecord], NEW hf2,
           NEW h \in Handlers, NEW tr2, NEW o2 \in OrderRecord, NEW quantity \in Nat,
           TradeInv(t, tr, o, hf), Finishes(hf, hf2, h, t, "entry"),
           EntryMove(t, tr, tr2, quantity),
           \/ o2 = o /\ tr2.filled = 0 /\ tr2.state # "ACTIVE" /\ ~Paper(t)
           \/ /\ o2.entries = 1 /\ o2.bought = quantity /\ o2.sold = 0 /\ o2.selling = 0
              /\ o2.bought + o2.buying <= Def(t).quantity /\ o2.stray <= Extra(t)
              /\ Paper(t) => /\ o2.bought = Def(t).quantity /\ o2.buying = 0 /\ o2.stray = 0
                             /\ tr2.filled = o2.bought /\ tr2.state = "ACTIVE"
    PROVE  TradeInv(t, tr2, o2, hf2) /\ Moves(t, tr, o, tr2, o2)
<1>1. /\ o.entries = 0 /\ tr.state \in {"ENTRY_PENDING", "CANCELLED", "FAILED"}
      /\ \A g \in Handlers : On(hf, g, t, "entry") => g = h
      /\ \A g \in Handlers : ~On(hf, g, t, "exit")
      /\ o = NoOrders /\ tr.filled = 0 /\ tr.exited = 0 /\ tr.next = 1
  BY DEF TradeInv, Entering, Unsent, Finishes
<1>2. \A g \in Handlers : ~On(hf2, g, t, "entry") /\ ~On(hf2, g, t, "exit")
  BY <1>1, Finished DEF Calling
<1>3. /\ IsTrade(t, tr2) /\ tr2.exited = 0 /\ tr2.next = 1
      /\ tr2.state \notin {"DRAFT", "WAITING_ENTRY", "COMPLETED"}
      /\ tr2.state = "ACTIVE" => tr2.stop = Def(t).stop
  BY <1>1 DEF EntryMove
<1>4. Entering(t, tr2, o2, hf2)
  BY <1>1, <1>2, <1>3 DEF Entering
<1>5. Unsent(t, tr2, o2, hf2)
  BY <1>1, <1>2, <1>3 DEF Unsent
<1>6. Books(t, tr2, o2)
  BY <1>1, <1>3 DEF Books, NoOrders, EntryMove, OrderRecord
<1>7. StopFollows(t, tr2)
  <2>1. Def(t).stop \in Nat
    BY Definitions
  <2> QED
    BY <1>3, <2>1 DEF StopFollows, Locked, Better
<1>8. OnPaper(t, tr2, o2, hf2)
  <2>1. Def(t).quantity \in Nat
    BY Definitions
  <2> QED
    BY <1>2, <1>3, <2>1 DEF OnPaper
<1>9. tr2.filled \in {0, quantity} /\ tr2.filled \in Nat
      /\ (tr.state = "ENTRY_PENDING" => (tr2.filled > 0 <=> tr2.state = "ACTIVE"))
      /\ \/ tr2.state = tr.state
         \/ tr.state = "ENTRY_PENDING" /\ tr2.state \in {"ACTIVE", "REJECTED", "FAILED"}
  BY DEF EntryMove, IsTrade, TradeRecord
<1>10. Opens(t, tr2, o2, hf2)
  <2>1. o.bought + o.buying <= Def(t).quantity /\ o.stray <= Extra(t)
    BY DEF TradeInv, Opens
  <2> QED
    BY <1>1, <1>2, <1>3, <1>9, <2>1 DEF Opens, Waits, Opened, NoOrders
<1>11. Moves(t, tr, o, tr2, o2)
  <2>0. o \in OrderRecord /\ IsTrade(t, tr) /\ Def(t).quantity \in Nat
        /\ o2.bought \in Nat /\ o2.buying \in Nat
    BY Definitions DEF TradeInv, OrderRecord
  <2>1. CASE o2 = o /\ tr2.filled = 0 /\ tr2.state # "ACTIVE" /\ ~Paper(t)
    <3>1. CASE tr2.state = tr.state
      BY <1>1, <1>3, <2>0, <2>1, <3>1, SamePosition
    <3>2. CASE tr.state = "ENTRY_PENDING" /\ tr2.state \in {"REJECTED", "FAILED"}
      <4>1. tr.state \in Waits
        BY <3>2 DEF Waits
      <4> QED
        BY <1>1, <1>3, <2>0, <2>1, <3>2, <4>1, EndsIt
    <3> QED
      BY <1>9, <2>1, <3>1, <3>2
  <2>2. CASE /\ o2.entries = 1 /\ o2.bought = quantity /\ o2.sold = 0
             /\ o2.bought + o2.buying <= Def(t).quantity /\ o2.stray <= Extra(t)
             /\ Paper(t) => /\ o2.bought = Def(t).quantity /\ o2.stray = 0
                            /\ tr2.filled = o2.bought /\ tr2.state = "ACTIVE"
    <3>1. o2.bought <= Def(t).quantity /\ o.sold = 0
      BY <1>1, <2>0, <2>2 DEF NoOrders
    <3> QED
      BY <1>1, <1>3, <1>9, <2>0, <2>2, <3>1, BuysIt
  <2> QED
    BY <2>1, <2>2
<1> QED
  BY <1>3, <1>4, <1>5, <1>6, <1>7, <1>8, <1>10, <1>11 DEF TradeInv

(* An exit order was sent and sold what o2.sold says; or it was not. *)
LEMMA ExitFinishes ==
    ASSUME NEW t \in Trades, NEW tr, NEW o, NEW hf \in [Handlers -> HandlerRecord], NEW hf2,
           NEW h \in Handlers, NEW tr2, NEW o2 \in OrderRecord,
           NEW quantity \in Nat, NEW copies \in Nat,
           TradeInv(t, tr, o, hf), Finishes(hf, hf2, h, t, "exit"),
           ExitMove(t, tr, tr2, quantity),
           o2.entries = o.entries, o2.bought = o.bought, o2.buying = o.buying,
           o2.stray = o.stray,
           \/ o2 = o /\ tr2.exited = tr.exited /\ tr2.state = tr.state /\ (Paper(t) => o.closed)
           \/ /\ o2.sold = o.sold + quantity + copies
              /\ Paper(t) => /\ copies = 0 /\ o2.closed /\ ~o.closed /\ o2.selling = o.selling
                             /\ quantity \in 1..o.bought /\ tr2.exited = tr.exited + quantity
                             /\ tr.state = "ACTIVE" /\ tr.filled <= tr2.exited =>
                                  tr2.state = "COMPLETED"
    PROVE  TradeInv(t, tr2, o2, hf2) /\ Moves(t, tr, o, tr2, o2)
<1>1. o.entries = 1
  BY DEF TradeInv, Entering, Unsent, Finishes
<1>2. \A g \in Handlers, at \in {"entry", "exit"} :
        On(hf2, g, t, at) => On(hf, g, t, at) /\ hf2[g] = hf[g]
  <2>1. "exit" \in Calling /\ {"entry", "exit"} \subseteq Calling
    BY DEF Calling
  <2>2. \A g \in Handlers, at \in Calling :
          On(hf2, g, t, at) => g # h /\ On(hf, g, t, at) /\ hf2[g] = hf[g]
    BY <2>1, Finished
  <2> QED
    BY <2>1, <2>2
<1>3. /\ o \in OrderRecord /\ tr.exited \in Nat /\ tr.filled \in Nat
      /\ tr.exited <= o.sold
      /\ tr2.filled = tr.filled /\ tr2.exited \in {tr.exited, tr.exited + quantity}
  BY DEF TradeInv, IsTrade, TradeRecord, Books, ExitMove
<1>4. \A g \in Handlers : ~On(hf, g, t, "entry") /\ ~On(hf2, g, t, "entry")
  BY <1>1, <1>2 DEF TradeInv, Entering
<1>5. Entering(t, tr2, o2, hf2)
  BY <1>1, <1>4 DEF TradeInv, Entering, ExitMove
<1>6. Unsent(t, tr2, o2, hf2)
  BY <1>1 DEF Unsent
<1>7. Books(t, tr2, o2)
  BY <1>3 DEF TradeInv, Books, OrderRecord
<1>8. StopFollows(t, tr2)
  BY DEF TradeInv, StopFollows, Locked, ExitMove
<1>9. OnPaper(t, tr2, o2, hf2)
  <2> SUFFICES ASSUME Paper(t) PROVE OnPaper(t, tr2, o2, hf2)
    BY DEF OnPaper
  <2>1. tr.state \in {"ACTIVE", "COMPLETED"} /\ tr2.state \in {"ACTIVE", "COMPLETED"}
        /\ o.bought = Def(t).quantity
    BY <1>1 DEF TradeInv, OnPaper, ExitMove
  <2>2. o2.selling = o.selling /\ o.selling = 0 /\ o.buying = 0 /\ o.stray = 0
    BY DEF TradeInv, OnPaper
  <2>3. CASE o2 = o /\ tr2.state = tr.state /\ o.closed
    BY <2>1, <2>3, <1>1, <1>4 DEF TradeInv, OnPaper
  <2>4. CASE o2.sold = o.sold + quantity + copies /\ copies = 0 /\ o2.closed /\ ~o.closed
             /\ quantity \in 1..o.bought /\ tr2.exited = tr.exited + quantity
    <3>1. o.sold = 0 /\ o2.sold = quantity /\ quantity <= o.bought
      BY <2>4, <1>3 DEF TradeInv, OnPaper, OrderRecord
    <3>2. tr.filled = o.bought /\ tr.exited = 0 /\ tr.state = "ACTIVE"
      <4>1. tr.filled = o.bought /\ tr.exited = o.sold
        BY DEF TradeInv, Books
      <4>2. tr.state = "COMPLETED" => o.sold = o.bought
        BY DEF TradeInv, OnPaper
      <4>3. o.bought # 0
        BY <2>1, Definitions
      <4> QED
        BY <4>1, <4>2, <4>3, <3>1, <2>1
    <3>3. tr2.state = "COMPLETED" => o2.sold = o2.bought
      BY <3>1, <3>2, <2>4, <1>3 DEF ExitMove, OrderRecord
    <3> QED
      BY <3>1, <3>3, <2>1, <2>2, <2>4, <1>1, <1>4 DEF OnPaper
  <2> QED
    BY <2>3, <2>4
<1>10. tr.state \in Opened /\ tr2.state \in Opened /\ tr.filled > 0
       /\ o.bought + o.buying <= Def(t).quantity /\ o.stray <= Extra(t)
  BY DEF TradeInv, Opens, Opened, Finishes, ExitMove
<1>11. Opens(t, tr2, o2, hf2)
  BY <1>3, <1>10 DEF Opens, Opened, Waits
<1>12. Moves(t, tr, o, tr2, o2)
  <2>1. CASE o2 = o /\ tr2.exited = tr.exited /\ tr2.state = tr.state
    BY <1>3, <2>1, SamePosition DEF TradeInv, ExitMove
  <2>2. CASE /\ o2.sold = o.sold + quantity + copies
             /\ Paper(t) => /\ copies = 0 /\ o2.closed /\ ~o.closed /\ o2.selling = o.selling
                            /\ quantity \in 1..o.bought /\ tr2.exited = tr.exited + quantity
                            /\ tr.state = "ACTIVE" /\ tr.filled <= tr2.exited =>
                                 tr2.state = "COMPLETED"
    <3>1. ASSUME Paper(t)
          PROVE  /\ tr.state = "ACTIVE" /\ tr2.exited = o2.sold
                 /\ copies = 0 /\ o.stray = 0 /\ quantity > 0 /\ o2.sold <= o.bought
                 /\ tr2.state = "COMPLETED" <=> o2.sold = o.bought
      <4>1. /\ o.sold = 0 /\ o.stray = 0 /\ o2.sold = quantity /\ quantity \in 1..o.bought
            /\ tr.exited = o.sold /\ tr.filled = o.bought
            /\ tr.state = "COMPLETED" => o.sold = o.bought
        BY <1>3, <2>2, <3>1, SMTT(20) DEF TradeInv, OnPaper, Books, OrderRecord
      <4>2. o.bought \in Nat
        BY <1>3 DEF OrderRecord
      <4>3. tr.state = "ACTIVE"
        BY <1>10, <4>1, <4>2 DEF Opened
      <4>4. tr2.exited = quantity
        BY <2>2, <3>1, <4>1
      <4> QED
        BY <1>3, <2>2, <3>1, <4>1, <4>2, <4>3, <4>4 DEF ExitMove
    <3> QED
      BY <1>3, <1>10, <2>2, <3>1, SellsIt DEF TradeInv, ExitMove
  <2> QED
    BY <2>1, <2>2
<1> QED
  BY <1>5, <1>6, <1>7, <1>8, <1>9, <1>11, <1>12 DEF TradeInv, ExitMove

(* A trade is armed, or ends before its entry is filled. *)
LEMMA StateMoves ==
    ASSUME NEW t \in Trades, NEW tr, NEW o, NEW hf, NEW s, TradeInv(t, tr, o, hf),
           \/ tr.state = "DRAFT" /\ s = "WAITING_ENTRY"
           \/ /\ tr.state \in {"DRAFT", "WAITING_ENTRY", "ENTRY_PENDING"}
              /\ s = "CANCELLED" \/ (s = "FAILED" /\ tr.state = "ENTRY_PENDING" /\ ~Paper(t))
              /\ Paper(t) => \A g \in Handlers : ~On(hf, g, t, "entry")
    PROVE  /\ TradeInv(t, [tr EXCEPT !.state = s], o, hf)
           /\ [tr EXCEPT !.state = s].awaiting = tr.awaiting
           /\ Moves(t, tr, o, [tr EXCEPT !.state = s], o)
<1> DEFINE tr2 == [tr EXCEPT !.state = s]
<1>1. /\ IsTrade(t, tr2) /\ tr2.state = s /\ tr2.entry = tr.entry /\ tr2.exit = tr.exit
      /\ tr2.filled = tr.filled /\ tr2.exited = tr.exited /\ tr2.next = tr.next
      /\ tr2.awaiting = tr.awaiting
  BY DEF TradeInv, IsTrade, TradeRecord, Seen, TradeState, Terminal, Live
<1> HIDE DEF tr2
<1>2. Entering(t, tr2, o, hf)
  BY <1>1 DEF TradeInv, Entering
<1>3. Unsent(t, tr2, o, hf)
  BY <1>1 DEF TradeInv, Unsent
<1>4. Books(t, tr2, o) /\ StopFollows(t, tr2)
  BY <1>1 DEF TradeInv, Books, StopFollows
<1>5. OnPaper(t, tr2, o, hf)
  BY <1>1 DEF TradeInv, OnPaper, Entering
<1>6. tr.state \in Waits /\ tr.filled = 0
  BY DEF TradeInv, Opens, Waits
<1>7. Opens(t, tr2, o, hf)
  BY <1>1, <1>6 DEF TradeInv, Opens, Waits, Opened
<1>8. Moves(t, tr, o, tr2, o)
  <2>1. CASE s = "WAITING_ENTRY"
    BY <1>1, <1>6, <2>1, SamePosition DEF TradeInv, Waits
  <2>2. CASE s \in {"CANCELLED", "FAILED"}
    <3>1. Paper(t) => o.entries = 0
      BY <1>6 DEF TradeInv, OnPaper, Entering, Waits
    <3> QED
      BY <1>1, <1>6, <2>2, <3>1, EndsIt DEF TradeInv
  <2> QED
    BY <2>1, <2>2
<1> QED
  BY <1>1, <1>2, <1>3, <1>4, <1>5, <1>7, <1>8 DEF TradeInv, tr2

(* The broker buys or sells more, or less, of what rests. *)
LEMMA OrderMoves ==
    ASSUME NEW t \in Trades, NEW tr, NEW o, NEW hf, NEW o2 \in OrderRecord, TradeInv(t, tr, o, hf),
           o.entries # 0, ~Paper(t), o2.entries = o.entries,
           o.bought <= o2.bought, o.sold <= o2.sold, o2.stray = o.stray,
           o2.bought + o2.buying <= o.bought + o.buying,
           o2.sold + o2.selling <= o.sold + o.selling
    PROVE  TradeInv(t, tr, o2, hf) /\ Moves(t, tr, o, tr, o2)
<1>1. Entering(t, tr, o2, hf) /\ Unsent(t, tr, o2, hf) /\ OnPaper(t, tr, o2, hf)
  BY DEF TradeInv, Entering, Unsent, OnPaper
<1>2. Books(t, tr, o2)
  BY SMTT(20) DEF TradeInv, Books, IsTrade, TradeRecord, OrderRecord
<1>3. /\ o.bought \in Nat /\ o2.bought \in Nat /\ o.buying \in Nat /\ o2.buying \in Nat
      /\ o.sold \in Nat /\ o2.sold \in Nat /\ o.selling \in Nat /\ o2.selling \in Nat
      /\ IsTrade(t, tr) /\ Opens(t, tr, o, hf) /\ Def(t).quantity \in Nat
  BY Definitions DEF TradeInv, OrderRecord
<1>4. o2.bought + o2.buying <= Def(t).quantity /\ o2.stray <= Extra(t)
  BY <1>3 DEF Opens
<1>5. tr.state \notin Opened => o2.sold = 0 /\ o2.selling = 0 /\ o.sold = 0
  <2>1. tr.state \notin Opened => o.sold = 0 /\ o.selling = 0
    BY <1>3 DEF Opens
  <2>2. ASSUME o.sold = 0, o.selling = 0
        PROVE  o2.sold = 0 /\ o2.selling = 0
    <3>1. o2.sold + o2.selling <= 0
      BY <1>3, <2>2
    <3>2. \A m, n \in Nat : m + n <= 0 => m = 0 /\ n = 0
      OBVIOUS
    <3> QED
      BY <1>3, <3>1, <3>2
  <2> QED
    BY <2>1, <2>2
<1>6. Opens(t, tr, o2, hf)
  BY <1>3, <1>4, <1>5 DEF Opens
<1>7. Moves(t, tr, o, tr, o2)
  <2>1. o.entries = 1 /\ o2.bought <= Def(t).quantity
    BY <1>3, <1>4 DEF TradeInv, Entering
  <2> QED
    BY <1>3, <1>4, <1>5, <2>1, FillsIt DEF TradeInv
<1> QED
  BY <1>1, <1>2, <1>6, <1>7 DEF TradeInv

-----------------------------------------------------------------------------
(* What a step does to the engine *)

Keeps ==
    /\ \A t \in DOMAIN trade : KeepsStopHit(t)
    /\ [Kept!Next]_Positions

LEMMA IdleIsTyped == Idle \in HandlerRecord /\ InLoop(Idle) /\ Idle.pc = "idle"
<1>1. 1 \in Trades /\ 0 \in 0..Count
  BY TradeEngineAssumption DEF TradeEngineAssumption, Trades
<1> QED
  BY <1>1 DEF Idle, HandlerRecord, InLoop

(* One trade moves, and its order with it. *)
LEMMA TradeStep ==
    ASSUME IInv, NEW t \in Trades, NEW tr2, NEW o2,
           trade' = [trade EXCEPT ![t] = tr2],
           order' = [order EXCEPT ![t] = o2] \/ (order' = order /\ o2 = order[t]),
           TradeInv(t, tr2, o2, handler'), Moves(t, trade[t], order[t], tr2, o2),
           trade[t].awaiting => tr2.awaiting \/ tr2.filled <= tr2.exited,
           \A u \in Trades : u # t => Agree(handler, handler', u),
           Loops', Dues'
    PROVE  IInv' /\ Keeps
<1>1. trade = [u \in Trades |-> trade[u]] /\ order = [u \in Trades |-> order[u]]
  BY DEF IInv, World
<1>2. /\ trade' = [u \in Trades |-> trade'[u]]
      /\ \A u \in Trades : trade'[u] = IF u = t THEN tr2 ELSE trade[u]
  BY <1>1
<1>3. /\ order' = [u \in Trades |-> order'[u]]
      /\ \A u \in Trades : order'[u] = IF u = t THEN o2 ELSE order[u]
  BY <1>1
<1>4. \A u \in Trades : u # t => TradeInv(u, trade[u], order[u], handler')
  BY Elsewhere DEF IInv
<1>5. \A u \in Trades : TradeInv(u, trade'[u], order'[u], handler')
  BY <1>2, <1>3, <1>4
<1>6. \A u \in DOMAIN trade : KeepsStopHit(u)
  <2>1. tr2.filled \in Nat /\ tr2.exited \in Nat
    BY DEF TradeInv, IsTrade, TradeRecord
  <2> SUFFICES ASSUME NEW u \in Trades, trade[u].awaiting
               PROVE  trade'[u].awaiting \/ trade'[u].filled - trade'[u].exited <= 0
    BY <1>1 DEF KeepsStopHit, OpenQuantity
  <2>2. CASE u = t
    BY <2>1, <2>2, <1>2
  <2>3. CASE u # t
    BY <2>3, <1>2
  <2> QED
    BY <2>2, <2>3
<1>7. [Kept!Next]_Positions
  <2>1. /\ DOMAIN trade = Trades /\ DOMAIN trade' = Trades
        /\ trade'[t] = tr2 /\ order'[t] = o2
        /\ \A u \in Trades : u # t => trade'[u] = trade[u] /\ order'[u] = order[u]
    BY <1>1, <1>2, <1>3
  <2>2. /\ Positions = [u \in Trades |-> PositionOf(Def(u), trade[u], order[u])]
        /\ Positions' = [u \in Trades |-> PositionOf(Def(u), trade'[u], order'[u])]
    BY <2>1 DEF Positions, Def
  <2>3. Positions' = [Positions EXCEPT ![t] = Positions'[t]]
    BY <2>1, <2>2
  <2>4. \/ Positions'[t] = Positions[t]
        \/ Kept!Step(Positions[t], Positions'[t])
    BY <2>1, <2>2 DEF Moves
  <2>5. CASE Positions'[t] = Positions[t]
    BY <2>2, <2>3, <2>5
  <2>6. CASE Positions'[t] # Positions[t]
    <3>1. \E p \in {Positions[t]}, q \in {Positions'[t]} :
            p # q /\ Kept!Step(p, q) /\ Positions' = [Positions EXCEPT ![t] = q]
      BY <2>3, <2>4, <2>6
    <3> QED
      BY <3>1, <2>2 DEF Kept!Next
  <2> QED
    BY <2>5, <2>6
<1> QED
  BY <1>2, <1>3, <1>5, <1>6, <1>7 DEF IInv, World, Keeps

LEMMA PublishStep ==
    ASSUME IInv, NEW t \in Trades, NEW tr, NEW o2, Publish(t, tr),
           order' = [order EXCEPT ![t] = o2] \/ (order' = order /\ o2 = order[t]),
           TradeInv(t, tr, o2, handler'), Moves(t, trade[t], order[t], tr, o2),
           trade[t].awaiting => tr.awaiting \/ tr.filled <= tr.exited,
           \A u \in Trades : u # t => Agree(handler, handler', u),
           Loops'
    PROVE  IInv' /\ Keeps
<1> DEFINE tr2 == [tr EXCEPT !.hits = {}]
<1>1. tr.hits \subseteq 1..Len(Def(t).targets)
  BY DEF TradeInv, IsTrade, TradeRecord
<1>2. Dues'
  BY <1>1 DEF Publish, Planned, IInv, World, Dues
<1>3. TradeInv(t, tr2, o2, handler')
  BY Drains
<1>4. tr2.awaiting = tr.awaiting /\ tr2.filled = tr.filled /\ tr2.exited = tr.exited
  BY DEF TradeInv, IsTrade, TradeRecord
<1>5. trade' = [trade EXCEPT ![t] = tr2]
  BY DEF Publish
<1>6. PositionOf(Def(t), tr2, o2) = PositionOf(Def(t), tr, o2)
  BY DEF PositionOf, TradeInv, IsTrade, TradeRecord
<1>7. Moves(t, trade[t], order[t], tr2, o2)
  BY <1>6 DEF Moves
<1> HIDE DEF tr2
<1> QED
  BY <1>2, <1>3, <1>4, <1>5, <1>7, TradeStep

LEMMA KeepStep ==
    ASSUME IInv, NEW t \in Trades, NEW tr, NEW o2, Keep(t, tr),
           order' = [order EXCEPT ![t] = o2] \/ (order' = order /\ o2 = order[t]),
           TradeInv(t, tr, o2, handler'), Moves(t, trade[t], order[t], tr, o2),
           trade[t].awaiting => tr.awaiting \/ tr.filled <= tr.exited,
           \A u \in Trades : u # t => Agree(handler, handler', u),
           Loops'
    PROVE  IInv' /\ Keeps
<1>1. Dues'
  BY DEF Keep, IInv, World, Dues
<1> QED
  BY <1>1, TradeStep DEF Keep

(* One handler moves, between calls on one trade or none. *)
LEMMA HandlerMoves ==
    ASSUME IInv, NEW h \in Handlers, NEW t \in Trades, NEW r \in HandlerRecord, InLoop(r),
           handler' = [handler EXCEPT ![h] = r],
           handler[h].pc \in Calling => handler[h].trade = t,
           r.pc \in Calling => r.trade = t,
           created' \in 0..Count, mark' \in Prices, burst' \in 0..(Burst - 1), alive' \in BOOLEAN
    PROVE  /\ Loops' /\ handler'[h] = r
           /\ \A u \in Trades : u # t => Agree(handler, handler', u)
<1>1. handler \in [Handlers -> HandlerRecord] /\ \A g \in Handlers : InLoop(handler[g])
  BY DEF IInv, World, Loops
<1>2. /\ handler' \in [Handlers -> HandlerRecord]
      /\ \A g \in Handlers : handler'[g] = IF g = h THEN r ELSE handler[g]
  BY <1>1
<1>3. Loops'
  BY <1>1, <1>2 DEF Loops
<1>4. \A u \in Trades : u # t => Agree(handler, handler', u)
  BY <1>2 DEF Agree, Calling
<1> QED
  BY <1>2, <1>3, <1>4

LEMMA GoesOnward ==
    ASSUME NEW run \in HandlerRecord, run.by = "tick", run.pc # "idle", InLoop(run)
    PROVE  /\ Onward(run) \in HandlerRecord /\ InLoop(Onward(run))
           /\ Onward(run).pc \notin Calling
<1>1. run.trade \in Trades /\ run.last \in 0..Count /\ run.trade <= run.last /\ Count \in Nat
  BY TradeEngineAssumption DEF TradeEngineAssumption, HandlerRecord, InLoop
<1>2. CASE run.trade = run.last
  BY <1>2, IdleIsTyped DEF Onward, Calling
<1>3. CASE run.trade # run.last
  <2> DEFINE on == [run EXCEPT !.pc = "loop", !.trade = @ + 1, !.quantity = 0]
  <2>1. run.trade + 1 \in Trades /\ run.trade + 1 <= run.last
    BY <1>1, <1>3 DEF Trades
  <2> DEFINE next == run.trade + 1
             moved == [run EXCEPT !.pc = "loop", !.trade = next]
  <2>2. next \in Trades /\ next <= run.last
    BY <2>1
  <2>3. moved \in HandlerRecord /\ moved.pc = "loop" /\ moved.by = "tick" /\ moved.trade = next
        /\ moved.last = run.last
    <3> HIDE DEF next
    <3> QED
      BY <2>2 DEF HandlerRecord
  <2>4. on = [moved EXCEPT !.quantity = 0]
    BY DEF HandlerRecord
  <2>5. on \in HandlerRecord /\ on.pc = "loop" /\ on.by = "tick" /\ on.trade <= on.last
    <3> HIDE DEF moved, next, on
    <3> QED
      BY <2>2, <2>3, <2>4 DEF HandlerRecord
  <2>6. Onward(run) = on
    BY <1>3 DEF Onward
  <2> QED
    BY <2>5, <2>6 DEF InLoop, Calling
<1> QED
  BY <1>2, <1>3

-----------------------------------------------------------------------------
(* The steps *)

LEMMA Evaluates ==
    ASSUME IInv, NEW h \in Handlers, NEW run \in HandlerRecord,
           run.pc = "loop", run.by = "tick", InLoop(run), handler[h].pc \notin Calling,
           EvaluateTrade(h, run), UNCHANGED <<created, order, alive>>,
           mark' \in Prices, burst' \in 0..(Burst - 1)
    PROVE  IInv' /\ Keeps
<1> DEFINE t == run.trade
           tr == Evaluated(t, run.price)
           o == order[t]
<1>1. t \in Trades /\ run.price \in Nat
  BY DEF HandlerRecord
<1>2. /\ handler \in [Handlers -> HandlerRecord]
      /\ created' \in 0..Count /\ alive' \in BOOLEAN
      /\ TradeInv(t, trade[t], o, handler)
  BY <1>1 DEF IInv, World, Loops
<1>3. TradeInv(t, tr, o, handler) /\ Same(trade[t], tr) /\ (trade[t].awaiting => tr.awaiting)
  <2>1. CASE trade[t].state = "ACTIVE" /\ ~trade[t].awaiting
    <3>1. tr = AdvancePrice(Def(t), trade[t], run.price)
      BY <2>1 DEF Evaluated
    <3>2. IsTrade(t, trade[t]) /\ StopFollows(t, trade[t])
      BY <1>2 DEF TradeInv
    <3>3. IsTrade(t, tr) /\ Same(trade[t], tr) /\ StopFollows(t, tr)
      BY <1>1, <2>1, <3>1, <3>2, PriceAdvances
    <3> HIDE DEF tr, t
    <3> QED
      BY <1>2, <2>1, <3>3, QuietKeeps
  <2>2. CASE ~(trade[t].state = "ACTIVE" /\ ~trade[t].awaiting)
    <3>1. tr = trade[t]
      BY <2>2 DEF Evaluated
    <3> QED
      BY <3>1, <1>2 DEF Same
  <2> QED
    BY <2>1, <2>2
<1>4. ASSUME NEW r \in HandlerRecord, r.trade = t \/ r.pc \notin Calling, InLoop(r),
             handler' = [handler EXCEPT ![h] = r]
      PROVE  /\ Loops' /\ handler'[h] = r
             /\ \A u \in Trades : u # t => Agree(handler, handler', u)
  BY <1>1, <1>2, <1>4, HandlerMoves
<1>5. CASE Enters(t, run.price)
  <2> DEFINE r == [run EXCEPT !.pc = "entry"]
  <2>1. /\ Publish(t, TriggerEntry(trade[t]).trade)
        /\ handler' = [handler EXCEPT ![h] = r]
    BY <1>5 DEF EvaluateTrade
  <2>2. r \in HandlerRecord /\ r.pc = "entry" /\ r.trade = t /\ InLoop(r)
    BY DEF HandlerRecord, Calling, InLoop
  <2> HIDE DEF r, t
  <2>3. /\ Loops' /\ handler'[h] = r
        /\ \A u \in Trades : u # t => Agree(handler, handler', u)
    BY <1>4, <2>1, <2>2
  <2>4. Begins(handler, handler', h, t, "entry")
    BY <2>1, <2>2, <2>3 DEF Begins
  <2>5. trade[t].state = "WAITING_ENTRY"
    BY <1>5 DEF Enters
  <2>6. /\ TriggerEntry(trade[t]).trade.awaiting = trade[t].awaiting
        /\ TradeInv(t, TriggerEntry(trade[t]).trade, o, handler')
        /\ Moves(t, trade[t], o, TriggerEntry(trade[t]).trade, o)
    BY <1>1, <1>2, <2>4, <2>5, EntryStarts
  <2> QED
    BY <1>1, <2>1, <2>3, <2>6, PublishStep
<1>6. CASE ~Enters(t, run.price) /\ Exits(tr)
  <2> DEFINE moved == [run EXCEPT !.pc = "exit"]
             r == [run EXCEPT !.pc = "exit", !.quantity = OpenQuantity(tr)]
  <2>1. Keep(t, BeginExitAttempt(tr)) /\ handler' = [handler EXCEPT ![h] = r]
    BY <1>6, <1>1 DEF EvaluateTrade, Exits, Enters, Evaluated
  <2>2. r \in HandlerRecord /\ r.pc = "exit" /\ r.trade = t /\ InLoop(r)
        /\ r.quantity = OpenQuantity(tr)
    <3>1. OpenQuantity(tr) \in Int
      BY <1>3 DEF TradeInv, IsTrade, TradeRecord, OpenQuantity
    <3>2. moved \in HandlerRecord /\ moved.pc = "exit" /\ moved.trade = t
          /\ moved.last = run.last /\ moved.by = "tick"
      BY DEF HandlerRecord, Calling
    <3>3. r = [moved EXCEPT !.quantity = OpenQuantity(tr)]
      BY DEF HandlerRecord
    <3> HIDE DEF moved, r, t, tr
    <3>4. /\ r \in HandlerRecord /\ r.pc = "exit" /\ r.trade = t /\ r.last = run.last
          /\ r.quantity = OpenQuantity(tr)
      BY <3>1, <3>2, <3>3 DEF HandlerRecord
    <3> QED
      BY <3>4 DEF InLoop, t
  <2> HIDE DEF r, t, tr
  <2>3. /\ Loops' /\ handler'[h] = r
        /\ \A u \in Trades : u # t => Agree(handler, handler', u)
    BY <1>4, <2>1, <2>2
  <2>4. Begins(handler, handler', h, t, "exit")
    BY <2>1, <2>2, <2>3 DEF Begins
  <2>5. tr.state = "ACTIVE"
    BY <1>6 DEF Exits
  <2>6. /\ TradeInv(t, BeginExitAttempt(tr), o, handler')
        /\ BeginExitAttempt(tr).awaiting = tr.awaiting
        /\ BeginExitAttempt(tr).state = tr.state
        /\ BeginExitAttempt(tr).filled = tr.filled
        /\ BeginExitAttempt(tr).exited = tr.exited
    BY <1>1, <1>2, <1>3, <2>2, <2>3, <2>4, <2>5, ExitStarts
  <2>7. IsTrade(t, trade[t]) /\ IsTrade(t, BeginExitAttempt(tr))
    BY <1>2, <2>6 DEF TradeInv
  <2>8. Moves(t, trade[t], o, BeginExitAttempt(tr), o)
    BY <1>1, <1>3, <2>6, <2>7, SamePosition DEF Same
  <2> QED
    BY <1>1, <1>3, <2>1, <2>3, <2>6, <2>8, KeepStep
<1>7. CASE ~Enters(t, run.price) /\ ~Exits(tr)
  <2> DEFINE r == Onward(run)
  <2>1. Publish(t, tr) /\ handler' = [handler EXCEPT ![h] = r]
    BY <1>7 DEF EvaluateTrade
  <2>2. r \in HandlerRecord /\ r.pc \notin Calling /\ InLoop(r)
    BY GoesOnward
  <2> HIDE DEF r, t, tr
  <2>3. /\ Loops' /\ handler'[h] = r
        /\ \A u \in Trades : u # t => Agree(handler, handler', u)
    BY <1>4, <2>1, <2>2
  <2>4. Agree(handler, handler', t)
    BY <2>1, <2>2, <2>3, <1>2 DEF Agree, Calling
  <2>5. TradeInv(t, tr, o, handler')
    BY <1>3, <2>4, Elsewhere
  <2>6. IsTrade(t, trade[t]) /\ IsTrade(t, tr)
    BY <1>2, <1>3 DEF TradeInv
  <2>7. Moves(t, trade[t], o, tr, o)
    BY <1>1, <1>3, <2>6, SamePosition DEF Same
  <2> QED
    BY <1>1, <1>3, <2>1, <2>3, <2>5, <2>7, PublishStep
<1> QED
  BY <1>5, <1>6, <1>7 DEF EvaluateTrade

(* A continuation of a call on trade t, whose order is now o2 *)
LEMMA Continues ==
    ASSUME IInv, NEW h \in Handlers, NEW pc \in Calling, handler[h].pc = pc,
           NEW result, Continue(h, result)
    PROVE  LET t == handler[h].trade
           IN  /\ t \in Trades
               /\ Finishes(handler, handler', h, t, pc)
               /\ alive' \in BOOLEAN
               /\ \E r \in HandlerRecord :
                    InLoop(r) /\ r.pc \notin Calling /\ handler' = [handler EXCEPT ![h] = r]
<1> DEFINE r == IF result.ok /\ handler[h].by = "tick" THEN Onward(handler[h]) ELSE Idle
<1>1. handler \in [Handlers -> HandlerRecord] /\ handler[h] \in HandlerRecord /\ InLoop(handler[h])
  BY DEF IInv, World, Loops
<1>2. handler' = [handler EXCEPT ![h] = r] /\ alive' = (result.ok \/ handler[h].by # "tick")
  BY DEF Continue
<1>3. r \in HandlerRecord /\ InLoop(r) /\ r.pc \notin Calling
  <2>1. CASE result.ok /\ handler[h].by = "tick"
    <3>1. handler[h].pc # "idle"
      BY DEF Calling
    <3> QED
      BY <1>1, <2>1, <3>1, GoesOnward
  <2>2. CASE ~(result.ok /\ handler[h].by = "tick")
    BY <2>2, IdleIsTyped DEF Calling
  <2> QED
    BY <2>1, <2>2
<1> HIDE DEF r
<1>4. handler'[h] = r
  BY <1>1, <1>2
<1>5. handler[h].trade \in Trades
  BY <1>1 DEF HandlerRecord
<1>6. Finishes(handler, handler', h, handler[h].trade, pc)
  BY <1>2, <1>3, <1>4 DEF Finishes, On
<1> QED
  BY <1>2, <1>3, <1>5, <1>6

LEMMA ContinueStep ==
    ASSUME IInv, NEW h \in Handlers, NEW pc \in Calling, handler[h].pc = pc,
           NEW t, t = handler[h].trade,
           NEW result, Continue(h, result),
           NEW o2, order' = [order EXCEPT ![t] = o2] \/ (order' = order /\ o2 = order[t]),
           TradeInv(t, result.trade, o2, handler'),
           Moves(t, trade[t], order[t], result.trade, o2),
           trade[t].awaiting => result.trade.awaiting \/ result.trade.filled <= result.trade.exited,
           UNCHANGED <<created, mark, burst>>
    PROVE  IInv' /\ Keeps
<1>1. /\ t \in Trades /\ alive' \in BOOLEAN
      /\ \E r \in HandlerRecord :
           InLoop(r) /\ r.pc \notin Calling /\ handler' = [handler EXCEPT ![h] = r]
  BY Continues
<1>2. created' \in 0..Count /\ mark' \in Prices /\ burst' \in 0..(Burst - 1)
  BY DEF IInv, World, Loops
<1>3. Loops' /\ \A u \in Trades : u # t => Agree(handler, handler', u)
  BY <1>1, <1>2, HandlerMoves
<1>4. CASE result.ok
  <2>1. Publish(t, result.trade)
    BY <1>4 DEF Continue
  <2> QED
    BY <2>1, <1>1, <1>3, PublishStep
<1>5. CASE ~result.ok
  <2>1. Keep(t, result.trade)
    BY <1>5 DEF Continue
  <2> QED
    BY <2>1, <1>1, <1>3, KeepStep
<1> QED
  BY <1>4, <1>5

(* The orders that were sent and what became of them *)
Buys(o, filled, resting, copies) ==
    [o EXCEPT !.entries = @ + 1, !.bought = @ + filled, !.buying = @ + resting,
              !.stray = @ + copies]
Sells(o, filled, resting, copies) ==
    [o EXCEPT !.exits = @ + 1, !.sold = @ + filled + copies, !.selling = @ + resting]

HasBought(o, o2, filled, resting, copies) ==
    /\ o2 \in OrderRecord
    /\ o2.entries = o.entries + 1 /\ o2.bought = o.bought + filled
    /\ o2.buying = o.buying + resting /\ o2.stray = o.stray + copies
    /\ o2.sold = o.sold /\ o2.selling = o.selling

HasSold(o, o2, filled, copies) ==
    /\ o2 \in OrderRecord
    /\ o2.entries = o.entries /\ o2.bought = o.bought
    /\ o2.buying = o.buying /\ o2.stray = o.stray
    /\ o2.sold = o.sold + filled + copies

LEMMA Bought ==
    ASSUME NEW o \in OrderRecord, NEW filled \in Nat, NEW resting \in Nat, NEW copies \in Nat
    PROVE  HasBought(o, Buys(o, filled, resting, copies), filled, resting, copies)
<1> DEFINE o1 == [o EXCEPT !.entries = @ + 1, !.bought = @ + filled]
           o2 == [o1 EXCEPT !.buying = @ + resting]
           o3 == [o2 EXCEPT !.stray = @ + copies]
<1>1. /\ o.entries + 1 \in Nat /\ o.bought + filled \in Nat /\ o.buying + resting \in Nat
      /\ o.stray + copies \in Nat
  BY DEF OrderRecord
<1>2. /\ o1 \in OrderRecord /\ o1.entries = o.entries + 1 /\ o1.bought = o.bought + filled
      /\ o1.buying = o.buying /\ o1.stray = o.stray /\ o1.sold = o.sold
      /\ o1.selling = o.selling
  BY <1>1 DEF OrderRecord
<1>3. Buys(o, filled, resting, copies) = o3
  BY DEF OrderRecord, Buys
<1> HIDE DEF o1
<1>4. /\ o2 \in OrderRecord
      /\ o2.entries = o1.entries /\ o2.bought = o1.bought /\ o2.sold = o1.sold
      /\ o2.buying = o.buying + resting /\ o2.selling = o1.selling /\ o2.stray = o1.stray
  BY <1>1, <1>2 DEF OrderRecord
<1> HIDE DEF o2
<1>5. /\ o3 \in OrderRecord
      /\ o3.entries = o2.entries /\ o3.bought = o2.bought /\ o3.sold = o2.sold
      /\ o3.buying = o2.buying /\ o3.selling = o2.selling /\ o3.stray = o.stray + copies
  BY <1>1, <1>2, <1>4 DEF OrderRecord
<1> HIDE DEF o3
<1> QED
  BY <1>2, <1>3, <1>4, <1>5 DEF HasBought

LEMMA Sold ==
    ASSUME NEW o \in OrderRecord, NEW filled \in Nat, NEW resting \in Nat, NEW copies \in Nat
    PROVE  HasSold(o, Sells(o, filled, resting, copies), filled, copies)
<1> DEFINE o1 == [o EXCEPT !.exits = @ + 1, !.sold = @ + filled + copies]
           o3 == [o1 EXCEPT !.selling = @ + resting]
<1>1. o.exits + 1 \in Nat /\ o.sold + filled + copies \in Nat /\ o.selling + resting \in Nat
  BY DEF OrderRecord
<1>2. /\ o1 \in OrderRecord
      /\ o1.entries = o.entries /\ o1.bought = o.bought /\ o1.buying = o.buying
      /\ o1.stray = o.stray /\ o1.sold = o.sold + filled + copies
      /\ o1.selling = o.selling
  BY <1>1 DEF OrderRecord
<1>3. Sells(o, filled, resting, copies) = o3
  BY DEF OrderRecord, Sells
<1> HIDE DEF o1
<1>4. /\ o3 \in OrderRecord
      /\ o3.entries = o1.entries /\ o3.bought = o1.bought /\ o3.sold = o1.sold
      /\ o3.buying = o1.buying /\ o3.stray = o1.stray
  BY <1>1, <1>2 DEF OrderRecord
<1> HIDE DEF o3
<1> QED
  BY <1>2, <1>3, <1>4 DEF HasSold

(* The same on paper, where orders fill at once *)
PaperBuys(o, filled) == [o EXCEPT !.entries = @ + 1, !.bought = @ + filled]
PaperSells(o, filled) == [o EXCEPT !.exits = @ + 1, !.sold = @ + filled, !.closed = TRUE]

LEMMA PaperBought ==
    ASSUME NEW o \in OrderRecord, NEW filled \in Nat
    PROVE  /\ PaperBuys(o, filled) \in OrderRecord
           /\ PaperBuys(o, filled).entries = o.entries + 1
           /\ PaperBuys(o, filled).bought = o.bought + filled
           /\ PaperBuys(o, filled).buying = o.buying /\ PaperBuys(o, filled).stray = o.stray
           /\ PaperBuys(o, filled).sold = o.sold
           /\ PaperBuys(o, filled).selling = o.selling
<1>1. o.entries + 1 \in Nat /\ o.bought + filled \in Nat
  BY DEF OrderRecord
<1> QED
  BY <1>1 DEF OrderRecord, PaperBuys

LEMMA PaperSold ==
    ASSUME NEW o \in OrderRecord, NEW filled \in Nat
    PROVE  /\ PaperSells(o, filled) \in OrderRecord
           /\ PaperSells(o, filled).entries = o.entries
           /\ PaperSells(o, filled).bought = o.bought
           /\ PaperSells(o, filled).buying = o.buying /\ PaperSells(o, filled).stray = o.stray
           /\ PaperSells(o, filled).sold = o.sold + filled
           /\ PaperSells(o, filled).selling = o.selling
           /\ PaperSells(o, filled).closed
<1> DEFINE o1 == [o EXCEPT !.exits = @ + 1, !.sold = @ + filled]
           o2 == [o1 EXCEPT !.closed = TRUE]
<1>1. o.exits + 1 \in Nat /\ o.sold + filled \in Nat
  BY DEF OrderRecord
<1>2. /\ o1 \in OrderRecord
      /\ o1.entries = o.entries /\ o1.bought = o.bought /\ o1.buying = o.buying
      /\ o1.sold = o.sold + filled /\ o1.selling = o.selling /\ o1.stray = o.stray
  BY <1>1 DEF OrderRecord
<1>3. PaperSells(o, filled) = o2
  BY DEF OrderRecord, PaperSells
<1> HIDE DEF o1
<1>4. /\ o2 \in OrderRecord
      /\ o2.entries = o1.entries /\ o2.bought = o1.bought /\ o2.sold = o1.sold
      /\ o2.selling = o1.selling /\ o2.buying = o1.buying /\ o2.closed /\ o2.stray = o1.stray
  BY <1>1, <1>2 DEF OrderRecord
<1> HIDE DEF o2
<1> QED
  BY <1>2, <1>3, <1>4

LEMMA AtCall ==
    ASSUME IInv, NEW h \in Handlers, NEW pc \in Calling, NEW mode, Waiting(h, pc, mode)
    PROVE  LET t == handler[h].trade
           IN  /\ t \in Trades /\ On(handler, h, t, pc) /\ handler[h].pc = pc
               /\ (Paper(t) <=> mode = "PAPER")
               /\ TradeInv(t, trade[t], order[t], handler) /\ IsTrade(t, trade[t])
               /\ order[t] \in OrderRecord
               /\ handler \in [Handlers -> HandlerRecord]
               /\ order = [u \in Trades |-> order[u]]
<1>1. handler \in [Handlers -> HandlerRecord]
  BY DEF IInv, World, Loops
<1>2. handler[h].trade \in Trades
  BY <1>1 DEF HandlerRecord
<1> QED
  BY <1>1, <1>2 DEF IInv, World, TradeInv, Waiting, On, Paper

LEMMA PaperEntryStep ==
    ASSUME IInv, NEW h \in Handlers, PaperEntry(h)
    PROVE  IInv' /\ Keeps
<1> DEFINE t == handler[h].trade
           answer == Answer("FILLED", Def(t).quantity, mark)
           result == ApplyEntryOrderResponse(Def(t), trade[t], answer)
           o2 == PaperBuys(order[t], Def(t).quantity)
<1> "entry" \in Calling
  BY DEF Calling
<1>1. Waiting(h, "entry", "PAPER")
  BY DEF PaperEntry
<1>2. /\ t \in Trades /\ On(handler, h, t, "entry") /\ handler[h].pc = "entry" /\ Paper(t)
      /\ TradeInv(t, trade[t], order[t], handler) /\ IsTrade(t, trade[t])
      /\ order[t] \in OrderRecord
      /\ handler \in [Handlers -> HandlerRecord]
      /\ order = [u \in Trades |-> order[u]]
  BY <1>1, AtCall
<1>3. order' = [order EXCEPT ![t] = o2] /\ Continue(h, result) /\ UNCHANGED <<created, mark, burst>>
  BY <1>2 DEF PaperEntry, PaperBuys
<1>4. Def(t).quantity \in Nat \ {0} /\ mark \in Prices
  BY <1>2, Definitions DEF IInv, World, Loops
<1>5. /\ answer.status = "FILLED" /\ answer.quantity = Def(t).quantity /\ answer.price = mark
  BY DEF Answer
<1>7. /\ order[t].entries = 0 /\ order[t] = NoOrders
      /\ trade[t].entry = "SUBMITTED" /\ trade[t].filled = 0 /\ trade[t].exited = 0
      /\ trade[t].state = "ENTRY_PENDING"
  BY <1>2 DEF TradeInv, Entering, Unsent, OnPaper
<1>8. AtEntry(t, trade[t])
  BY <1>2, <1>7 DEF AtEntry
<1> HIDE DEF answer, result, t
<1>9. /\ EntryMove(t, trade[t], result.trade, Def(t).quantity)
      /\ result.trade.state = "ACTIVE" /\ result.trade.filled = Def(t).quantity
  BY <1>2, <1>4, <1>5, <1>7, <1>8, EntryAnswers DEF result
<1>10. Finishes(handler, handler', h, t, "entry")
  BY <1>2, <1>3, Continues DEF t
<1>11. o2 \in OrderRecord /\ o2.entries = 1 /\ o2.bought = Def(t).quantity /\ o2.sold = 0
       /\ o2.buying = 0 /\ o2.selling = 0 /\ o2.bought + o2.buying <= Def(t).quantity
       /\ o2.stray = 0 /\ o2.stray <= Extra(t)
  <2>1. /\ order[t].entries = 0 /\ order[t].bought = 0 /\ order[t].sold = 0
        /\ order[t].buying = 0 /\ order[t].selling = 0 /\ order[t].stray = 0
    BY <1>7 DEF NoOrders
  <2>2. Def(t).quantity \in Nat /\ 0 \in Nat
    BY <1>4
  <2> DEFINE o == order[t]
  <2>3. /\ o2 \in OrderRecord /\ o2.entries = o.entries + 1
        /\ o2.bought = o.bought + Def(t).quantity
        /\ o2.sold = o.sold /\ o2.selling = o.selling /\ o2.buying = o.buying
        /\ o2.stray = o.stray
    BY <1>2, <2>2, PaperBought
  <2>4. Extra(t) \in Nat
    BY <1>2, Copying
  <2> QED
    BY <2>1, <2>2, <2>3, <2>4
<1> HIDE DEF o2
<1>12. /\ TradeInv(t, result.trade, o2, handler')
       /\ Moves(t, trade[t], order[t], result.trade, o2)
  BY <1>2, <1>4, <1>9, <1>10, <1>11, EntryFinishes
<1>13. result.trade.awaiting = trade[t].awaiting
  BY <1>9 DEF EntryMove
<1> QED
  BY <1>2, <1>3, <1>12, <1>13, ContinueStep DEF t

LEMMA PaperExitStep ==
    ASSUME IInv, NEW h \in Handlers, PaperExit(h)
    PROVE  IInv' /\ Keeps
<1> DEFINE t == handler[h].trade
           quantity == handler[h].quantity
           answer == Answer("FILLED", quantity, handler[h].price)
           o == order[t]
<1> "exit" \in Calling
  BY DEF Calling
<1>1. Waiting(h, "exit", "PAPER")
  BY DEF PaperExit
<1>2. /\ t \in Trades /\ On(handler, h, t, "exit") /\ handler[h].pc = "exit" /\ Paper(t)
      /\ TradeInv(t, trade[t], o, handler) /\ IsTrade(t, trade[t]) /\ o \in OrderRecord
      /\ handler \in [Handlers -> HandlerRecord]
      /\ order = [u \in Trades |-> order[u]]
  BY <1>1, AtCall
<1>3. UNCHANGED <<created, mark, burst>>
  BY DEF PaperExit
<1>4. ~o.closed => trade[t].exit = "SUBMITTED" /\ quantity \in 1..o.bought
  BY <1>2 DEF TradeInv, OnPaper
<1>5. ASSUME PaperExitable(t, quantity),
             order' = [order EXCEPT ![t].exits = @ + 1, ![t].sold = @ + quantity, ![t].closed = TRUE],
             Continue(h, ApplyExitOrderResponse(trade[t], answer))
      PROVE  IInv' /\ Keeps
  <2> DEFINE result == ApplyExitOrderResponse(trade[t], answer)
             o2 == PaperSells(o, quantity)
  <2>1. order' = [order EXCEPT ![t] = o2]
    BY <1>2, <1>5 DEF PaperSells
  <2>2. ~o.closed /\ quantity \in 1..o.bought /\ quantity \in Nat /\ o.bought \in Nat
    <3>1. o.bought \in Nat
      BY <1>2 DEF OrderRecord
    <3>2. ~o.closed /\ quantity \in 1..o.bought
      BY <1>5 DEF PaperExitable
    <3> QED
      BY <3>1, <3>2
  <2>3. answer.status = "FILLED" /\ answer.quantity = quantity
    BY DEF Answer
  <2> HIDE DEF answer, t, quantity
  <2>5. /\ ExitMove(t, trade[t], result.trade, quantity)
        /\ result.trade.exited = trade[t].exited + quantity
        /\ trade[t].state = "ACTIVE" /\ trade[t].filled <= result.trade.exited =>
             result.trade.state = "COMPLETED"
    BY <1>2, <1>4, <2>2, <2>3, ExitAnswers
  <2>6. /\ o2 \in OrderRecord /\ o2.entries = o.entries /\ o2.bought = o.bought
        /\ o2.buying = o.buying /\ o2.selling = o.selling /\ o2.stray = o.stray
        /\ o2.sold = o.sold + quantity /\ o2.closed
    BY <1>2, <2>2, PaperSold
  <2> HIDE DEF o2, o, result
  <2>7. Finishes(handler, handler', h, t, "exit")
    BY <1>2, <1>5, Continues DEF t, result
  <2>8. TradeInv(t, result.trade, o2, handler') /\ Moves(t, trade[t], o, result.trade, o2)
    <3>1. 0 \in Nat /\ o2.sold = o.sold + quantity + 0
      BY <1>2, <2>2, <2>6 DEF OrderRecord
    <3> QED
      BY <1>2, <2>2, <2>5, <2>6, <2>7, <3>1, ExitFinishes
  <2>9. trade[t].awaiting => result.trade.awaiting \/ result.trade.filled <= result.trade.exited
    BY <2>5 DEF ExitMove
  <2> QED
    BY <1>2, <1>3, <1>5, <2>1, <2>8, <2>9, ContinueStep DEF t, result, o
<1>6. ASSUME ~PaperExitable(t, quantity), Continue(h, MarkExitAttemptFailed(trade[t])), UNCHANGED order
      PROVE  IInv' /\ Keeps
  <2> DEFINE result == MarkExitAttemptFailed(trade[t])
  <2>1. o.closed
    BY <1>2, <1>4, <1>6 DEF PaperExitable, OrderRecord
  <2> HIDE DEF t, quantity
  <2>3. /\ ExitMove(t, trade[t], result.trade, 0) /\ result.trade.exited = trade[t].exited
        /\ result.trade.state = trade[t].state
    BY <1>2, ExitFails DEF MarkExitAttemptFailed
  <2> HIDE DEF result, o
  <2>4. Finishes(handler, handler', h, t, "exit")
    BY <1>2, <1>6, Continues DEF t, result
  <2>5. TradeInv(t, result.trade, o, handler') /\ Moves(t, trade[t], o, result.trade, o)
    BY <1>2, <2>1, <2>3, <2>4, ExitFinishes
  <2>6. trade[t].awaiting => result.trade.awaiting \/ result.trade.filled <= result.trade.exited
    BY <2>3 DEF ExitMove
  <2> QED
    BY <1>2, <1>3, <1>6, <2>5, <2>6, ContinueStep DEF t, result, o
<1> QED
  BY <1>5, <1>6 DEF PaperExit

(* What an order has come to, and the statuses it is answered with *)
LEMMA Statuses ==
    ASSUME NEW quantity \in Nat \ {0}, NEW fate \in Fates(quantity)
    PROVE  /\ fate.filled \in Nat /\ fate.resting \in Nat
           /\ fate.filled + fate.resting <= quantity
           /\ StatusOf(fate, quantity) \subseteq
                {"FILLED", "PARTIALLY_FILLED", "OPEN", "REJECTED", "CANCELLED"}
           /\ fate.filled = 0 =>
                StatusOf(fate, quantity) \cap {"FILLED", "PARTIALLY_FILLED"} = {}
<1>1. /\ fate.filled \in 0..quantity /\ fate.resting \in 0..quantity
      /\ fate.filled + fate.resting = quantity \/ fate.resting = 0
  BY DEF Fates
<1>2. \/ fate.filled = quantity
      \/ fate.resting > 0 /\ fate.filled = 0
      \/ fate.resting > 0 /\ fate.filled > 0
      \/ fate.resting = 0 /\ fate.filled = 0
      \/ fate.resting = 0 /\ fate.filled \in 1..(quantity - 1)
  BY <1>1
<1>3. StatusOf(fate, quantity) \subseteq
        {"FILLED", "PARTIALLY_FILLED", "OPEN", "REJECTED", "CANCELLED"}
  BY <1>2 DEF StatusOf
<1>4. fate.filled = 0 => StatusOf(fate, quantity) \cap {"FILLED", "PARTIALLY_FILLED"} = {}
  BY <1>1, <1>2 DEF StatusOf
<1> QED
  BY <1>1, <1>3, <1>4

LEMMA LiveEntryStep ==
    ASSUME IInv, NEW h \in Handlers, LiveEntry(h)
    PROVE  IInv' /\ Keeps
<1> DEFINE t == handler[h].trade
           o == order[t]
           quantity == Def(t).quantity
<1> "entry" \in Calling
  BY DEF Calling
<1>1. Waiting(h, "entry", "LIVE")
  BY DEF LiveEntry
<1>2. /\ t \in Trades /\ On(handler, h, t, "entry") /\ handler[h].pc = "entry" /\ ~Paper(t)
      /\ TradeInv(t, trade[t], o, handler) /\ IsTrade(t, trade[t]) /\ o \in OrderRecord
      /\ handler \in [Handlers -> HandlerRecord]
      /\ order = [u \in Trades |-> order[u]]
  BY <1>1, AtCall
<1>3. UNCHANGED <<created, mark, burst>>
  BY DEF LiveEntry
<1>4. /\ o.entries = 0 /\ o = NoOrders
      /\ trade[t].entry = "SUBMITTED" /\ trade[t].filled = 0 /\ trade[t].exited = 0
      /\ trade[t].state \in {"ENTRY_PENDING", "CANCELLED", "FAILED"}
  BY <1>2 DEF TradeInv, Entering, Unsent
<1>5. AtEntry(t, trade[t])
  BY <1>2, <1>4 DEF AtEntry
<1>6. ASSUME NEW result, Continue(h, result), NEW q \in Nat,
             EntryMove(t, trade[t], result.trade, q),
             NEW o2 \in OrderRecord,
             order' = [order EXCEPT ![t] = o2] \/ (order' = order /\ o2 = o),
             \/ o2 = o /\ result.trade.filled = 0 /\ result.trade.state # "ACTIVE"
             \/ /\ o2.entries = 1 /\ o2.bought = q /\ o2.sold = 0 /\ o2.selling = 0
                /\ o2.bought + o2.buying <= quantity /\ o2.stray <= Extra(t)
      PROVE  IInv' /\ Keeps
  <2> HIDE DEF t
  <2>1. Finishes(handler, handler', h, t, "entry")
    BY <1>2, <1>6, Continues DEF t
  <2>2. TradeInv(t, result.trade, o2, handler') /\ Moves(t, trade[t], o, result.trade, o2)
    BY <1>2, <1>6, <2>1, EntryFinishes
  <2>3. result.trade.awaiting = trade[t].awaiting
    BY <1>6 DEF EntryMove
  <2> QED
    BY <1>2, <1>3, <1>6, <2>2, <2>3, ContinueStep DEF t
<1>7. \A q \in Nat : /\ EntryMove(t, trade[t], MarkEntryOrderFailed(trade[t]).trade, q)
                     /\ MarkEntryOrderFailed(trade[t]).trade.state # "ACTIVE"
  BY <1>2, <1>5, EntryFails DEF MarkEntryOrderFailed
<1>8. CASE Continue(h, MarkEntryOrderFailed(trade[t])) /\ UNCHANGED order
  <2>1. EntryMove(t, trade[t], MarkEntryOrderFailed(trade[t]).trade, 0)
        /\ MarkEntryOrderFailed(trade[t]).trade.state # "ACTIVE"
    BY <1>7
  <2>2. MarkEntryOrderFailed(trade[t]).trade.filled = 0
    BY <2>1 DEF EntryMove
  <2>3. order' = order /\ 0 \in Nat /\ o \in OrderRecord
    BY <1>2, <1>8
  <2> HIDE DEF t, o, quantity
  <2> QED
    BY <1>6, <1>8, <2>1, <2>2, <2>3
<1>9. /\ \A fate \in Fates(quantity) :
           fate.filled \in Nat /\ fate.resting \in Nat /\ fate.filled + fate.resting <= quantity
      /\ \A copies \in Copies(quantity) : copies \in Nat /\ copies <= Extra(t)
  <2> HIDE DEF t
  <2>1. quantity \in Nat \ {0} /\ t \in Trades
    BY <1>2, Definitions
  <2> HIDE DEF quantity
  <2>2. \A fate \in Fates(quantity) :
          fate.filled \in Nat /\ fate.resting \in Nat /\ fate.filled + fate.resting <= quantity
    BY <2>1, Statuses
  <2>3. \A copies \in Copies(quantity) : copies \in Nat /\ copies <= Extra(t)
    BY <2>1, Copying DEF quantity
  <2> QED
    BY <2>2, <2>3
<1>10. ASSUME NEW fate \in Fates(quantity), NEW copies \in Copies(quantity),
             order' = [order EXCEPT ![t].entries = @ + 1, ![t].bought = @ + fate.filled,
                                    ![t].buying = @ + fate.resting, ![t].stray = @ + copies],
             NEW result, Continue(h, result), EntryMove(t, trade[t], result.trade, fate.filled)
      PROVE  IInv' /\ Keeps
  <2> DEFINE o2 == Buys(o, fate.filled, fate.resting, copies)
  <2>1. order' = [order EXCEPT ![t] = o2]
    BY <1>2, <1>10 DEF Buys
  <2>2. /\ fate.filled \in Nat /\ fate.resting \in Nat
        /\ fate.filled + fate.resting <= quantity
        /\ copies \in Nat /\ copies <= Extra(t)
    BY <1>9, <1>10
  <2> HIDE DEF o, t
  <2>3. /\ o2 \in OrderRecord /\ o2.entries = o.entries + 1
        /\ o2.bought = o.bought + fate.filled /\ o2.buying = o.buying + fate.resting
        /\ o2.sold = o.sold /\ o2.selling = o.selling /\ o2.stray = o.stray + copies
    <3>1. HasBought(o, o2, fate.filled, fate.resting, copies)
      BY <1>2, <2>2, Bought
    <3> QED
      BY <3>1 DEF HasBought
  <2>4. o.bought = 0 /\ o.sold = 0 /\ o.buying = 0 /\ o.selling = 0 /\ o.stray = 0
    BY <1>4 DEF NoOrders
  <2> HIDE DEF o2
  <2>5. /\ o2.entries = 1 /\ o2.bought = fate.filled /\ o2.sold = 0 /\ o2.selling = 0
        /\ o2.bought + o2.buying <= quantity /\ o2.stray <= Extra(t)
    BY <1>4, <2>2, <2>3, <2>4
  <2> QED
    BY <1>6, <1>10, <2>1, <2>2, <2>3, <2>5
<1>11. ASSUME NEW fate \in Fates(quantity), NEW status \in StatusOf(fate, quantity),
              NEW price \in Prices
       PROVE  EntryMove(t, trade[t], ApplyEntryOrderResponse(Def(t), trade[t],
                                       Answer(status, fate.filled, price)).trade, fate.filled)
  <2> DEFINE answer == Answer(status, fate.filled, price)
  <2>1. /\ fate.filled \in Nat
        /\ status \in {"FILLED", "PARTIALLY_FILLED", "OPEN", "REJECTED", "CANCELLED"}
        /\ status \in {"FILLED", "PARTIALLY_FILLED"} => fate.filled > 0
    <3>1. fate.filled \in Nat /\ (fate.filled = 0 \/ fate.filled > 0)
      BY <1>2, Definitions, Statuses
    <3> QED
      BY <1>2, <3>1, Definitions, Statuses
  <2>2. answer.status = status /\ answer.quantity = fate.filled /\ answer.price = price
    BY DEF Answer
  <2> HIDE DEF answer, t
  <2>3. EntryMove(t, trade[t], ApplyEntryOrderResponse(Def(t), trade[t], answer).trade, fate.filled)
    <3>1. /\ answer.status \in {"FILLED", "PARTIALLY_FILLED", "OPEN", "REJECTED", "CANCELLED"}
          /\ answer.status \in {"FILLED", "PARTIALLY_FILLED"} => answer.quantity > 0
          /\ answer.quantity \in Nat /\ answer.price \in Prices
      BY <2>1, <2>2
    <3>2. t \in Trades
      BY <1>2
    <3>3. EntryMove(t, trade[t], ApplyEntryOrderResponse(Def(t), trade[t], answer).trade,
                    answer.quantity)
      BY <1>5, <3>1, <3>2, EntryAnswers
    <3> QED
      BY <2>2, <3>3
  <2> QED
    BY <2>3 DEF answer
<1>12. CASE \E fate \in Fates(quantity), copies \in Copies(quantity) :
              /\ order' = [order EXCEPT ![t].entries = @ + 1, ![t].bought = @ + fate.filled,
                                        ![t].buying = @ + fate.resting, ![t].stray = @ + copies]
              /\ \/ Continue(h, MarkEntryOrderFailed(trade[t]))
                 \/ \E status \in StatusOf(fate, quantity), price \in Prices :
                      Continue(h, ApplyEntryOrderResponse(Def(t), trade[t],
                                    Answer(status, fate.filled, price)))
  <2>1. PICK fate \in Fates(quantity), copies \in Copies(quantity) :
              /\ order' = [order EXCEPT ![t].entries = @ + 1, ![t].bought = @ + fate.filled,
                                        ![t].buying = @ + fate.resting, ![t].stray = @ + copies]
              /\ \/ Continue(h, MarkEntryOrderFailed(trade[t]))
                 \/ \E status \in StatusOf(fate, quantity), price \in Prices :
                      Continue(h, ApplyEntryOrderResponse(Def(t), trade[t],
                                    Answer(status, fate.filled, price)))
    BY <1>12
  <2>2. fate.filled \in Nat
    BY <1>9
  <2> HIDE DEF t, o, quantity
  <2>3. CASE Continue(h, MarkEntryOrderFailed(trade[t]))
    BY <1>7, <1>10, <2>1, <2>2, <2>3
  <2>4. CASE \E status \in StatusOf(fate, quantity), price \in Prices :
               Continue(h, ApplyEntryOrderResponse(Def(t), trade[t],
                             Answer(status, fate.filled, price)))
    BY <1>10, <1>11, <2>1, <2>4
  <2> QED
    BY <2>1, <2>3, <2>4
<1> QED
  BY <1>8, <1>12 DEF LiveEntry

LEMMA LiveExitStep ==
    ASSUME IInv, NEW h \in Handlers, LiveExit(h)
    PROVE  IInv' /\ Keeps
<1> DEFINE t == handler[h].trade
           o == order[t]
           quantity == handler[h].quantity
           paid == handler[h].price
<1> "exit" \in Calling
  BY DEF Calling
<1>1. Waiting(h, "exit", "LIVE")
  BY DEF LiveExit
<1>2. /\ t \in Trades /\ On(handler, h, t, "exit") /\ handler[h].pc = "exit" /\ ~Paper(t)
      /\ TradeInv(t, trade[t], o, handler) /\ IsTrade(t, trade[t]) /\ o \in OrderRecord
      /\ handler \in [Handlers -> HandlerRecord]
      /\ order = [u \in Trades |-> order[u]]
  BY <1>1, AtCall
<1>3. UNCHANGED <<created, mark, burst>>
  BY DEF LiveExit
<1>4. ASSUME NEW result, Continue(h, result), NEW q \in Nat,
             ExitMove(t, trade[t], result.trade, q),
             NEW copies \in Nat, NEW o2 \in OrderRecord,
             o2.entries = o.entries, o2.bought = o.bought, o2.buying = o.buying,
             o2.stray = o.stray,
             order' = [order EXCEPT ![t] = o2] \/ (order' = order /\ o2 = o),
             \/ o2 = o /\ result.trade.exited = trade[t].exited /\ result.trade.state = trade[t].state
             \/ o2.sold = o.sold + q + copies
      PROVE  IInv' /\ Keeps
  <2> HIDE DEF t, o
  <2>1. Finishes(handler, handler', h, t, "exit")
    BY <1>2, <1>4, Continues DEF t
  <2>2. TradeInv(t, result.trade, o2, handler') /\ Moves(t, trade[t], o, result.trade, o2)
    BY <1>2, <1>4, <2>1, ExitFinishes
  <2>3. trade[t].awaiting => result.trade.awaiting \/ result.trade.filled <= result.trade.exited
    BY <1>4 DEF ExitMove
  <2> QED
    BY <1>2, <1>3, <1>4, <2>2, <2>3, ContinueStep DEF t, o
<1>5. \A q \in Nat : LET tr2 == MarkExitAttemptFailed(trade[t]).trade
                     IN  /\ ExitMove(t, trade[t], tr2, q)
                         /\ tr2.exited = trade[t].exited /\ tr2.state = trade[t].state
  BY <1>2, ExitFails, ZenonT(30) DEF MarkExitAttemptFailed
<1>6. CASE Continue(h, MarkExitAttemptFailed(trade[t])) /\ UNCHANGED order
  <2> HIDE DEF t, o
  <2>1. /\ ExitMove(t, trade[t], MarkExitAttemptFailed(trade[t]).trade, 0)
        /\ MarkExitAttemptFailed(trade[t]).trade.exited = trade[t].exited
        /\ MarkExitAttemptFailed(trade[t]).trade.state = trade[t].state
    BY <1>5
  <2> QED
    BY <1>2, <1>4, <1>6, <2>1
<1>7. ASSUME quantity \in 1..o.bought, NEW fate \in Fates(quantity),
             NEW copies \in Copies(quantity),
             order' = [order EXCEPT ![t].exits = @ + 1, ![t].sold = @ + fate.filled + copies,
                                    ![t].selling = @ + fate.resting],
             NEW result, Continue(h, result), ExitMove(t, trade[t], result.trade, fate.filled)
      PROVE  IInv' /\ Keeps
  <2> DEFINE o2 == Sells(o, fate.filled, fate.resting, copies)
  <2>1. order' = [order EXCEPT ![t] = o2]
    BY <1>2, <1>7 DEF Sells
  <2>2. o.bought \in Nat
    BY <1>2 DEF OrderRecord
  <2>3. quantity \in Nat \ {0}
    BY <1>7, <2>2
  <2>4. fate.filled \in Nat /\ fate.resting \in Nat
    BY <1>7, <2>3, Statuses
  <2>5. copies \in Nat
    BY <1>2, <1>7, <2>3, Copying
  <2> HIDE DEF o, t, quantity
  <2>6. /\ o2 \in OrderRecord /\ o2.entries = o.entries /\ o2.bought = o.bought
        /\ o2.buying = o.buying /\ o2.stray = o.stray
        /\ o2.sold = o.sold + fate.filled + copies
    <3>1. HasSold(o, o2, fate.filled, copies)
      BY <1>2, <2>4, <2>5, Sold
    <3> QED
      BY <3>1 DEF HasSold
  <2>7. Continue(h, result) /\ ExitMove(t, trade[t], result.trade, fate.filled)
    BY <1>7
  <2> HIDE DEF o2
  <2> QED
    BY <1>4, <2>1, <2>4, <2>5, <2>6, <2>7
<1>8. ASSUME quantity \in 1..o.bought, NEW fate \in Fates(quantity),
             NEW status \in StatusOf(fate, quantity)
      PROVE  ExitMove(t, trade[t], ApplyExitOrderResponse(trade[t],
                                     Answer(status, fate.filled, paid)).trade, fate.filled)
  <2> DEFINE answer == Answer(status, fate.filled, paid)
  <2>1. o.bought \in Nat
    BY <1>2 DEF OrderRecord
  <2>2. fate.filled \in Nat
        /\ status \in {"FILLED", "PARTIALLY_FILLED", "OPEN", "REJECTED", "CANCELLED"}
    <3>1. quantity \in Nat \ {0}
      BY <1>8, <2>1
    <3> QED
      BY <1>8, <3>1, Statuses
  <2>3. answer.status = status /\ answer.quantity = fate.filled
    BY DEF Answer
  <2> HIDE DEF answer, t
  <2>4. ExitMove(t, trade[t], ApplyExitOrderResponse(trade[t], answer).trade, fate.filled)
    BY <1>2, <2>2, <2>3, ExitAnswers
  <2> QED
    BY <2>4 DEF answer
<1>9. CASE /\ quantity \in 1..o.bought
           /\ \E fate \in Fates(quantity), copies \in Copies(quantity) :
                /\ order' = [order EXCEPT ![t].exits = @ + 1, ![t].sold = @ + fate.filled + copies,
                                          ![t].selling = @ + fate.resting]
                /\ \/ Continue(h, MarkExitAttemptFailed(trade[t]))
                   \/ \E status \in StatusOf(fate, quantity) :
                        Continue(h, ApplyExitOrderResponse(trade[t],
                                      Answer(status, fate.filled, paid)))
  <2>1. PICK fate \in Fates(quantity), copies \in Copies(quantity) :
                /\ order' = [order EXCEPT ![t].exits = @ + 1, ![t].sold = @ + fate.filled + copies,
                                          ![t].selling = @ + fate.resting]
                /\ \/ Continue(h, MarkExitAttemptFailed(trade[t]))
                   \/ \E status \in StatusOf(fate, quantity) :
                        Continue(h, ApplyExitOrderResponse(trade[t],
                                      Answer(status, fate.filled, paid)))
    BY <1>9
  <2>2. fate.filled \in Nat
    <3>1. o.bought \in Nat
      BY <1>2 DEF OrderRecord
    <3>2. quantity \in Nat \ {0}
      BY <1>9, <3>1
    <3> QED
      BY <3>2, Statuses
  <2> HIDE DEF t, o, quantity, paid
  <2>3. CASE Continue(h, MarkExitAttemptFailed(trade[t]))
    BY <1>5, <1>7, <1>9, <2>1, <2>2, <2>3
  <2>4. CASE \E status \in StatusOf(fate, quantity) :
               Continue(h, ApplyExitOrderResponse(trade[t], Answer(status, fate.filled, paid)))
    BY <1>7, <1>8, <1>9, <2>1, <2>4
  <2> QED
    BY <2>1, <2>3, <2>4
<1> QED
  BY <1>6, <1>9 DEF LiveExit

(* A command that only moves the state of the trade, or throws *)
LEMMA CommandMoves ==
    ASSUME NEW t \in Trades, NEW tr, NEW o, NEW hf, TradeInv(t, tr, o, hf),
           NEW s \in {"WAITING_ENTRY", "CANCELLED", "FAILED"},
           s = "FAILED" => ~Paper(t),
           s = "CANCELLED" /\ Paper(t) => \A g \in Handlers : ~On(hf, g, t, "entry")
    PROVE  /\ TradeInv(t, TransitionTo(tr, s).trade, o, hf)
           /\ TransitionTo(tr, s).trade.awaiting = tr.awaiting
           /\ Moves(t, tr, o, TransitionTo(tr, s).trade, o)
<1>1. tr.state \in Seen
  BY DEF TradeInv, IsTrade
<1>2. CASE ~CanTransition(tr.state, s)
  BY <1>2 DEF TransitionTo, Thrown, Moves
<1>3. CASE CanTransition(tr.state, s)
  <2>1. TransitionTo(tr, s).trade = [tr EXCEPT !.state = s]
    BY <1>3 DEF TransitionTo, Done
  <2>2. \/ tr.state = "DRAFT" /\ s = "WAITING_ENTRY"
        \/ /\ tr.state \in {"DRAFT", "WAITING_ENTRY", "ENTRY_PENDING"}
           /\ s = "CANCELLED" \/ (s = "FAILED" /\ tr.state = "ENTRY_PENDING" /\ ~Paper(t))
           /\ Paper(t) => \A g \in Handlers : ~On(hf, g, t, "entry")
    BY <1>1, <1>3, Transitions
  <2> QED
    BY <2>1, <2>2, StateMoves
<1> QED
  BY <1>2, <1>3

LEMMA LiveCancelStep ==
    ASSUME IInv, NEW h \in Handlers, LiveCancel(h)
    PROVE  IInv' /\ Keeps
<1> DEFINE t == handler[h].trade
           o == order[t]
<1> "cancel" \in Calling
  BY DEF Calling
<1>1. Waiting(h, "cancel", "LIVE") /\ UNCHANGED <<created, mark, burst>>
  BY DEF LiveCancel
<1>2. /\ t \in Trades /\ On(handler, h, t, "cancel") /\ handler[h].pc = "cancel" /\ ~Paper(t)
      /\ TradeInv(t, trade[t], o, handler) /\ o \in OrderRecord
      /\ handler \in [Handlers -> HandlerRecord]
      /\ order = [u \in Trades |-> order[u]]
  BY <1>1, AtCall
<1>3. ASSUME NEW s \in {"CANCELLED", "FAILED"}, Continue(h, TransitionTo(trade[t], s)),
             NEW o2 \in OrderRecord, TradeInv(t, trade[t], o2, handler),
             o2.entries = o.entries, o2.bought = o.bought, o2.stray = o.stray, o2.sold = o.sold,
             order' = [order EXCEPT ![t] = o2] \/ (order' = order /\ o2 = o)
      PROVE  IInv' /\ Keeps
  <2> DEFINE result == TransitionTo(trade[t], s)
  <2>1. Finishes(handler, handler', h, t, "cancel")
    BY <1>2, <1>3, Continues
  <2>2. Agree(handler, handler', t)
    BY <1>2, <2>1 DEF Agree, Finishes, On, Calling
  <2> HIDE DEF t
  <2>3. TradeInv(t, result.trade, o2, handler) /\ result.trade.awaiting = trade[t].awaiting
        /\ Moves(t, trade[t], o2, result.trade, o2)
    BY <1>2, <1>3, CommandMoves
  <2> HIDE DEF result
  <2>4. TradeInv(t, result.trade, o2, handler')
    BY <2>2, <2>3, Elsewhere
  <2>5. Moves(t, trade[t], o, result.trade, o2)
    BY <1>2, <1>3, <2>3, RestingIsUnseen
  <2> QED
    BY <1>1, <1>2, <1>3, <2>3, <2>4, <2>5, ContinueStep DEF t, result, o
<1>4. ASSUME NEW s \in {"CANCELLED", "FAILED"}, Continue(h, TransitionTo(trade[t], s)),
             \/ UNCHANGED order
             \/ o.buying > 0 /\ order' = [order EXCEPT ![t].buying = 0]
      PROVE  IInv' /\ Keeps
  <2>1. CASE UNCHANGED order
    <3> HIDE DEF t, o
    <3> QED
      BY <1>2, <1>3, <1>4, <2>1
  <2>2. CASE o.buying > 0 /\ order' = [order EXCEPT ![t].buying = 0]
    <3> DEFINE o2 == [o EXCEPT !.buying = 0]
    <3>1. order' = [order EXCEPT ![t] = o2]
      BY <1>2, <2>2
    <3>2. o.entries # 0
      BY <1>2, <2>2 DEF TradeInv, Unsent, NoOrders
    <3>3. /\ o2 \in OrderRecord /\ o2.entries = o.entries /\ o2.bought = o.bought
          /\ o2.sold = o.sold /\ o2.buying = 0 /\ o2.selling = o.selling /\ o2.stray = o.stray
          /\ o.bought \in Nat /\ o.sold \in Nat /\ o.buying \in Nat /\ o.selling \in Nat
      BY <1>2 DEF OrderRecord
    <3> HIDE DEF o2, o, t
    <3>4. TradeInv(t, trade[t], o2, handler)
      BY <1>2, <3>2, <3>3, OrderMoves
    <3> QED
      BY <1>3, <1>4, <3>1, <3>3, <3>4
  <2> QED
    BY <1>4, <2>1, <2>2
<1> QED
  BY <1>4 DEF LiveCancel, Cancel, MarkFailed

-----------------------------------------------------------------------------
(* Nothing of the handlers changes. *)
LEMMA HandlersStay ==
    ASSUME IInv, handler' = handler,
           created' \in 0..Count, mark' \in Prices, burst' \in 0..(Burst - 1), alive' \in BOOLEAN
    PROVE  Loops' /\ \A u : Agree(handler, handler', u)
BY DEF IInv, World, Loops, Agree

LEMMA Bounds ==
    ASSUME IInv
    PROVE  /\ created \in 0..Count /\ mark \in Prices /\ burst \in 0..(Burst - 1)
           /\ alive \in BOOLEAN /\ Count \in Nat \ {0} /\ Burst \in Nat \ {0}
BY TradeEngineAssumption DEF TradeEngineAssumption, IInv, World, Loops

LEMMA OneTrade ==
    ASSUME IInv, NEW t \in Trades
    PROVE  /\ TradeInv(t, trade[t], order[t], handler) /\ order[t] \in OrderRecord
           /\ trade[t] \in TradeRecord(Def(t), Prices)
           /\ trade = [trade EXCEPT ![t] = trade[t]]
           /\ handler \in [Handlers -> HandlerRecord]
BY DEF IInv, World, Loops, TradeInv, IsTrade

LEMMA CreateStep ==
    ASSUME IInv, CreateTrade
    PROVE  IInv' /\ Keeps
<1> DEFINE t == created + 1
           tr == TransitionTo(trade[t], "WAITING_ENTRY").trade
<1>1. /\ created < Count /\ created' = created + 1 /\ Publish(t, tr)
      /\ UNCHANGED <<handler, mark, burst, order, alive>>
  BY DEF CreateTrade, Arm
<1>2. t \in Trades /\ created' \in 0..Count
  BY <1>1, Bounds DEF Trades
<1> HIDE DEF t
<1>3. TradeInv(t, tr, order[t], handler) /\ tr.awaiting = trade[t].awaiting
      /\ Moves(t, trade[t], order[t], tr, order[t])
  BY <1>2, OneTrade, CommandMoves
<1>4. Loops' /\ \A u : Agree(handler, handler', u)
  BY <1>1, <1>2, Bounds, HandlersStay
<1> HIDE DEF tr
<1> QED
  BY <1>1, <1>2, <1>3, <1>4, PublishStep

LEMMA TickStep ==
    ASSUME IInv, NEW h \in Handlers, NEW price \in Prices, Tick(h, price)
    PROVE  IInv' /\ Keeps
<1> DEFINE run == [pc |-> "loop", by |-> "tick", trade |-> 1, last |-> created,
                   price |-> price, quantity |-> 0]
<1>1. /\ EvaluateTrade(h, run) /\ UNCHANGED <<created, order, alive>>
      /\ created > 0 /\ mark' \in Prices /\ handler[h].pc \notin Calling
  BY DEF Tick, Idle, Calling
<1>2. burst' \in 0..(Burst - 1)
  BY Bounds DEF Tick
<1>3. 1 \in Trades /\ price \in Nat /\ created \in 0..Count /\ 1 <= created
  BY <1>1, Bounds, TradeEngineAssumption DEF Trades, TradeEngineAssumption
<1>4. run \in HandlerRecord /\ run.pc = "loop" /\ run.by = "tick" /\ InLoop(run)
  BY <1>3 DEF HandlerRecord, InLoop
<1> HIDE DEF run
<1> QED
  BY <1>1, <1>2, <1>4, Evaluates

LEMMA NextTradeStep ==
    ASSUME IInv, NEW h \in Handlers, NextTrade(h)
    PROVE  IInv' /\ Keeps
<1>1. /\ handler[h].pc = "loop" /\ EvaluateTrade(h, handler[h])
      /\ UNCHANGED <<created, mark, burst, order, alive>>
  BY DEF NextTrade
<1>2. handler[h] \in HandlerRecord /\ InLoop(handler[h]) /\ handler[h].by = "tick"
  BY <1>1 DEF IInv, World, Loops, InLoop
<1>3. handler[h].pc \notin Calling
  BY <1>1 DEF Calling
<1> QED
  BY <1>1, <1>2, <1>3, Bounds, Evaluates

LEMMA EndOfReadStep ==
    ASSUME IInv, EndOfRead
    PROVE  IInv' /\ Keeps
<1>1. 0 \in 0..(Burst - 1)
  BY Bounds
<1>2. UNCHANGED Positions
  BY DEF EndOfRead, Positions, Def
<1> QED
  BY <1>1, <1>2 DEF EndOfRead, IInv, World, Loops, Dues, Keeps, KeepsStopHit

(* In a new turn no handler is at a call on a paper trade. *)
LEMMA QuietPaper ==
    ASSUME NewTurn, NEW t, Paper(t)
    PROVE  \A g \in Handlers : ~On(handler, g, t, "entry")
BY DEF NewTurn, Hot, On, Calling

LEMMA CancelStep ==
    ASSUME IInv, NEW h \in Handlers, NEW t \in Trades, CancelTrade(h, t)
    PROVE  IInv' /\ Keeps
<1>1. NewTurn /\ handler[h] = Idle /\ UNCHANGED <<created, mark, burst, order, alive>>
  BY DEF CancelTrade
<1>2. CASE /\ handler' = [handler EXCEPT ![h] = [Idle EXCEPT !.pc = "cancel", !.by = "cancel",
                                                            !.trade = t]]
           /\ UNCHANGED <<trade, due>>
  <2> DEFINE r == [Idle EXCEPT !.pc = "cancel", !.by = "cancel", !.trade = t]
  <2> DEFINE named == [Idle EXCEPT !.pc = "cancel", !.by = "cancel"]
  <2>1. named \in HandlerRecord /\ named.pc = "cancel" /\ named.by = "cancel"
    BY IdleIsTyped DEF HandlerRecord, Calling
  <2>2. r \in HandlerRecord /\ r.pc = "cancel" /\ r.by = "cancel" /\ r.trade = t
    <3>1. r = [named EXCEPT !.trade = t]
      OBVIOUS
    <3> HIDE DEF named, r
    <3> QED
      BY <2>1, <3>1 DEF HandlerRecord
  <2> HIDE DEF named
  <2>3. InLoop(r) /\ handler[h].pc = "idle"
    BY <1>1, <2>2 DEF InLoop, Idle
  <2> HIDE DEF r
  <2>4. handler' = [handler EXCEPT ![h] = r]
    BY <1>2 DEF r
  <2>5. /\ Loops' /\ handler'[h] = r
        /\ \A u \in Trades : u # t => Agree(handler, handler', u)
    BY <1>1, <2>2, <2>3, <2>4, Bounds, HandlerMoves DEF Calling
  <2>6. Agree(handler, handler', t)
    BY <2>2, <2>3, <2>4, <2>5, OneTrade DEF Agree
  <2>7. TradeInv(t, trade[t], order[t], handler')
    BY <2>6, OneTrade, Elsewhere
  <2>8. Dues' /\ trade' = [trade EXCEPT ![t] = trade[t]]
    BY <1>2, OneTrade DEF IInv, World, Dues
  <2>9. Moves(t, trade[t], order[t], trade[t], order[t])
    BY DEF Moves
  <2> QED
    BY <1>1, <2>5, <2>7, <2>8, <2>9, TradeStep
<1>3. CASE Publish(t, Cancel(trade[t]).trade) /\ UNCHANGED handler
  <2> DEFINE tr == TransitionTo(trade[t], "CANCELLED").trade
  <2>1. Publish(t, tr)
    BY <1>3 DEF Cancel
  <2>2. TradeInv(t, tr, order[t], handler) /\ tr.awaiting = trade[t].awaiting
        /\ Moves(t, trade[t], order[t], tr, order[t])
    BY <1>1, QuietPaper, OneTrade, CommandMoves
  <2>3. Loops' /\ \A u : Agree(handler, handler', u)
    BY <1>1, <1>3, Bounds, HandlersStay
  <2> HIDE DEF tr
  <2> QED
    BY <1>1, <1>3, <2>1, <2>2, <2>3, PublishStep
<1> QED
  BY <1>2, <1>3 DEF CancelTrade

(* An exit that is requested begins at once. *)
LEMMA ExitRequested ==
    ASSUME IInv, NEW h \in Handlers, NEW t \in Trades, NEW quantity, NEW by \in {"full", "partial"},
           Exitable(t, quantity), StartExit(h, t, quantity, by), Dues',
           UNCHANGED <<created, mark, burst, order, alive>>
    PROVE  IInv' /\ Keeps
<1> DEFINE r == [Idle EXCEPT !.pc = "exit", !.by = by, !.trade = t,
                             !.price = mark, !.quantity = quantity]
           tr == BeginExitAttempt(trade[t])
<1>1. /\ handler[h] = Idle /\ trade' = [trade EXCEPT ![t] = tr]
      /\ handler' = [handler EXCEPT ![h] = r]
  BY OneTrade DEF StartExit
<1>2. trade[t].state = "ACTIVE" /\ quantity \in 1..OpenQuantity(trade[t])
      /\ OpenQuantity(trade[t]) \in Int
  BY OneTrade DEF Exitable, OpenQuantity, TradeRecord
<1>3. quantity \in Int /\ mark \in Nat
  <2>1. mark \in Prices /\ Prices \subseteq Nat
    BY Bounds, TradeEngineAssumption DEF TradeEngineAssumption
  <2> QED
    BY <1>2, <2>1
<1> DEFINE named == [Idle EXCEPT !.pc = "exit", !.by = by]
           placed == [named EXCEPT !.trade = t, !.price = mark]
<1>4. r = [placed EXCEPT !.quantity = quantity]
  OBVIOUS
<1> HIDE DEF r, tr
<1>5. r \in HandlerRecord /\ r.pc = "exit" /\ r.by = by /\ r.trade = t /\ r.quantity = quantity
  <2>1. named \in HandlerRecord /\ named.pc = "exit" /\ named.by = by
    BY IdleIsTyped DEF HandlerRecord, Calling
  <2> HIDE DEF named
  <2>2. placed \in HandlerRecord /\ placed.pc = "exit" /\ placed.by = by /\ placed.trade = t
    BY <1>3, <2>1 DEF HandlerRecord
  <2> HIDE DEF placed
  <2> QED
    BY <1>3, <1>4, <2>2 DEF HandlerRecord
<1> HIDE DEF named, placed
<1>6. InLoop(r) /\ handler[h].pc \notin Calling
  BY <1>1, <1>5 DEF InLoop, Idle, Calling
<1>7. /\ Loops' /\ handler'[h] = r
      /\ \A u \in Trades : u # t => Agree(handler, handler', u)
  BY <1>1, <1>5, <1>6, Bounds, HandlerMoves
<1>8. Begins(handler, handler', h, t, "exit")
  BY <1>1, <1>5, <1>6, <1>7 DEF Begins
<1>9. /\ TradeInv(t, tr, order[t], handler') /\ tr.awaiting = trade[t].awaiting
      /\ tr.state = trade[t].state /\ tr.filled = trade[t].filled /\ tr.exited = trade[t].exited
  BY <1>2, <1>5, <1>7, <1>8, OneTrade, ExitStarts DEF tr
<1>10. Moves(t, trade[t], order[t], tr, order[t])
  <2>1. IsTrade(t, trade[t]) /\ IsTrade(t, tr)
    BY <1>9, OneTrade DEF TradeInv
  <2> QED
    BY <1>9, <2>1, SamePosition
<1> QED
  BY <1>1, <1>7, <1>9, <1>10, TradeStep

LEMMA FullExitStep ==
    ASSUME IInv, NEW h \in Handlers, NEW t \in Trades, RequestFullExit(h, t)
    PROVE  IInv' /\ Keeps
<1>1. Dues'
  BY DEF RequestFullExit, IInv, World, Dues
<1> QED
  BY <1>1, ExitRequested DEF RequestFullExit

(* The trades, their orders and the handlers are as they were. *)
LEMMA StaySame ==
    ASSUME IInv, UNCHANGED <<trade, handler, order>>, Dues',
           created' \in 0..Count, mark' \in Prices, burst' \in 0..(Burst - 1), alive' \in BOOLEAN
    PROVE  IInv' /\ Keeps
<1>1. Loops'
  BY HandlersStay
<1>2. UNCHANGED Positions
  BY DEF Positions, Def
<1> QED
  BY <1>1, <1>2 DEF IInv, World, Keeps, KeepsStopHit

LEMMA PartialExitStep ==
    ASSUME IInv, NEW h \in Handlers, NEW t \in Trades, NEW i \in due[t], RequestPartialExit(h, t, i)
    PROVE  IInv' /\ Keeps
<1>1. /\ due' = [due EXCEPT ![t] = @ \ {i}]
      /\ UNCHANGED <<created, mark, burst, order, alive>>
  BY DEF RequestPartialExit
<1>2. Dues'
  BY <1>1 DEF IInv, World, Dues
<1>3. CASE Exitable(t, Def(t).plan[i]) /\ StartExit(h, t, Def(t).plan[i], "partial")
  BY <1>1, <1>2, <1>3, ExitRequested
<1>4. CASE UNCHANGED <<trade, handler>>
  BY <1>1, <1>2, <1>4, Bounds, StaySame
<1> QED
  BY <1>3, <1>4 DEF RequestPartialExit

(* A trailing stop loss is only ever better than the one it replaces. *)
LEMMA TrailingStep ==
    ASSUME IInv, NEW t \in Trades, NEW stop \in Trailing, UpdateTrailingStopLoss(t, stop)
    PROVE  IInv' /\ Keeps
<1> DEFINE tr == trade[t]
           tr2 == [tr EXCEPT !.stop = stop]
<1>1. /\ MoveStopLoss(Def(t), tr, stop) # tr /\ Publish(t, MoveStopLoss(Def(t), tr, stop))
      /\ UNCHANGED <<created, handler, mark, burst, order, alive>>
  BY DEF UpdateTrailingStopLoss
<1>2. tr.state = "ACTIVE" /\ Better(Def(t).direction, stop, tr.stop)
      /\ MoveStopLoss(Def(t), tr, stop) = tr2
  BY <1>1 DEF MoveStopLoss
<1>3. /\ TradeInv(t, tr, order[t], handler) /\ tr \in TradeRecord(Def(t), Prices)
      /\ StopFollows(t, tr) /\ IsTrade(t, tr)
  BY OneTrade DEF TradeInv
<1>4. stop \in Prices /\ Prices \subseteq Nat
  BY TradeEngineAssumption DEF TradeEngineAssumption
<1>5. /\ IsTrade(t, tr2) /\ Same(tr, tr2) /\ tr2.next = tr.next /\ tr2.stop = stop
      /\ tr2.awaiting = tr.awaiting
  BY <1>3, <1>4 DEF IsTrade, TradeRecord, Same
<1>6. Locked(t, tr) \in Nat /\ Locked(t, tr2) = Locked(t, tr)
  <2>1. tr.next \in 1..Len(Def(t).targets) + 1 /\ tr.fillPrice \in Prices
    BY <1>3 DEF TradeRecord
  <2>2. /\ Len(Def(t).targets) \in Nat /\ Def(t).stop \in Prices
        /\ \A i \in 1..Len(Def(t).targets) : Def(t).targets[i] \in Prices
    BY Definitions
  <2>3. tr.next = 1 \/ tr.next = 2 \/ (tr.next > 2 /\ tr.next - 2 \in 1..Len(Def(t).targets))
    BY <2>1, <2>2
  <2>4. Locked(t, tr) \in Nat
    BY <1>4, <2>1, <2>2, <2>3 DEF Locked
  <2> QED
    BY <2>4, <1>5 DEF Locked, Same
<1> HIDE DEF tr2
<1>7. StopFollows(t, tr2)
  <2>1. ~Better(Def(t).direction, Locked(t, tr), tr.stop)
    BY <1>2, <1>3 DEF StopFollows
  <2>2. tr.stop \in Nat /\ stop \in Nat
    BY <1>3, <1>4 DEF TradeRecord
  <2>3. ~Better(Def(t).direction, Locked(t, tr2), stop)
    BY <1>2, <1>6, <2>1, <2>2 DEF Better
  <2> QED
    BY <1>5, <2>3 DEF StopFollows
<1>8. TradeInv(t, tr2, order[t], handler)
  BY <1>3, <1>5, <1>7, QuietKeeps
<1>9. Loops' /\ \A u : Agree(handler, handler', u)
  BY <1>1, Bounds, HandlersStay
<1>10. Moves(t, tr, order[t], tr2, order[t])
  BY <1>3, <1>5, SamePosition DEF Same
<1> QED
  BY <1>1, <1>2, <1>5, <1>8, <1>9, <1>10, PublishStep

LEMMA BrokerFillsStep ==
    ASSUME IInv, NEW t \in Trades, BrokerFills(t)
    PROVE  IInv' /\ Keeps
<1> DEFINE o == order[t]
           tr == trade[t]
<1>1. /\ TradeInv(t, tr, o, handler) /\ o \in OrderRecord /\ trade = [trade EXCEPT ![t] = tr]
      /\ order = [u \in Trades |-> order[u]]
  BY OneTrade DEF IInv, World
<1>2. UNCHANGED <<created, trade, handler, due, mark, burst, alive>>
  BY DEF BrokerFills
<1>3. ASSUME NEW o2 \in OrderRecord, order' = [order EXCEPT ![t] = o2],
             o.buying > 0 \/ o.selling > 0,
             o2.entries = o.entries, o.bought <= o2.bought, o.sold <= o2.sold,
             o2.stray = o.stray,
             o2.bought + o2.buying <= o.bought + o.buying,
             o2.sold + o2.selling <= o.sold + o.selling
      PROVE  IInv' /\ Keeps
  <2>1. o.entries # 0 /\ ~Paper(t)
    BY <1>1, <1>3 DEF TradeInv, Unsent, OnPaper, NoOrders
  <2> HIDE DEF o, tr
  <2>2. TradeInv(t, tr, o2, handler) /\ Moves(t, tr, o, tr, o2)
    BY <1>1, <1>3, <2>1, OrderMoves
  <2>3. Loops' /\ \A u : Agree(handler, handler', u)
    BY <1>2, Bounds, HandlersStay
  <2>4. Dues'
    BY <1>2 DEF IInv, World, Dues
  <2>5. trade' = [trade EXCEPT ![t] = tr]
    BY <1>1, <1>2
  <2>6. TradeInv(t, tr, o2, handler')
    BY <1>2, <2>2
  <2> QED
    BY <1>3, <2>2, <2>3, <2>4, <2>5, <2>6, TradeStep DEF tr, o
<1>4. CASE o.buying > 0 /\ order' = [order EXCEPT ![t].bought = @ + order[t].buying, ![t].buying = 0]
  <2> DEFINE o2 == [o EXCEPT !.bought = @ + o.buying, !.buying = 0]
  <2>1. order' = [order EXCEPT ![t] = o2]
    BY <1>1, <1>4
  <2>2. o.bought + o.buying \in Nat /\ o.bought <= o.bought + o.buying
        /\ o.sold \in Nat /\ o.bought \in Nat /\ o.buying \in Nat /\ o.selling \in Nat
    BY <1>1 DEF OrderRecord
  <2>3. /\ o2 \in OrderRecord /\ o2.entries = o.entries /\ o2.bought = o.bought + o.buying
        /\ o2.sold = o.sold /\ o2.buying = 0 /\ o2.selling = o.selling /\ o2.stray = o.stray
    BY <1>1, <2>2 DEF OrderRecord
  <2>4. /\ o.buying > 0 \/ o.selling > 0
        /\ o.bought <= o2.bought /\ o.sold <= o2.sold
        /\ o2.bought + o2.buying <= o.bought + o.buying
        /\ o2.sold + o2.selling <= o.sold + o.selling
    BY <1>4, <2>2, <2>3
  <2> HIDE DEF o2, o
  <2> QED
    BY <1>3, <2>1, <2>3, <2>4
<1>5. CASE o.selling > 0 /\ order' = [order EXCEPT ![t].sold = @ + order[t].selling, ![t].selling = 0]
  <2> DEFINE o2 == [o EXCEPT !.sold = @ + o.selling, !.selling = 0]
  <2>1. order' = [order EXCEPT ![t] = o2]
    BY <1>1, <1>5
  <2>2. o.sold + o.selling \in Nat /\ o.sold <= o.sold + o.selling
        /\ o.sold \in Nat /\ o.bought \in Nat /\ o.buying \in Nat /\ o.selling \in Nat
    BY <1>1 DEF OrderRecord
  <2>3. /\ o2 \in OrderRecord /\ o2.entries = o.entries /\ o2.sold = o.sold + o.selling
        /\ o2.bought = o.bought /\ o2.selling = 0 /\ o2.buying = o.buying /\ o2.stray = o.stray
    BY <1>1, <2>2 DEF OrderRecord
  <2>4. /\ o.buying > 0 \/ o.selling > 0
        /\ o.bought <= o2.bought /\ o.sold <= o2.sold
        /\ o2.bought + o2.buying <= o.bought + o.buying
        /\ o2.sold + o2.selling <= o.sold + o.selling
    BY <1>5, <2>2, <2>3
  <2> HIDE DEF o2, o
  <2> QED
    BY <1>3, <2>1, <2>3, <2>4
<1> QED
  BY <1>4, <1>5 DEF BrokerFills

-----------------------------------------------------------------------------
(* The invariant *)

LEMMA InitHolds == Init => IInv
<1> SUFFICES ASSUME Init PROVE IInv
  OBVIOUS
<1>1. Loops
  BY IdleIsTyped, TradeEngineAssumption DEF Init, Loops, TradeEngineAssumption
<1>2. Dues
  BY DEF Init, Dues
<1>3. trade = [t \in Trades |-> trade[t]] /\ order = [t \in Trades |-> order[t]]
  BY DEF Init
<1>4. ASSUME NEW t \in Trades
      PROVE  TradeInv(t, trade[t], order[t], handler)
  <2> DEFINE tr == New(Def(t))
  <2>1. trade[t] = tr /\ order[t] = NoOrders
    BY DEF Init
  <2>2. \A h \in Handlers, pc \in {"entry", "exit"} : ~On(handler, h, t, pc)
    BY DEF Init, On, Idle
  <2>3. IsTrade(t, tr)
    BY Definitions DEF New, IsTrade, TradeRecord, Seen, TradeState, Live, Lifecycle
  <2>4. /\ tr.state = "DRAFT" /\ tr.entry = "none" /\ tr.exit = "none" /\ tr.filled = 0
        /\ tr.exited = 0 /\ tr.next = 1
    BY DEF New
  <2>5. /\ NoOrders \in OrderRecord /\ NoOrders.entries = 0 /\ NoOrders.bought = 0
        /\ NoOrders.sold = 0 /\ NoOrders.buying = 0 /\ NoOrders.selling = 0 /\ ~NoOrders.closed
        /\ NoOrders.stray = 0
    BY DEF NoOrders, OrderRecord
  <2> HIDE DEF tr
  <2>6. Entering(t, tr, NoOrders, handler) /\ Unsent(t, tr, NoOrders, handler)
    BY <2>2, <2>4, <2>5 DEF Entering, Unsent
  <2>7. Books(t, tr, NoOrders) /\ StopFollows(t, tr) /\ OnPaper(t, tr, NoOrders, handler)
    BY <2>2, <2>4, <2>5 DEF Books, StopFollows, OnPaper
  <2>8. Opens(t, tr, NoOrders, handler)
    BY <2>2, <2>4, <2>5, Definitions, Copying DEF Opens, Waits, Opened
  <2> QED
    BY <2>1, <2>3, <2>5, <2>6, <2>7, <2>8 DEF TradeInv
<1> QED
  BY <1>1, <1>2, <1>3, <1>4 DEF IInv, World

LEMMA StepKeeps == IInv /\ [Next]_vars => IInv' /\ Keeps
<1> SUFFICES ASSUME IInv, [Next]_vars PROVE IInv' /\ Keeps
  OBVIOUS
<1>1. CASE CreateTrade
  BY <1>1, CreateStep
<1>2. CASE EndOfRead
  BY <1>2, EndOfReadStep
<1>3. ASSUME NEW h \in Handlers, HandlerStep(h)
      PROVE  IInv' /\ Keeps
  BY <1>3, NextTradeStep, PaperEntryStep, PaperExitStep, LiveEntryStep, LiveExitStep,
     LiveCancelStep DEF HandlerStep
<1>4. ASSUME NEW h \in Handlers, NEW price \in Prices, Tick(h, price)
      PROVE  IInv' /\ Keeps
  BY <1>4, TickStep
<1>5. ASSUME NEW h \in Handlers, NEW t \in Trades,
             \/ CancelTrade(h, t)
             \/ RequestFullExit(h, t)
             \/ \E i \in due[t] : RequestPartialExit(h, t, i)
      PROVE  IInv' /\ Keeps
  BY <1>5, CancelStep, FullExitStep, PartialExitStep
<1>6. ASSUME NEW t \in Trades, NEW stop \in Trailing, UpdateTrailingStopLoss(t, stop)
      PROVE  IInv' /\ Keeps
  BY <1>6, TrailingStep
<1>7. ASSUME NEW t \in Trades, BrokerFills(t)
      PROVE  IInv' /\ Keeps
  BY <1>7, BrokerFillsStep
<1>8. CASE UNCHANGED vars
  <2>1. UNCHANGED <<trade, handler, order, due, created, mark, burst, alive>>
    BY <1>8 DEF vars
  <2>2. Dues'
    BY <2>1 DEF IInv, World, Dues
  <2> QED
    BY <2>1, <2>2, Bounds, StaySame
<1> QED
  BY <1>1, <1>2, <1>3, <1>4, <1>5, <1>6, <1>7, <1>8 DEF Next

(* The invariant of the engine holds in every state: each trade is tied to    *)
(* its orders and to the handlers at it (TradingEngineService, TradeEngine).  *)
THEOREM Inductive == Spec => []IInv
<1>1. Init => IInv
  BY InitHolds
<1>2. IInv /\ [Next]_vars => IInv'
  BY StepKeeps
<1> QED
  BY <1>1, <1>2, PTL DEF Spec

(* Every variable keeps its type, whatever the handlers do. *)
THEOREM TypeCorrect == Spec => []TypeOK
<1>1. IInv => TypeOK
  <2> SUFFICES ASSUME IInv PROVE TypeOK
    OBVIOUS
  <2>1. order = [t \in Trades |-> order[t]] /\ \A t \in Trades : order[t] \in OrderRecord
    BY DEF IInv, World, TradeInv
  <2>2. order \in [Trades -> OrderRecord]
    BY <2>1
  <2>3. DOMAIN trade = Trades /\ \A t \in Trades : trade[t] \in TradeRecord(Def(t), Prices)
    BY DEF IInv, World, TradeInv, IsTrade
  <2>4. DOMAIN due = Trades /\ \A t \in Trades : due[t] \subseteq 1..Len(Def(t).targets)
    BY DEF IInv, World, Dues
  <2> QED
    BY <2>2, <2>3, <2>4 DEF TypeOK, IInv, World, Loops
<1> QED
  BY <1>1, Inductive, PTL

(* However many handlers await an executor and whoever cancels meanwhile, an  *)
(* entry order is sent at most once for a trade (triggerEntry's transition).  *)
THEOREM EntryOnce == Spec => []EntryPlacedOnce
<1>1. IInv => EntryPlacedOnce
  <2> SUFFICES ASSUME IInv, NEW t \in DOMAIN order PROVE order[t].entries <= 1
    BY DEF EntryPlacedOnce
  <2>1. t \in Trades
    BY DEF IInv, World
  <2>2. order[t].entries \in {0, 1}
    BY <2>1 DEF IInv, TradeInv, Entering
  <2> QED
    BY <2>2
<1> QED
  BY <1>1, Inductive, PTL

(* A trade keeps the mode of its definition. *)
LEMMA ModeIsDefined ==
    ASSUME IInv, NEW t \in Trades
    PROVE  trade[t].mode = "PAPER" <=> Paper(t)
BY DEF IInv, TradeInv, IsTrade, TradeRecord, Paper

(* A trade never records a fill its executor did not make; a paper trade has  *)
(* recorded every one (applyEntryOrderResponse, applyExitOrderResponse).      *)
THEOREM BooksHold == Spec => []BooksFollowOrders
<1>1. IInv => BooksFollowOrders
  <2> SUFFICES ASSUME IInv, NEW t \in DOMAIN trade
               PROVE  /\ trade[t].filled <= order[t].bought
                      /\ trade[t].exited <= order[t].sold
                      /\ trade[t].mode = "PAPER" =>
                           trade[t].filled = order[t].bought /\ trade[t].exited = order[t].sold
    BY DEF BooksFollowOrders
  <2>1. t \in Trades /\ Books(t, trade[t], order[t])
    BY DEF IInv, World, TradeInv
  <2>2. trade[t].mode = "PAPER" => Paper(t)
    BY <2>1, ModeIsDefined
  <2> QED BY <2>1, <2>2 DEF Books
<1> QED
  BY <1>1, Inductive, PTL

(* Overlapping exits never sell more of a paper trade than it bought, and a   *)
(* trade that ended holds nothing (PaperExecutor.exitPosition).               *)
THEOREM PaperFlat == Spec => []PaperEndsFlat
<1>1. IInv => PaperEndsFlat
  <2> SUFFICES ASSUME IInv, NEW t \in DOMAIN trade, trade[t].mode = "PAPER"
               PROVE  /\ order[t].sold <= order[t].bought
                      /\ trade[t].state = "COMPLETED" =>
                           order[t].bought = Def(t).quantity /\ order[t].sold = Def(t).quantity
                      /\ EndedWithoutEntry(t) => order[t].bought = 0
    BY DEF PaperEndsFlat
  <2>0. t \in Trades /\ Paper(t)
    <3>1. t \in Trades
      BY DEF IInv, World
    <3> QED BY <3>1, ModeIsDefined
  <2> DEFINE tr == trade[t]
             o == order[t]
  <2>1. Entering(t, tr, o, handler) /\ Unsent(t, tr, o, handler) /\ OnPaper(t, tr, o, handler)
    BY <2>0 DEF IInv, TradeInv
  <2>2. o.entries \in {0, 1}
    BY <2>1 DEF Entering
  <2>3. o.entries = 0 => o.bought = 0 /\ tr.state # "COMPLETED"
    BY <2>1 DEF Unsent, NoOrders
  <2> QED
    BY <2>0, <2>1, <2>2, <2>3 DEF OnPaper, EndedWithoutEntry
<1> QED
  BY <1>1, Inductive, PTL

(* The stop loss of an ACTIVE trade is at least the one its last target hit   *)
(* locks in, whatever trailing moves were made (advancePrice, moveStopLoss).  *)
THEOREM StopsFollow == Spec => []StopFollowsTargets
<1>1. IInv => StopFollowsTargets
  BY DEF IInv, World, TradeInv, StopFollows, Locked, StopFollowsTargets, LockedIn
<1> QED
  BY <1>1, Inductive, PTL

(* A stop loss once hit is not forgotten before nothing is open, whatever the *)
(* exit attempts end as (markExitAttemptFailed, applyExitOrderResponse).      *)
THEOREM StopKept == Spec => StopHitIsKept
<1>1. IInv /\ [Next]_vars => [\A t \in DOMAIN trade : KeepsStopHit(t)]_vars
  BY StepKeeps DEF Keeps
<1> QED
  BY <1>1, Inductive, PTL DEF Spec, StopHitIsKept

(* Whatever prices, exits, cancels and answers come in whatever order, what   *)
(* the engine does to a trade and its orders is a step of its Position, or    *)
(* does not show in it: the executor is asked to buy it once and to sell it   *)
(* only when it was opened, and the trade records of that at most one order   *)
(* of its quantity.  On paper that is all that is bought, and the sale that   *)
(* leaves nothing completes it; for a live trade the broker may make of one   *)
(* call as many orders as DhanExecutor.safeSend sent requests.                *)
THEOREM PositionsKept == Spec => PositionsAreKept
<1>1. Init => Kept!Init
  <2> SUFFICES ASSUME Init, NEW t \in DOMAIN trade PROVE Kept!Untouched(Positions[t])
    BY DEF Kept!Init, Positions
  <2>1. t \in Trades /\ trade[t] = New(Def(t)) /\ order[t] = NoOrders
    BY DEF Init
  <2>2. Positions[t] = PositionOf(Def(t), New(Def(t)), NoOrders)
    BY <2>1 DEF Positions
  <2>3. PhaseOf("DRAFT") = "waiting"
    BY Phases DEF Seen, Waits
  <2> QED
    BY <2>2, <2>3 DEF Kept!Untouched, PositionOf, New, NoOrders
<1>2. IInv /\ [Next]_vars => [Kept!Next]_Positions
  BY StepKeeps DEF Keeps
<1> QED
  BY <1>1, <1>2, Inductive, PTL DEF Spec, PositionsAreKept, Kept!Spec
=============================================================================
