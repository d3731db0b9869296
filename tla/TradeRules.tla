------------------------------ MODULE TradeRules ------------------------------
(***************************************************************************)
(* What a trade request is tested against before it is queued: the rules   *)
(* of TradeValidationService, in the order TradeValidationModule registers *)
(* them, and the decision of the risk engine (evaluateTradeRisk) that one  *)
(* of them asks for.  Both stop at the first failure.                      *)
(*                                                                         *)
(* A request is a record whose numbers are integers or Absent, the         *)
(* undefined field of a JSON body; instruments are what the resolver finds *)
(* for a symbol.                                                           *)
(***************************************************************************)
EXTENDS Integers, Sequences, FiniteSetsExt

CONSTANTS
    Absent,       \* a field the request does not have
    Instruments   \* symbol |-> [token, lotSize], for the symbols that resolve

Passed == "OK"

Total(S, f(_)) == FoldSet(LAMBDA x, sum : f(x) + sum, 0, S)

(* The first failure of a sequence of verdicts, Passed if there is none *)
FirstFailure(verdicts) ==
    LET failures == {i \in DOMAIN verdicts : verdicts[i] # Passed}
    IN  IF failures = {} THEN Passed ELSE verdicts[Min(failures)]

Test(condition, code) == IF condition THEN Passed ELSE code

-----------------------------------------------------------------------------
(* The rules, in their order.  Each is only asked for a request that passed *)
(* the rules before it.                                                     *)
RequiredFields(r) ==
    Test(/\ r.rawSymbol # Absent
         /\ r.direction \in {"LONG", "SHORT"}
         /\ Absent \notin {r.quantity, r.entryTriggerPrice, r.initialStopLoss}
         /\ r.targets # <<>>, "REQUIRED_FIELD_MISSING")

InstrumentExists(r) == Test(r.rawSymbol \in DOMAIN Instruments, "INSTRUMENT_NOT_FOUND")

(* The trading hours, of which both ends are included *)
MarketOpen(minute, hours) ==
    Test(hours.startUtcMinutes <= minute /\ minute <= hours.endUtcMinutes, "MARKET_CLOSED")

Quantity(r) ==
    LET lot == Instruments[r.rawSymbol].lotSize
    IN  Test(r.quantity > 0 /\ (lot > 0 => r.quantity % lot = 0), "INVALID_QUANTITY")

EntryPrice(r) == Test(r.entryTriggerPrice > 0, "INVALID_ENTRY_PRICE")

(* b is strictly beyond a, in the direction a trade earns *)
Beyond(direction, b, a) == IF direction = "LONG" THEN b > a ELSE b < a

StopLoss(r) ==
    Test(/\ r.initialStopLoss > 0
         /\ Beyond(r.direction, r.entryTriggerPrice, r.initialStopLoss), "INVALID_STOP_LOSS")

Mutant_TargetFirstOnly(r) ==
    Test(/\ \A i \in DOMAIN r.targets : r.targets[i] > 0
         /\ Beyond(r.direction, r.targets[1], r.entryTriggerPrice), "INVALID_TARGETS")

Target(r) ==
    Test(/\ \A i \in DOMAIN r.targets : r.targets[i] > 0
         /\ Beyond(r.direction, r.targets[1], r.entryTriggerPrice)
         /\ \A i \in 2..Len(r.targets) : Beyond(r.direction, r.targets[i], r.targets[i - 1]),
         "INVALID_TARGETS")

(* `open` are the trades that are not terminal: records [token, direction, quantity, price] *)
DuplicateTrade(r, open) ==
    Test(\A t \in open : t.token # Instruments[r.rawSymbol].token, "DUPLICATE_ACTIVE_TRADE")

(* RiskRule's limits, of the paper or the live account; `today` counts the  *)
(* trades of this UTC day and what they earned.                             *)
Risk(r, open, today, limits) ==
    Test(/\ r.quantity <= limits.maxQuantity
         /\ Cardinality(open) < limits.maxOpenTrades
         /\ today.count < limits.maxDailyTrades
         /\ today.realizedPnl > -limits.maxDailyLoss, "RISK_LIMIT_EXCEEDED")

FeatureFlag(flags) ==
    Test(~flags.killSwitchEnabled /\ flags.tradingEnabled, "FEATURE_DISABLED")

-----------------------------------------------------------------------------
(* evaluateTradeRisk *)
Exposure(price, quantity) == price * quantity

SameInstrument(r, open) == {t \in open : t.token = Instruments[r.rawSymbol].token}

CheckQuantity(policy, r, open) ==
    LET held(S) == Total(S, LAMBDA t : t.quantity)
    IN  Test(/\ r.quantity <= policy.maxQuantityPerTrade
             /\ held(SameInstrument(r, open)) + r.quantity <= policy.maxQuantityPerInstrument
             /\ held(open) + r.quantity <= policy.maxQuantityGlobal, "MAX_QUANTITY_EXCEEDED")

CheckExposure(policy, r, open) ==
    LET proposed == Exposure(r.entryTriggerPrice, r.quantity)
        held(S) == Total(S, LAMBDA t : Exposure(t.price, t.quantity))
    IN  Test(/\ proposed <= policy.maxExposurePerTrade
             /\ held(SameInstrument(r, open)) + proposed <= policy.maxExposurePerInstrument
             /\ held(open) + proposed <= policy.maxTotalExposure, "MAX_EXPOSURE_REACHED")

(* Capital used is exposure.  With no capital available, all of it is used. *)
CheckCapital(policy, r, open) ==
    LET proposed == Exposure(r.entryTriggerPrice, r.quantity)
        held(S) == Total(S, LAMBDA t : Exposure(t.price, t.quantity))
        total == held(open) + proposed
        available == policy.availableCapital
        used == IF available > 0 THEN total * 100 ELSE 100
        allowed == policy.maxPercentageOfAvailableCapital
    IN  Test(/\ proposed <= policy.maxCapitalPerTrade
             /\ held(SameInstrument(r, open)) + proposed <= policy.maxCapitalPerInstrument
             /\ total <= policy.maxTotalDeployedCapital
             /\ used <= (IF available > 0 THEN allowed * available ELSE allowed),
             "MAX_CAPITAL_EXCEEDED")

(* calculatePointRisk and calculateRupeeRisk *)
RupeeRisk(r) ==
    (IF r.direction = "LONG" THEN r.entryTriggerPrice - r.initialStopLoss
     ELSE r.initialStopLoss - r.entryTriggerPrice) * r.quantity

(* calculateRiskPercentage is 0 of no capital *)
CheckRiskPerTrade(policy, r) ==
    Test(/\ RupeeRisk(r) <= policy.maxRiskPerTrade
         /\ policy.dailyRiskCapital > 0 =>
              RupeeRisk(r) * 100 <= policy.maxRiskPerTradePercentage * policy.dailyRiskCapital,
         "MAX_RISK_PER_TRADE_EXCEEDED")

CheckDuplicatePosition(policy, r, open) ==
    LET same == SameInstrument(r, open)
    IN  Test(\/ same = {}
             \/ policy.duplicateInstrumentPolicy = "ALLOW_MULTIPLE"
             \/ /\ policy.duplicateInstrumentPolicy = "ALLOW_OPPOSITE_DIRECTION_ONLY"
                /\ \A t \in same : t.direction # r.direction, "DUPLICATE_POSITION")

(* The limit is absolute, or a percentage of the daily risk capital. *)
LossLimitReached(policy, realizedPnl) ==
    IF policy.maxDailyLossType = "PERCENTAGE"
    THEN realizedPnl * 100 <= -(policy.maxDailyLoss * policy.dailyRiskCapital)
    ELSE realizedPnl <= -policy.maxDailyLoss

(* `risk` is what the services say: killSwitchStatus, emergencyStopActive,  *)
(* breakers, cooldown (whether one is active) and today's losses.           *)
BlockedBy(policy, risk) ==
    FirstFailure(<<
        Test(~risk.emergencyStopActive, "EMERGENCY_STOP_ACTIVE"),
        Test(risk.killSwitchStatus = "ACTIVE", "KILL_SWITCH_ACTIVE"),
        Test(risk.breakers["BROKER"] = "CLOSED", "BROKER_UNAVAILABLE"),
        Test(risk.breakers["MARKET_DATA"] = "CLOSED", "MARKET_DATA_UNAVAILABLE"),
        Test(risk.breakers["ORDER_EXECUTION"] = "CLOSED", "CIRCUIT_BREAKER_OPEN"),
        Test(~risk.cooldown, "COOLDOWN_ACTIVE"),
        Test(risk.consecutiveLosses < policy.maxConsecutiveLosses, "MAX_CONSECUTIVE_LOSSES_REACHED"),
        Test(~LossLimitReached(policy, risk.realizedPnl), "DAILY_LOSS_LIMIT_BREACHED") >>)

EvaluateTradeRisk(policy, r, open, risk) ==
    FirstFailure(<<
        BlockedBy(policy, risk),
        Test(Cardinality(open) < policy.maxOpenTrades, "MAX_OPEN_TRADES_REACHED"),
        CheckQuantity(policy, r, open),
        CheckExposure(policy, r, open),
        CheckCapital(policy, r, open),
        CheckRiskPerTrade(policy, r),
        CheckDuplicatePosition(policy, r, open) >>)

-----------------------------------------------------------------------------
(* The rules that come before RiskManagementRule.  A rule reads what the    *)
(* rules before it made sure of, so it is not evaluated after a failure.    *)
WellFormed(r) ==
    IF RequiredFields(r) # Passed THEN RequiredFields(r)
    ELSE IF InstrumentExists(r) # Passed THEN InstrumentExists(r)
    ELSE FirstFailure(<<Quantity(r), EntryPrice(r), StopLoss(r), Target(r)>>)

(* MarketOpen comes third, between the two: a closed market hides what is   *)
(* wrong with the numbers.                                                  *)
Validate(r, minute, hours, open, today, limits) ==
    IF WellFormed(r) \in {"REQUIRED_FIELD_MISSING", "INSTRUMENT_NOT_FOUND"} THEN WellFormed(r)
    ELSE FirstFailure(<<MarketOpen(minute, hours), WellFormed(r),
                        DuplicateTrade(r, open), Risk(r, open, today, limits)>>)
=============================================================================
