----------------------------- MODULE MCRiskValues -----------------------------
(* The values that the instances of RiskControls share: the requests and the *)
(* rules they are tested against.                                            *)
EXTENDS Integers, Sequences

CONSTANT Missing

MCSymbols == [NIFTY |-> [token |-> "t1", lotSize |-> 2], BANK |-> [token |-> "t2", lotSize |-> 1]]

Good(symbol) == [rawSymbol |-> symbol, direction |-> "LONG", quantity |-> 2,
                 entryTriggerPrice |-> 3, initialStopLoss |-> 2, targets |-> <<4, 5>>]
Short == [Good("BANK") EXCEPT !.direction = "SHORT", !.initialStopLoss = 4, !.targets = <<2, 1>>]

(* Every request that has one field wrong, or two prices out of order *)
Numbers == {Missing, 0, 1, 2, 3, 4}
MCCandidates ==
    {Good("NIFTY"), Good("BANK"), Short}
    \cup {[Short EXCEPT !.initialStopLoss = n] : n \in Numbers}
    \cup {[Short EXCEPT !.targets = ts] : ts \in {<<>>, <<2, 0>>, <<1, 2>>, <<3>>, <<2, 2>>}}
    \cup {[Good("NIFTY") EXCEPT !.rawSymbol = s] : s \in {Missing, "OTHER"}}
    \cup {[Good("NIFTY") EXCEPT !.direction = "BOTH"]}
    \cup {[Good("NIFTY") EXCEPT !.quantity = n] : n \in Numbers}
    \cup {[Good("NIFTY") EXCEPT !.entryTriggerPrice = n] : n \in Numbers}
    \cup {[Good("NIFTY") EXCEPT !.initialStopLoss = n] : n \in Numbers}
    \cup {[Good("NIFTY") EXCEPT !.targets = ts] : ts \in {<<>>, <<4, 4>>, <<3>>, <<5, 4>>, <<0>>}}
MCFew == {Good("NIFTY"), Short}

MCPolicy ==
    [maxDailyLoss |-> 5, maxDailyLossType |-> "ABSOLUTE", dailyRiskCapital |-> 100,
     maxOpenTrades |-> 2, maxQuantityPerTrade |-> 4, maxQuantityPerInstrument |-> 4,
     maxQuantityGlobal |-> 6, maxExposurePerTrade |-> 12, maxExposurePerInstrument |-> 12,
     maxTotalExposure |-> 20, maxCapitalPerTrade |-> 12, maxCapitalPerInstrument |-> 12,
     maxTotalDeployedCapital |-> 20, maxPercentageOfAvailableCapital |-> 50,
     availableCapital |-> 40, maxRiskPerTrade |-> 4, maxRiskPerTradePercentage |-> 4,
     duplicateInstrumentPolicy |-> "REJECT", cooldownAfterLossMs |-> 1,
     cooldownAfterEmergencyExitMs |-> 1, maxConsecutiveLosses |-> 2,
     killSwitchForceExitsPositions |-> TRUE,
     circuitBreakerFailureThreshold |-> 2, circuitBreakerOpenDurationMs |-> 1]
MCPatches == {[killSwitchForceExitsPositions |-> FALSE], [maxOpenTrades |-> 1]}

MCLimits == [maxQuantity |-> 4, maxOpenTrades |-> 2, maxDailyTrades |-> 2, maxDailyLoss |-> 9]
MCHours == [startUtcMinutes |-> 0, endUtcMinutes |-> 1]
MCFlags == [killSwitchEnabled |-> FALSE, tradingEnabled |-> TRUE]
MCOutcomes == {-1, 1}
=============================================================================
