------------------------------ MODULE MCRequests ------------------------------
(* What stands between a user and the engine, in one run: the risk controls  *)
(* that vet a request; the instruments that a symbol resolves to, and the    *)
(* form it is typed in; what the screens are shown of a trade; and the       *)
(* figures computed for them.  A behaviour is of one part from its start;    *)
(* the others stay in one of their initial states.                           *)
EXTENDS MCRiskValues, RiskControls, Instruments, MCFigures, TLC

CONSTANT Parts
VARIABLE part

MCScenarios ==
    {{"submit", "vet"},
     {"submit", "trigger"},
     {"trigger", "reset", "activate", "deactivate", "crash", "fail"},
     {"outcome", "maintain", "tick", "crash", "fail"},
     {"loss", "maintain", "tick", "breaker"},
     {"policy", "trigger"}}

Option(id, day, strike, option, lots) ==
    [id |-> id, exchange |-> "NSE", segment |-> "D", kind |-> "OPTIDX",
     symbol |-> <<"NIFTY", day, strike, option>>, lots |-> lots, tick |-> 5, day |-> day,
     strike |-> strike, option |-> option]
Stock(id, symbol, kind, segment, day) ==
    [id |-> id, exchange |-> "NSE", segment |-> segment, kind |-> kind, symbol |-> symbol,
     lots |-> 1, tick |-> 5, day |-> day, strike |-> 0, option |-> "XX"]
MCListings ==
    <<<<Option("11", 0, 100, "CE", 2), Option("12", 1, 100, "CE", 2),
        Stock("21", <<"TCS">>, "", "E", None)>>,
      <<Option("12", 1, 100, "CE", 3), Stock("22", <<"TCS">>, "EQUITY", "X", None),
        Stock("23", <<"TCS", "FUT">>, "FUTSTK", "D", 3)>>>>
MCIndexOptions == <<[underlying |-> "NIFTY", exchange |-> "NSE_FNO", segment |-> "OPTIDX",
                     strikeStep |-> 50, strikeCount |-> 2, atmStrike |-> 100, lotSize |-> 2]>>
MCEquities == <<"TCS">>
MCNumeral == "100" :> 100 @@ "75" :> 75
MCQueries == {<<"TCS">>, <<"NIFTY", "100", "CE">>, <<"NIFTY", "100", "XX">>}
MCMasterScenarios == {{"overlap", "loses", "restart"}, {"form"}}

MCDefinitions ==
    [t \in ViewedTrades |->
       [direction |-> "LONG", quantity |-> 1, trigger |-> 3, stop |-> 1, targets |-> <<6>>,
        mode |-> "LIVE", trailing |-> [strategy |-> "STEP", size |-> 1, lock |-> Null]]]
MCViewScenarios == {{"trail"}, {"read", "exit", "lossy"}}

-----------------------------------------------------------------------------
InitRequests ==
    /\ part \in Parts
    /\ Init /\ (part # "risk" => scenario = CHOOSE s \in Scenarios : TRUE)
    /\ MasterInit
    /\ part # "instruments" => /\ masterScenario = CHOOSE s \in MasterScenarios : TRUE
                               /\ source = CHOOSE s \in Sources : TRUE
    /\ InitViews /\ (part # "views" => viewScenario = CHOOSE s \in ViewScenarios : TRUE)
    /\ IF part = "figures" THEN InitFigures ELSE sample = [kind |-> "none"]

RiskStep == part = "risk" /\ Next /\ UNCHANGED <<part, masterVars, viewVars, sample>>
InstrumentsStep ==
    part = "instruments" /\ MasterNext /\ UNCHANGED <<part, vars, viewVars, sample>>
ViewsStep == part = "views" /\ NextViews /\ UNCHANGED <<part, vars, masterVars, sample>>

RequestsSpec ==
    /\ InitRequests
    /\ [][RiskStep \/ InstrumentsStep \/ ViewsStep]_<<part, vars, masterVars, viewVars, sample>>

=============================================================================
