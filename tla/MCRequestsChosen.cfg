CONSTANTS
    Parts = {"instruments"}
    Absent = Absent
    Missing = Absent
    Null = Null
    None = None
    Instruments <- MCSymbols
    Calls = {"c1", "c2"}
    Scenarios <- MCScenarios
    Trades = {"T1", "T2"}
    Candidates <- MCCandidates
    Few <- MCFew
    Policy <- MCPolicy
    Patches <- MCPatches
    Limits <- MCLimits
    Hours <- MCHours
    Flags <- MCFlags
    Outcomes <- MCOutcomes
    MaxTime = 3
    DayLength = 3
    MaxEvents = 3
    Listings <- MCListings
    IndexOptions <- MCIndexOptions
    Equities <- MCEquities
    Sources = {"MOCK", "DHAN"}
    Numeral <- MCNumeral
    Queries <- MCQueries
    LotCounts = {1, 3}
    Refreshes = {r1, r2}
    BatchSize = 2
    MonthDays = 2
    MasterScenarios <- MCMasterScenarios
    MaxNow = 4
    MaxVersion = 3
    ViewedTrades = {t1}
    Definitions <- MCDefinitions
    Prices = {4, 5, 6}
    Readers = {b1}
    ViewScenarios <- MCViewScenarios
    AskedExits = {"MANUAL", "BROKER_DISCONNECT"}
    MaxPrices = 3
    Configs <- MCConfigs
    Contexts <- MCContexts
    Positions <- MCPositions
    Marks <- MCMarks
    Books <- MCBooks
SPECIFICATION RequestsSpec
INVARIANTS
    ChosenIsTradable
CHECK_DEADLOCK FALSE
