\* A crash right after createTrade.
CONSTANTS
    k1 = k1
    k2 = k2
    c1 = c1
    c2 = c2
    c3 = c3
    i1 = i1
    NoKey = NoKey
    NoCall = NoCall
    Keys <- MCKeys
    Calls <- MCCalls
    Instruments <- MCInstruments
    InstrumentOf <- MCInstrumentOf
    KeyOf <- MCKeyOf
    KillSwitchSettings <- Off
    MaxRetries = 1
    MaxQueueSize = 2
    MaxCancels = 0
    MaxExpiries = 0
    CanPrune = FALSE
    MaxCrashes = 1
    MaxStops = 0
    MaxSaveFaults = 0
SPECIFICATION Spec
INVARIANTS
    ExactlyOnceExecution
CHECK_DEADLOCK FALSE
