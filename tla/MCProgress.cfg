CONSTANTS
    NoKey = NoKey
    Missing = Missing
SPECIFICATION ProgressSpec
PROPERTIES
    PromiseIsKept
    StopsAreHonoured
    CooldownsDoLapse
    OutagesAreAnnounced
CHECK_DEADLOCK FALSE
