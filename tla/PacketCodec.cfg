SPECIFICATION Spec
CONSTANTS
    Files <- MCFiles
    Outside <- MCOutside
    Loads <- MCLoads
    Calls <- MCCalls
    MaxCalls = 2
INVARIANTS
    TypeOK
    SurvivesTheWire
    ValuesReadBack
    RaisesOnlyWhenTooLong
    DictionaryMatchesFiles
CHECK_DEADLOCK FALSE
