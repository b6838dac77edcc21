\* Bybit and Lighter inputs of up to three lines.
CONSTANTS
    Missing = Missing
    NotANumber = NotANumber
    Junk = Junk
    Calls <- AllCalls
CHECK_DEADLOCK FALSE
SPECIFICATION Spec
INVARIANTS
    TypeOK
    EveryRecordAccounted
    FactIdNamesOne
PROPERTIES
    ImplementsContract
