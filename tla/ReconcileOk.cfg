\* An input that is ok although part of it was passed over.
CONSTANTS
    Missing = Missing
    NotANumber = NotANumber
    Junk = Junk
    Calls <- AllCalls
CHECK_DEADLOCK FALSE
SPECIFICATION Spec
INVARIANT OkMeansRecognised
