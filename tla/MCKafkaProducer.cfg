CONSTANTS
    Callers = {c1, c2}
    NoCaller = NoCaller
    MaxRetries = 2
SPECIFICATION FairSpec
INVARIANTS ProducerTypeOK StartIsExclusive AnswersAreTrue
PROPERTIES ImplementsIngestion EveryCallEnds
CHECK_DEADLOCK FALSE
