CONSTANTS
    Callers = {c1, c2}
    NoCaller = NoCaller
    MaxRetries = 2
SPECIFICATION ProducerSpec
INVARIANT LostIsRetryable
CHECK_DEADLOCK FALSE
