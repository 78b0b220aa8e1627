SPECIFICATION MCSpec
CONSTANTS
    Queries = {q1, q2}
    NoQuery = NoQuery
    Nothing = Nothing
    Garbage = Garbage
    Flows = {f1}
    MaxPolls = 1
    MaxPayloads = 3
INVARIANTS
    OwnAnswerWhileReopened
    ContractKept
    BytesInOrder
PROPERTIES
    FlowsEnd
    StopEventuallyReturns
CHECK_DEADLOCK FALSE
