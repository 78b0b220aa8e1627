SPECIFICATION Spec
CONSTANTS
    Queries = {q1, q2}
    NoQuery = NoQuery
    Nothing = Nothing
    Garbage = Garbage
    Flows = {}
    MaxPolls = 1
    MaxPayloads = 1
INVARIANT OwnAnswer
CHECK_DEADLOCK FALSE
