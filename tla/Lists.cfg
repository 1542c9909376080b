SPECIFICATION Spec
CONSTANTS
    Nil = Nil
    Refused = Refused
    Malformed = Malformed
    Reader = reader
    Writer = writer
    Callers = {reader, writer}
    Now = 6
    EventSpan = 6
    OverviewSpan = 4
    MaxInt = 127
    MaxRetries = 1
    Scopes <- MCScopes
    Requests <- MCRequests
INVARIANTS PageIsDue ScanMissesOnlyMoved AnswerAddsUp LogMatchesOutcome
