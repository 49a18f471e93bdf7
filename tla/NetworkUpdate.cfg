SPECIFICATION FairSpec
CONSTANTS
    h1 = h1
    h2 = h2
    q1 = q1
    q2 = q2
    Book = {h1, h2}
    Query = {q1, q2}
    MaxAttempts = 2
    MaxRounds = 2
INVARIANTS
    UpdateInv
    OneRoundAtATime
    ClosedAtRestStaysClosed
PROPERTIES
    WholeBookInstalled
    ClosedClientComesToRest
    UpdatesGoOn
CHECK_DEADLOCK FALSE
