CONSTANTS
    Clients = {c1, c2}
    Backends = {b1, b2}
    Sockets = {s1, s2, s3}
    MaxRequests = 2
    None = None
SPECIFICATION Spec
SYMMETRY Alike
CHECK_DEADLOCK FALSE
INVARIANTS
    AnswersMatch
    ExecutedOnce
