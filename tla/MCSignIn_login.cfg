SPECIFICATION Spec
CONSTANTS
    Clients = {c1, c2, c3}
    Threads = {t1, t2}
    Nobody = Nobody
    Window = 1
    Threshold = 2
    Lockout = 2
    MaxTracked = 2
    MaxClock = 3
    MaxAttempts = 5
    MaxVisits = 1
SYMMETRY Interchangeable
INVARIANTS TablesBounded LockoutIsDeserved AttemptsBounded SessionIsEarned
CHECK_DEADLOCK FALSE
