SPECIFICATION Spec
CONSTANTS
    Workers = {w1, w2}
    Browsers = {b1, b2}
    Emails = {ann}
    Parts = {user, preferences, acknowledgment, terms, privacy}
    UserRow = user
    Limit = 1
    MaxHits = 2
    MaxSessions = 3
    Scenes <- MCScenes
SYMMETRY Interchangeable
CHECK_DEADLOCK FALSE
INVARIANTS
    EveryCounterExpires
    CookiesAreBacked
    OneLivePerLogin
    ReuseEndsTheFamily
