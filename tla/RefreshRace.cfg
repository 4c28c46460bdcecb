CONSTANTS
    Requests = {r1, r2}
    Second = 2
    Lifetime = 2
    Slack = 1
    MaxTokens = 2
    MaxPasswords = 1
    MaxTime = 6
SYMMETRY Symmetry
SPECIFICATION Spec
INVARIANTS TypeOK RevokedStaysDead
PROPERTY NoLiveTokenForgotten
CHECK_DEADLOCK FALSE
