CONSTANTS
    Invitations = {i1, i2}
    Emails = {e1}
    Requests = {r1, r2}
    Null = Null
    Lifetime = 1
    MaxTokens = 3
SPECIFICATION Spec
INVARIANTS TypeOK AcceptedHasSeat CurrentTokenIsMailed
PROPERTY AcceptedIsFinal EveryInvitationEnds
CHECK_DEADLOCK FALSE
