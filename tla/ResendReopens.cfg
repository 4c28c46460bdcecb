CONSTANTS
    Invitations = {i1}
    Emails = {e1}
    Requests = {r1}
    Null = Null
    Lifetime = 1
    MaxTokens = 2
SPECIFICATION Spec
PROPERTY ResendReopens
CHECK_DEADLOCK FALSE
