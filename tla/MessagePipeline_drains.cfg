CONSTANTS
    Notifications = {n1}
    Emails = {e1}
    Malformed = {e1}
    Handlers = {h1}
    Idle = Idle
    MaxRetries = 3
    MaxFaults = 0
SPECIFICATION FairSpec
PROPERTIES Drains
CHECK_DEADLOCK FALSE
