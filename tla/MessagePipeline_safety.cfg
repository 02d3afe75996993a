CONSTANTS
    Notifications = {n1}
    Emails = {e1, e2}
    Malformed = {e2}
    Handlers = {h1, h2}
    Idle = Idle
    MaxRetries = 1
    MaxFaults = 1
SPECIFICATION FairSpec
INVARIANTS Accounted OneWorker PushedOnce MailedOnce
PROPERTIES Recovers
CHECK_DEADLOCK FALSE
