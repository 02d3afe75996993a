SPECIFICATION Spec
CONSTANTS
    t1 = t1
    t2 = t2
    b1 = b1
    Tabs = {t1, t2}
    Browsers = {b1}
    BrowserOf <- TabBrowser
    Nil = Nil
    Resets = {r1}
    MaxTokens = 4
    MaxPassword = 2
    MaxSent = 3
    MaxFaults = 1
INVARIANTS OneLiveToken PasswordHolds
PROPERTIES ImplementsLifecycle SignOutEnds ReplayIsSeen
SYMMETRY TabSymmetry
CHECK_DEADLOCK FALSE
