\* Two sign-ins, two failed requests, two sign-outs or ends of the program.
SPECIFICATION Spec
CONSTANTS
    None = None
    Session = 7
    RenewAge = 1
    Interval = 3
    RefreshBackoff <- MCRefreshBackoff
    MaxLogins = 2
    MaxFaults = 2
    MaxStops = 2
INVARIANTS TypeOK TokenIsFresh CredentialsAgree LoopsNeedSignIn
PROPERTIES RejectionIsNoticed
