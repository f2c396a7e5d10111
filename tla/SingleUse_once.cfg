SPECIFICATION WantedSpec
CONSTANTS
    AppRequest = {poll, out}
    SignOut = out
    Refresh = {r1, r2}
    Verifier = {v1, v2}
    MaxServing = 2
    MaxSessions = 2
    MaxTokens = 3
    NoKey = NoKey
    Amount = {1, 2}
    Debt = 2
    MaxUploads = 2
    MaxPayments = 2
SYMMETRY Symmetry
INVARIANTS
    WantedTypeOK
    CredentialsWorkOnce
    RenewingIsNotReuse
    PaidOnce
    ReceiptsAreKept
PROPERTIES
    DecisionsAreFinal
CHECK_DEADLOCK FALSE
