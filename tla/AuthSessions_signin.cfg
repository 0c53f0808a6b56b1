\* two requests at once of one device, one code
CONSTANTS
    Requests = {r1, r2}
    Devices = {phone}
    NoDevice = NoDevice
    Review = Review
    Wrong = Wrong
    MaxTries = 2
    HourLimit = 2
    MaxCodes = 1
    MaxLogins = 2
    MaxTokens = 3
SPECIFICATION Spec
INVARIANTS
    SignInHolds
    NothingOutlivesTheAccount
PROPERTIES
    EndedLoginsStayEnded
