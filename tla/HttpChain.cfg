SPECIFICATION Spec
CONSTANTS
    Origins <- MCOrigins
    Start = "home"
    SchemeOf <- MCSchemeOf
    AllowedSchemes = {"https"}
    StartVerb = "POST"
    AllowRedirects = TRUE
    MaxRedirects = 3
    Total = 3
    AllowedRetries = 1
CHECK_DEADLOCK FALSE

INVARIANTS
    CredentialsStayHome
    OneDeadline
    BodyRebuilt
    ChainInv
