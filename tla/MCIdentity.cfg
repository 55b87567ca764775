SPECIFICATION Spec
CONSTANTS
    Fetches = {f1, f2}
    Others = {}
    MaxLogins = 2
    NoFetch = NoFetch
    Error = Error
PROPERTIES
    IdentityOfOwnSession
