SPECIFICATION Spec
CONSTANTS
    Fetches = {f1}
    Others = {}
    MaxLogins = 2
    NoFetch = NoFetch
    Error = Error
INVARIANTS
    SignedOutMeansNoSession
