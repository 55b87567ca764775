SPECIFICATION FairSpec
CONSTANTS
    Fetches = {f1}
    Others = {}
    MaxLogins = 2
    NoFetch = NoFetch
    Error = Error
PROPERTIES
    LoginNeverSticks
    AccountChangesAreNoticed
