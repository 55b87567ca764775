SPECIFICATION Spec
CONSTANTS
    Fetches = {f1, f2}
    Others = {c1}
    MaxLogins = 2
    NoFetch = NoFetch
    Error = Error
INVARIANTS
    AdminScreenGated
    OverlayOfThisSession
PROPERTIES
    CancelledLoginStaysOut
