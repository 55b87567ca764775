SPECIFICATION Spec
CONSTANTS
    Kinds = {"questions"}
    FirstRows = 1
    MaxRow = 2
PROPERTY
    ConfirmHitsRowAsked
