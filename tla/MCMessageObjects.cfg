CONSTANTS
    Ids <- MCIds
    Texts <- MCTexts
    Inputs <- MCInputs
    MaxItems = 1
    MaxUnknown = 1
SPECIFICATION ObjectsSpec
INVARIANTS BitsMatchFields RoundTrip
