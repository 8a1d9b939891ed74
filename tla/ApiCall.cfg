\* Methods of up to two parameters and two verb markers.
CONSTANTS
    Text = {"", "x"}
    Number = {0, 1}
    Decimal <- MCDecimal
    MaxArray = 2
    ParamTypes <- MCParamTypes
    ReturnTypes <- MCReturnTypes
    Markers = {"GET", "PUT", "DELETE"}
    MaxParams = 2
    MaxMarkers = 2
SPECIFICATION Spec
INVARIANTS
    ArgsArrive
    AcceptedIsCallable
    SignatureIsExact
    OutcomeIsTrue
CHECK_DEADLOCK FALSE
