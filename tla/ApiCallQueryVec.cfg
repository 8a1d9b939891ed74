\* One parameter and one marker are enough to call a method with a Vec.
CONSTANTS
    Text = {"", "x"}
    Number = {0, 1}
    Decimal <- MCDecimal
    MaxArray = 2
    ParamTypes <- MCParamTypes
    ReturnTypes <- MCReturnTypes
    Markers = {"GET"}
    MaxParams = 1
    MaxMarkers = 1
SPECIFICATION Spec
INVARIANT QuerySafeIsCallable
CHECK_DEADLOCK FALSE
