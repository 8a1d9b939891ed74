\* Crates of two traits, items of two members, endpoints of three segments.
CONSTANTS
    SkipFiles = {"mod"}
    Traits <- MCTraits
    MaxTraits = 2
    FieldIdents <- MCFieldIdents
    VariantIdents <- MCVariantIdents
    Renames <- MCRenames
    MaxMembers = 2
    ParamTypes <- MCParamTypes
    MaxSegments = 3
    Texts <- MCTexts
SPECIFICATION Spec
INVARIANTS
    ClientMatchesServer
    TyMirrorsSerde
    UrlRoundTrips
    OnlyPathsArrive
CHECK_DEADLOCK FALSE
