\* Two files, whose edits may change _generated.rs, index.ts, both or neither,
\* and three disturbances.
CONSTANTS
    Files = {"a", "b"}
    RustParts = {1, 2}
    TyParts = {1, 2}
    MaxDisturbances = 3
SPECIFICATION MCSpec
INVARIANTS
    TypeOK
    FreshMeansCurrent
    CachedMeansCurrent
    SettlesSoon
PROPERTY Quiesces
CHECK_DEADLOCK FALSE
