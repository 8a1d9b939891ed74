\* Three sockets over two client ids, overlapping or not.
CONSTANTS
    N = 3
    Client = {c1, c2}
    Name = {x, y}
    NoName = NoName
SPECIFICATION Spec
INVARIANTS
    JoinedIsMember
    SnapshotShowsOwnChange
    NoGhostMember
CHECK_DEADLOCK FALSE
