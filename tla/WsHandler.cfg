\* Two sockets, a ring of two slots, four frames: either socket can overflow,
\* both can be behind at once, and one can join or leave in mid-stream.
CONSTANTS
    Socket = {s1, s2}
    Topic = {t1}
    Capacity = 2
    MaxPublish = 4
SPECIFICATION Spec
INVARIANTS
    TypeOK
    LostOnlyByLag
PROPERTIES
    FeedSpec
CHECK_DEADLOCK FALSE
