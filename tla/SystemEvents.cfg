\* Two events over a ring of one slot, and two listen calls on one topic, whose
\* unlisten functions may be called twice; or two sockets, of which the first
\* breaks at any time, and one call.
CONSTANTS
    Call = {"a", "b"}
    Topic = {"t"}
    TopicOf <- MCTopicOf
    HandlerOf <- MCHandlerOf
    OpenHandler = {}
    NoSet = NoSet
    MaxSockets = 2
    MaxSends = 0
    MaxUnlistens = 2
    Reconnect = TRUE
    Capacity = 1
    MaxPublish = 2
    MaxInputs = 4
SPECIFICATION EventsSpec
INVARIANTS
    HeardInOrder
    NothingSlips
PROPERTY
    EventsReachListeners
CHECK_DEADLOCK FALSE
