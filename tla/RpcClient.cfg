\* Three listen calls, two of them on one topic, two sends and an onOpen
\* handler, over three sockets of which two are lost; every unlisten function
\* may be called twice, and every call has a callback of its own.
CONSTANTS
    Call = {"a", "b", "c"}
    Topic = {"t", "u"}
    TopicOf <- MCTopicOf
    HandlerOf <- MCHandlerOf
    OpenHandler = {"k"}
    NoSet = NoSet
    MaxSockets = 3
    MaxSends = 2
    MaxUnlistens = 2
    Reconnect = TRUE
SPECIFICATION Spec
INVARIANTS
    TypeOK
    OneSocket
    ServedOrScheduled
    ListenerReachable
    SendsInOrder
    HandlersRunPerSocket
CHECK_DEADLOCK FALSE
