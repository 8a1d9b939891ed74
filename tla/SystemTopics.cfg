\* Two listen calls on one topic, or one and a send, and two sockets of which
\* the first may break at either end at any time.  Unlisten functions may be
\* called again on the first socket.
CONSTANTS
    Call = {"a", "b"}
    Topic = {"t"}
    TopicOf <- MCTopicOf
    HandlerOf <- MCHandlerOf
    OpenHandler = {}
    NoSet = NoSet
    MaxSockets = 2
    MaxSends = 1
    MaxUnlistens = 2
    Reconnect = TRUE
    Capacity = 1
    MaxPublish = 0
    MaxInputs = 2
SPECIFICATION TopicsSpec
INVARIANTS
    TopicsFollow
    OneIdentity
    OwnIdIsAddressable
PROPERTIES
    SubscriptionsConverge
CHECK_DEADLOCK FALSE
