\* Two listen calls on one topic and one socket: the first is unlistened, the
\* second listens, and the first is unlistened again.
CONSTANTS
    Call = {"a", "b"}
    Topic = {"t"}
    TopicOf <- MCTopicOf
    HandlerOf <- MCHandlerOf
    OpenHandler = {}
    NoSet = NoSet
    MaxSockets = 1
    MaxSends = 0
    MaxUnlistens = 2
    Reconnect = TRUE
SPECIFICATION Spec
INVARIANT
    OnlyLastListenerStops
CHECK_DEADLOCK FALSE
