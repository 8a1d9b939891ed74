\* One socket alone, with a topic, a ring of one slot, three events and one
\* direct send; or two sockets over two client ids, so that they may fight over
\* one id.
CONSTANTS
    Socket = {1, 2}
    Topic = {t1}
    Capacity = 1
    MaxPublish = 3
    Client = {1, 2}
    NoClient = NoClient
    NoSocket = NoSocket
    MaxDirect = 1
SPECIFICATION MCSpec
INVARIANTS
    TypeOK
    RegistryIsLastBinder
    NoDanglingEntry
    NoSilentLoss
    UnsubscribeIsFinal
PROPERTIES
    TornDown
    Delivered
    FeedSpec
CHECK_DEADLOCK FALSE
