\* Two sockets of one client, as when a client reconnects before the server
\* has dealt with the socket it lost.
CONSTANTS
    Socket = {s1, s2}
    Topic = {}
    Capacity = 1
    MaxPublish = 0
    Client = {c1}
    NoClient = NoClient
    NoSocket = NoSocket
    MaxDirect = 0
SPECIFICATION Spec
INVARIANT
    NewestIsAddressable
CHECK_DEADLOCK FALSE
