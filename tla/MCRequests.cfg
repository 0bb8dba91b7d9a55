\* Two connections, one in use and one that one end has given up, and two
\* requests: one answered late, one pending by then.
SPECIFICATION RequestsSpec
CONSTANTS
    Sockets = {s1, s2}
    Messages = {hello, 1, 2}
    Hello = hello
    MaxInbox = 2
    MaxRequests = 2
    None = None
INVARIANTS SlotsMatchHandlers
PROPERTIES EveryRequestEnds KeepsPromise
