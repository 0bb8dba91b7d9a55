\* Three connections: one in use, and two that the server has yet to give up.
SPECIFICATION Spec
CONSTANTS
    Sockets = {s1, s2, s3}
    Messages = {hello}
    Hello = hello
    MaxInbox = 2
    None = None
INVARIANTS LiveIsServed NewestHoldsSlot
PROPERTIES SlotOutlivesOldHandlers Reconnects
