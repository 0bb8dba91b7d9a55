\* One connection in use and one that the server has yet to give up.
SPECIFICATION Spec
CONSTANTS
    Sockets = {s1, s2}
    Messages = {hello}
    Hello = hello
    MaxInbox = 2
    None = None
PROPERTIES ReplacesStaleSocket
