\* A session taken over by another browser: is every request answered, does every event arrive?
CONSTANTS
    Sessions = {s1}
    Sockets = {k1, k2}
    Waiters = {w1, w2}
    Nil = nil
    MaxEvents = 1
    Prompt = TRUE
    Faults = FALSE
SPECIFICATION FairSpec
PROPERTIES EventDelivered AttachAnswered DetachDeletes
\* Without faults nothing restarts a daemon whose listener could not get a connection.
CHECK_DEADLOCK FALSE
