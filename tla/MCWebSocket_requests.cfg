\* Two sessions that come and go, and all that may fail: is an event lost, is anybody stuck?
CONSTANTS
    Sessions = {s1, s2}
    Sockets = {k1}
    Waiters = {w1, w2}
    Nil = nil
    MaxEvents = 1
    Prompt = TRUE
    Faults = TRUE
SPECIFICATION Spec
SYMMETRY Symmetry
INVARIANTS DeliveryInv GoroutinesNotStuck
PROPERTY ImplementsInbox
