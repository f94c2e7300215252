\* Does the listener wait until the goroutine before has left the connection?
CONSTANTS
    Sessions = {s1}
    Sockets = {k1, k2}
    Waiters = {w1, w2}
    Nil = nil
    MaxEvents = 1
    Prompt = FALSE
    Faults = TRUE
SPECIFICATION Spec
SYMMETRY Symmetry
INVARIANT ConnectionExclusive
