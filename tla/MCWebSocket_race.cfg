\* Goroutines that run their first statements at any time later: is an event lost, who meets?
CONSTANTS
    Sessions = {s1}
    Sockets = {k1, k2}
    Waiters = {w1, w2}
    Nil = nil
    MaxEvents = 1
    Prompt = FALSE
    Faults = FALSE
SPECIFICATION Spec
SYMMETRY Symmetry
INVARIANTS NoEventLost ListenerFreed ExclusiveUnlessOvertaken
\* Without faults nothing restarts a daemon whose listener has ended, and requests block.
CHECK_DEADLOCK FALSE
