\* Two requests on one connection for the pages of a text and a function.
CONSTANTS
    Clients = {u1, u2}
    Connections = {k}
    text = text
    func = func
    home = home
    other = other
    plus = plus
    percent = percent
    old = old
    new = new
    Texts = {text}
    Binaries = {}
    Functions = {func}
    Paths = {home, other}
    Contents = {old, new}
    Versions <- MCVersions
    Decoded <- MCDecoded
    Malformed = malformed
    Null = null
    Nobody = nobody
    Absent = absent
    Empty = empty
    Faults = TRUE
SPECIFICATION FairSpec
INVARIANTS AnswersExact PoolExact
PROPERTY RequestsAnswered
