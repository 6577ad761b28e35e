\* Append calls in any order against one journal, with throwing writes and
\* crashes.
CONSTANTS
    Sessions = {"own", "other"}
    SessionId = "own"
    EventIds = {e1, e2}
    ClosingId = closing
    ResponseIds = {r1}
    EventTypes = {"chat.message", "session.end"}
    ResponseTypes = {"chat.response", "handoff.complete"}
    Reasons = {"user-ended", "main-cancelled"}
    ByteLimit = 6
    MaxCalls = 4
    MaxQueue = 2
    MaxFaults = 2
    MaxSequence = 2
SPECIFICATION Spec
SYMMETRY Interchangeable
INVARIANTS
    TypeOK
    CacheCoherent
    ConversationHolds
PROPERTIES
    HandoffSettles
    KeepsPromise
CHECK_DEADLOCK FALSE
