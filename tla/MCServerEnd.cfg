\* Every way a session ends, with failing file operations and a fair event loop.
CONSTANTS
    Sessions = {"own"}
    SessionId = "own"
    EventIds = {1, 2, 3, 4}
    ClosingId = 0
    ResponseIds = {p1, 1, 2, 3, 4}
    EventTypes = {"chat.message", "choice.selected", "filter.query", "session.end",
                  "browser.connected", "browser.disconnected"}
    ResponseTypes = {"agent.status", "chat.response", "choice.present", "diagnostic",
                     "handoff.complete"}
    Reasons = {"user-ended", "browser-timeout", "server-failed", "child-failed"}
    Sockets = {s1}
    ConnectionLimit = 1
    PendingLimit = 1
    RecordLimit = 9
    InputTypes = {"chat.message", "session.end"}
    AnswerTypes = {"handoff.complete"}
    Choices = {}
    ChatEnabled = TRUE
    Afters = {0}
    Claims = {0}
    Budgets <- EndBudgets
SPECIFICATION LiveSpec
INVARIANTS
    OneEnding
    NoPollOutlivesTheSession
PROPERTIES
    QuietAfterRecovery
    StopSettles
    LimitEndsSession
CHECK_DEADLOCK FALSE
