\* A socket that closes before its connection is journaled.
CONSTANTS
    Sessions = {"own"}
    SessionId = "own"
    EventIds = {1, 2, 3, 4}
    ClosingId = 0
    ResponseIds = {p1, 1, 2, 3, 4}
    EventTypes = {"chat.message", "choice.selected", "filter.query", "session.end",
                  "browser.connected", "browser.disconnected"}
    ResponseTypes = {"agent.status", "chat.response", "choice.present", "diagnostic",
                     "handoff.complete"}
    Reasons = {"user-ended", "browser-timeout", "server-failed", "child-failed"}
    Sockets = {s1}
    ConnectionLimit = 1
    PendingLimit = 2
    RecordLimit = 9
    InputTypes = {"chat.message"}
    AnswerTypes = {}
    Choices = {}
    ChatEnabled = TRUE
    Afters = {0}
    Claims = {0}
    Budgets <- GhostBudgets
SPECIFICATION Spec
INVARIANTS
    NoGhostConnection
CHECK_DEADLOCK FALSE
