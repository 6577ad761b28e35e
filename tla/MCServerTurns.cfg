\* The turn queue, the open question and the polls; browsers that come and go, and
\* commit to a workspace that others edit too.  No failures.
CONSTANTS
    Sessions = {"own"}
    SessionId = "own"
    EventIds = {1, 2, 3, 4, 5, 6}
    ClosingId = 0
    ResponseIds = {p1, p2, 1, 2, 3, 4, 5, 6}
    EventTypes = {"chat.message", "choice.selected", "filter.query", "changeset.commit",
                  "session.end", "browser.connected", "browser.disconnected"}
    ResponseTypes = {"agent.status", "chat.response", "choice.present", "diagnostic",
                     "handoff.complete"}
    Reasons = {"user-ended", "browser-timeout", "server-failed", "child-failed"}
    Sockets = {s1, s2}
    ConnectionLimit = 1
    PendingLimit = 2
    RecordLimit = 9
    InputTypes = {"chat.message", "filter.query", "changeset.commit", "session.end"}
    AnswerTypes = {"agent.status", "choice.present"}
    Choices = {"c1"}
    ChatEnabled = TRUE
    Afters = {0, 2}
    Claims = {0}
    Budgets <- TurnBudgets
SPECIFICATION Spec
SYMMETRY Alike
INVARIANTS
    TypeOK
    NoMissedWakeup
    NoLostTurn
    BrowserIsToldTheTruth
    QuestionIsStillOpen
    LeftSessionIsOnTheClock
CHECK_DEADLOCK FALSE
