---------------------------- MODULE SessionServer ----------------------------
(***************************************************************************)
(* One live session of session-server.ts: browsers on sockets, an agent    *)
(* that polls and responds over HTTP, and the one transition that ends the *)
(* session, all on one event loop.                                         *)
(*                                                                         *)
(* What the loop may not interleave is one action; every await is a point  *)
(* where other callbacks run.  Appends go through session-store.ts, which  *)
(* is here what ConversationRecord promises of it: a record is refused, or *)
(* is journaled and confirmed, or the call throws with the line on disk or *)
(* without it.                                                             *)
(***************************************************************************)
EXTENDS SessionRecords, FiniteSets

CONSTANTS
    Sockets,         \* browser connections that may be attempted
    ConnectionLimit, \* VISUAL_SERVER_LIMITS.browserConnections
    PendingLimit,    \* VISUAL_LIMITS.pendingEvents
    RecordLimit,     \* records VISUAL_LIMITS.transcriptBytes has room for
    InputTypes,      \* browser input types a browser sends
    AnswerTypes,     \* response types the agent sends
    Choices,         \* identifiers of choices the agent presents
    ChatEnabled,     \* request.chatEnabled: capabilities.chat and .choices
    Afters,          \* values of a poll's "after" query
    Claims,          \* values of a frame's lastAcknowledgedSequence
    Budgets          \* bound: how often each kind of outside step happens, within one

Spendings ==
    {"browsers", "frames", "commits", "responses", "polls", "stops", "edits", "faults"}

ASSUME ServerAssumption ==
    /\ IsFiniteSet(EventIds) /\ EventIds = 1..Cardinality(EventIds)
    /\ EventIds \subseteq ResponseIds
    /\ ConnectionLimit \in Nat /\ PendingLimit \in Nat /\ RecordLimit \in Nat
    /\ Afters \subseteq Nat /\ Claims \subseteq Nat
    /\ InputTypes \subseteq EventTypes /\ AnswerTypes \subseteq ResponseTypes
    /\ {"browser.connected", "browser.disconnected"} \subseteq EventTypes
    /\ "diagnostic" \in ResponseTypes /\ "changeset.commit" \notin ResponseTypes
    /\ {"browser-timeout", "server-failed", "child-failed"} \subseteq Reasons
    /\ ChatEnabled \in BOOLEAN
    /\ Budgets \subseteq [Spendings -> Nat]

VARIABLES
    log,           \* records in journal.jsonl
    lastSequence,  \* lastSequence, as the server believes it
    drawn,         \* identifiers drawn so far (drawHex)
    chain,         \* entries on the admission chain, the running one first
    offered,       \* the record the running entry has handed the store, or Nothing
    pending, inFlight, answered,
    polls,         \* the "after" of every agent poll being held, by arrival
    pendingChoice, choicesClosed,
    sockets,       \* state of each socket, as ws reports it
    reserved,      \* sockets that hold a browserConnectionReservation
    registered,    \* sockets whose connection was journaled
    connections,
    grace,         \* cancelGrace is set: the reconnect timer runs
    lifecycle, frozen,
    limit,         \* where limitFailure is
    terminating,   \* where terminateVisualSession is
    endReason,     \* the reason it was started with
    handoff,       \* active.handoff, or None
    stopping,      \* where the running stop attempt is
    directory,     \* what is left of the session directory
    outcome,       \* what every caller of stop is answered, or None
    compiles,      \* the workspace on disk compiles
    standing,      \* standingDiagnostics is not empty
    acknowledged,  \* events a browser was told are accepted
    accepted,      \* responses the agent was told are accepted
    shown,         \* how often each response was broadcast
    informed,      \* sockets shown a diagnostic no model frame cleared since
    spent

journalVars == <<log, lastSequence, drawn, chain, offered>>
turnVars    == <<pending, inFlight, answered, polls>>
choiceVars  == <<pendingChoice, choicesClosed>>
socketVars  == <<sockets, reserved, registered, connections, grace>>
freezeVars  == <<frozen, limit>>
endVars     == <<terminating, endReason, handoff, stopping, directory, outcome>>
modelVars   == <<compiles, standing, informed>>
toldVars    == <<acknowledged, accepted, shown>>

vars == <<journalVars, turnVars, choiceVars, socketVars, lifecycle, freezeVars,
          endVars, modelVars, toldVars, spent>>

-----------------------------------------------------------------------------
None    == [kind |-> "none"]
Nothing == [kind |-> "nothing"]
NoChoice == "none"

\* Variant: every input is queued for the agent.
EveryInput == InputTypes

\* Event types that need an agent turn (isActionableVisualEvent);
\* "view.attention" is a view.navigate that requires attention.
Actionable ==
    {"chat.message", "choice.selected", "question.delegate", "session.end",
     "view.attention"}

TurnCompleting ==
    {"chat.response", "choice.present", "operations.propose",
     "handoff.complete", "diagnostic"}

LimitFreeze == {"message-bytes", "transcript-bytes", "pending-events", "recompile-failed"}

Granted(type) ==
    \/ ChatEnabled
    \/ type \notin {"chat.message", "question.delegate", "choice.selected",
                    "chat.response", "choice.present", "operations.propose"}

Min(S) == CHOOSE n \in S : \A m \in S : n <= m

Affordable(costs) ==
    \E budget \in Budgets : \A kind \in Spendings : costs[kind] <= budget[kind]

Spend(kind) ==
    /\ spent' = [spent EXCEPT ![kind] = @ + 1]
    /\ Affordable(spent')

NewEvent(type) ==
    [kind |-> "event", session |-> SessionId, id |-> drawn + 1,
     sequence |-> lastSequence + 1, type |-> type, reason |-> "user-ended"]

NewReport(answers) ==
    [kind |-> "response", session |-> SessionId, id |-> drawn + 1,
     answers |-> answers, type |-> "diagnostic"]

Draw == drawn + 1 \in EventIds /\ drawn' = drawn + 1

\* overflowsTranscript.
Full == Len(log) >= RecordLimit

Init ==
    /\ log = <<>> /\ lastSequence = 0 /\ drawn = 0
    /\ chain = <<>> /\ offered = Nothing
    /\ pending = <<>> /\ inFlight = None /\ answered = {} /\ polls = <<>>
    /\ pendingChoice = NoChoice /\ choicesClosed = FALSE
    /\ sockets = [s \in Sockets |-> "new"]
    /\ reserved = {} /\ registered = {} /\ connections = {} /\ grace = FALSE
    /\ lifecycle = "running" /\ frozen = "none" /\ limit = "none"
    /\ terminating = "none" /\ endReason = "server-failed" /\ handoff = None
    /\ stopping = "none" /\ directory = "whole" /\ outcome = None
    /\ compiles \in BOOLEAN
    /\ standing = ~compiles
    /\ acknowledged = {} /\ accepted = {} /\ informed = {}
    /\ shown = [r \in ResponseIds |-> 0]
    /\ spent = [k \in Spendings |-> IF k = "edits" /\ ~compiles THEN 1 ELSE 0]
    /\ Affordable(spent)

-----------------------------------------------------------------------------
(* Freezing, and the turn queue.                                           *)

\* freeze: the first reason stands, and a limit starts failOnLimit.
Freeze(reason) ==
    IF frozen # "none"
    THEN UNCHANGED freezeVars
    ELSE /\ frozen' = reason
         /\ limit' = IF reason \in LimitFreeze /\ limit = "none"
                     THEN "draining" ELSE limit

\* The event a poll past "after" may be given: the turn that is open, or the
\* first event queued behind it.
Deliverable(after, queue, turn) ==
    IF turn # None
    THEN {e \in {turn} : e.sequence > after}
    ELSE LET later == {i \in DOMAIN queue : queue[i].sequence > after}
         IN IF later = {} THEN {} ELSE {queue[Min(later)]}

\* Variant: the completed turn leaves without waking the polls it held back.
WakeNobody(queue, turn) == polls' = polls /\ inFlight' = turn

\* wakePolls on a queue and an open turn: the first poll that can be served
\* opens the turn, and every poll that may see that event is answered with it.
Wake(queue, turn) ==
    LET ready == {i \in DOMAIN polls : Deliverable(polls[i], queue, turn) # {}}
    IN IF ready = {}
       THEN polls' = polls /\ inFlight' = turn
       ELSE \E e \in Deliverable(polls[Min(ready)], queue, turn) :
                /\ inFlight' = e
                /\ polls' = [i \in {j \in DOMAIN polls : polls[j] >= e.sequence} |-> polls[i]]

\* The queue without an event: an identifier is drawn once, so one entry at most has it.
Without(queue, id) ==
    LET at == {i \in DOMAIN queue : queue[i].id = id}
    IN  IF at = {} THEN queue
        ELSE [i \in 1..(Len(queue) - 1) |-> queue[IF i < Min(at) THEN i ELSE i + 1]]

Queued(queue, turn) ==
    {queue[i].id : i \in DOMAIN queue} \cup {e.id : e \in {turn} \ {None}}

-----------------------------------------------------------------------------
(* Browsers.                                                               *)

\* Variant: a browser that knocks stops the reconnect timer.
UpgradeDisarming(s) ==
    /\ lifecycle = "running" /\ sockets[s] = "new"
    /\ Cardinality(connections) + Cardinality(reserved) < ConnectionLimit
    /\ sockets' = [sockets EXCEPT ![s] = "open"]
    /\ reserved' = reserved \cup {s}
    /\ chain' = Append(chain, [op |-> "connected", socket |-> s])
    /\ grace' = FALSE
    /\ Spend("browsers")
    /\ UNCHANGED <<log, lastSequence, drawn, offered, turnVars, choiceVars,
                   registered, connections, lifecycle, freezeVars, endVars,
                   modelVars, toldVars>>

\* The upgrade handler: a slot is reserved, the connection waits for its event.
Upgrade(s) ==
    /\ lifecycle = "running" /\ sockets[s] = "new"
    /\ Cardinality(connections) + Cardinality(reserved) < ConnectionLimit
    /\ sockets' = [sockets EXCEPT ![s] = "open"]
    /\ reserved' = reserved \cup {s}
    /\ chain' = Append(chain, [op |-> "connected", socket |-> s])
    /\ Spend("browsers")
    /\ UNCHANGED <<log, lastSequence, drawn, offered, turnVars, choiceVars,
                   registered, connections, grace, lifecycle, freezeVars,
                   endVars, modelVars, toldVars>>

\* A well-formed frame joins the chain.
Frame(s, type, choice, claim) ==
    /\ sockets[s] \in {"open", "closing"}
    /\ type = "choice.selected" <=> choice # NoChoice
    /\ Spend(IF type = "changeset.commit" THEN "commits" ELSE "frames")
    /\ chain' = Append(chain, [op |-> "input", socket |-> s, type |-> type,
                               choice |-> choice, claim |-> claim])
    /\ UNCHANGED <<log, lastSequence, drawn, offered, turnVars, choiceVars,
                   socketVars, lifecycle, freezeVars, endVars, modelVars, toldVars>>

\* ws refuses a frame past maxPayload and closes the socket itself.
OversizedFrame(s) ==
    /\ sockets[s] = "open"
    /\ Spend("frames")
    /\ Freeze("message-bytes")
    /\ sockets' = [sockets EXCEPT ![s] = "closing"]
    /\ UNCHANGED <<journalVars, turnVars, choiceVars, reserved, registered,
                   connections, grace, lifecycle, endVars, modelVars, toldVars>>

\* The socket's close event.
Close(s) ==
    /\ sockets[s] \in {"open", "closing"}
    /\ sockets' = [sockets EXCEPT ![s] = "closed"]
    /\ IF s \in registered
       THEN /\ connections' = connections \ {s}
            /\ chain' = Append(chain, [op |-> "disconnected", socket |-> s])
            /\ grace' = (grace \/ (connections' = {} /\ lifecycle = "running"))
       ELSE UNCHANGED <<connections, chain, grace>>
    /\ UNCHANGED <<log, lastSequence, drawn, offered, turnVars, choiceVars,
                   reserved, registered, lifecycle, freezeVars, endVars,
                   modelVars, toldVars, spent>>

-----------------------------------------------------------------------------
(* The admission chain: one entry at a time, in call order.                *)

Running(op)  == chain # <<>> /\ offered = Nothing /\ Head(chain).op = op
Awaiting(op) == chain # <<>> /\ offered # Nothing /\ Head(chain).op = op

Leave == chain' = Tail(chain) /\ offered' = Nothing

\* The refusals of admitBrowserInput that change nothing: YMVS306, YMVS304,
\* YMVS309 and YMVS308.
TurnedAway(input) ==
    \/ lifecycle # "running"
    \/ frozen # "none"
    \/ ~Granted(input.type)
    \/ input.claim > lastSequence

\* admitBrowserInput up to its append.
BeginInput ==
    /\ Running("input")
    /\ LET input == Head(chain)
           full  == input.type \in Actionable /\ Len(pending) >= PendingLimit
       IN \/ /\ TurnedAway(input)
             /\ Leave
             /\ UNCHANGED <<drawn, freezeVars>>
          \/ /\ ~TurnedAway(input) /\ full
             /\ Draw /\ Freeze("pending-events")
             /\ Leave
          \/ /\ ~TurnedAway(input) /\ ~full
             /\ Draw /\ offered' = NewEvent(input.type)
             /\ UNCHANGED <<chain, freezeVars>>
    /\ UNCHANGED <<log, lastSequence, turnVars, choiceVars, socketVars,
                   lifecycle, endVars, modelVars, toldVars, spent>>

\* The reservation is released, and a socket that was not admitted is closed.
ReleaseUnadmitted(s) ==
    /\ reserved' = reserved \ {s}
    /\ sockets' = [sockets EXCEPT ![s] = IF @ = "open" THEN "closing" ELSE @]

\* journalConnection up to its append.
BeginConnection ==
    /\ Running("connected") \/ Running("disconnected")
    /\ LET entry == Head(chain)
       IN IF lifecycle # "running" \/ frozen # "none"
          THEN /\ Leave
               /\ UNCHANGED drawn
               /\ IF entry.op = "connected"
                  THEN ReleaseUnadmitted(entry.socket)
                  ELSE UNCHANGED <<reserved, sockets>>
          ELSE /\ Draw
               /\ offered' = NewEvent(IF entry.op = "connected"
                                      THEN "browser.connected"
                                      ELSE "browser.disconnected")
               /\ UNCHANGED <<chain, reserved, sockets>>
    /\ UNCHANGED <<log, lastSequence, turnVars, choiceVars, registered,
                   connections, grace, lifecycle, freezeVars, endVars,
                   modelVars, toldVars, spent>>

\* Variant: a response that was on the chain before the stop is still served.
BeginResponseAnyTime ==
    /\ Running("response")
    /\ offered' = Head(chain).record
    /\ UNCHANGED <<chain, log, lastSequence, drawn, turnVars, choiceVars,
                   socketVars, lifecycle, freezeVars, endVars, modelVars,
                   toldVars, spent>>

\* acceptResponse up to its append: 503 once the session is not running.
BeginResponse ==
    /\ Running("response")
    /\ IF lifecycle # "running"
       THEN Leave
       ELSE /\ offered' = Head(chain).record
            /\ UNCHANGED chain
    /\ UNCHANGED <<log, lastSequence, drawn, turnVars, choiceVars, socketVars,
                   lifecycle, freezeVars, endVars, modelVars, toldVars, spent>>

-----------------------------------------------------------------------------
(* What the store answers.                                                 *)

\* A response the journal already has is answered as a duplicate.
Duplicate(r) ==
    /\ IsResponse(r)
    /\ r.answers \in EventIdsIn(log) /\ r.id \in ResponseIdsIn(log)

Confirmable(r) == Legal(log, r) /\ ~Full

\* The freeze reason the store hands back with a refusal.
FreezeOf(r) ==
    IF IsEvent(r) /\ EndsIn(log) # {} THEN "terminal-event"
    ELSE IF Legal(log, r) THEN "transcript-bytes"
    ELSE "none"

\* The entry ends without its record: a connection is not admitted.
Abandon ==
    /\ Leave
    /\ IF Head(chain).op = "connected"
       THEN ReleaseUnadmitted(Head(chain).socket)
       ELSE UNCHANGED <<reserved, sockets>>

AppendRefused ==
    /\ offered # Nothing
    /\ ~Confirmable(offered) /\ ~Duplicate(offered)
    /\ Abandon
    /\ IF FreezeOf(offered) = "none" THEN UNCHANGED freezeVars ELSE Freeze(FreezeOf(offered))
    /\ UNCHANGED <<log, lastSequence, drawn, turnVars, choiceVars, registered,
                   connections, grace, lifecycle, endVars, modelVars, toldVars, spent>>

\* The append rejects, with the line on disk or not; what the entry would have
\* done next is skipped, and the chain absorbs the rejection.
AppendThrows ==
    /\ offered # Nothing
    /\ Spend("faults")
    /\ log' \in {log} \cup (IF Confirmable(offered) THEN {Append(log, offered)} ELSE {})
    /\ Abandon
    /\ UNCHANGED <<lastSequence, drawn, turnVars, choiceVars, registered,
                   connections, grace, lifecycle, freezeVars, endVars,
                   modelVars, toldVars>>

-----------------------------------------------------------------------------
(* The rest of an entry once its record is journaled.                      *)

Journaled(op) ==
    /\ Awaiting(op)
    /\ Confirmable(offered)
    /\ log' = Append(log, offered)
    /\ lastSequence' = IF IsEvent(offered) THEN offered.sequence ELSE lastSequence

\* recordEvent.
RecordEvent(e, choice) ==
    /\ choicesClosed' = (choicesClosed \/ IsEnd(e))
    /\ pendingChoice' =
           IF \/ e.type \in {"chat.message", "question.delegate", "session.end"}
              \/ e.type = "choice.selected" /\ pendingChoice = choice
           THEN NoChoice ELSE pendingChoice

\* Everything but changeset.commit.  filter.query and layout.save are answered
\* with their result; every other input with "accepted", and the polls wake.
FinishInput ==
    /\ Journaled("input")
    /\ offered.type # "changeset.commit"
    /\ Leave
    /\ RecordEvent(offered, Head(chain).choice)
    /\ pending' = IF offered.type \in Actionable THEN Append(pending, offered) ELSE pending
    /\ IF IsEnd(offered) THEN Freeze("terminal-event") ELSE UNCHANGED freezeVars
    /\ IF offered.type \in {"filter.query", "layout.save"}
       THEN UNCHANGED <<inFlight, polls, acknowledged>>
       ELSE /\ acknowledged' = acknowledged \cup {offered.id}
            /\ Wake(pending', inFlight)
    /\ UNCHANGED <<drawn, answered, socketVars, lifecycle, endVars, modelVars,
                   accepted, shown, spent>>

\* recompileWorkspace and the model frame that follows its success.
Recompiled(ok) ==
    /\ standing' = ~ok
    /\ informed' = IF ok THEN {} ELSE informed

\* The entry goes on with a report of its failed recompile: as the answer to an
\* event, and whether to freeze the session after it.
Report(answers, landed) ==
    /\ offered' = NewReport(answers)
    /\ chain' = <<[op |-> "report", landed |-> landed]>> \o Tail(chain)

\* changeset.commit: refused by its pins, refused by the plan or the store, or
\* landed.  A landed batch may leave a workspace that no longer compiles.  A
\* recompile that fails is reported before the entry ends.
FinishCommit ==
    /\ Journaled("input")
    /\ offered.type = "changeset.commit"
    /\ \/ Leave /\ UNCHANGED <<modelVars, drawn>>
       \/ /\ UNCHANGED compiles
          /\ Recompiled(compiles)
          /\ IF compiles
             THEN Leave /\ UNCHANGED drawn
             ELSE Draw /\ Report(drawn + 1, FALSE)
       \/ /\ compiles' \in BOOLEAN
          /\ Recompiled(compiles')
          /\ IF compiles'
             THEN Leave /\ UNCHANGED drawn
             ELSE Draw /\ Report(offered.id, TRUE)
    /\ UNCHANGED <<turnVars, choiceVars, socketVars, lifecycle, freezeVars,
                   endVars, toldVars, spent>>

OpenSockets == {s \in connections : sockets[s] = "open"}

\* reportRecompileFailure's response is journaled and broadcast; after a landed
\* batch the session freezes.
FinishReport ==
    /\ Journaled("report")
    /\ Leave
    /\ informed' = informed \cup OpenSockets
    /\ shown' = [shown EXCEPT ![offered.id] = @ + 1]
    /\ IF Head(chain).landed THEN Freeze("recompile-failed") ELSE UNCHANGED freezeVars
    /\ UNCHANGED <<drawn, turnVars, choiceVars, socketVars, lifecycle, endVars,
                   compiles, standing, acknowledged, accepted, spent>>

\* The connection becomes visible, and its reservation is released; a socket
\* that is no longer open is closed.
FinishConnected ==
    /\ Journaled("connected")
    /\ Leave
    /\ LET s == Head(chain).socket
       IN /\ registered' = registered \cup {s}
          /\ connections' = connections \cup {s}
          /\ grace' = FALSE
          /\ reserved' = reserved \ {s}
          /\ informed' = IF standing /\ sockets[s] = "open" THEN informed \cup {s} ELSE informed
    /\ UNCHANGED <<drawn, turnVars, choiceVars, sockets, lifecycle, freezeVars,
                   endVars, compiles, standing, toldVars, spent>>

FinishDisconnected ==
    /\ Journaled("disconnected")
    /\ Leave
    /\ UNCHANGED <<drawn, turnVars, choiceVars, socketVars, lifecycle,
                   freezeVars, endVars, modelVars, toldVars, spent>>

\* Variant: a question may be asked after the reviewer's End.
RecordLateQuestion(r, choice) ==
    /\ pendingChoice' = IF r.type = "choice.present" THEN choice ELSE pendingChoice
    /\ UNCHANGED choicesClosed

\* recordResponse, as far as the open question goes.
RecordResponse(r, choice) ==
    /\ pendingChoice' = IF r.type = "choice.present" /\ ~choicesClosed
                        THEN choice ELSE pendingChoice
    /\ UNCHANGED choicesClosed

\* Variant: a status report counts as an answer.
MarkAnsweredByAny(r) ==
    answered' = {id \in answered \cup {r.answers} : id \in Queued(pending, inFlight)}

\* markAnswered: remembered while the event is queued.
MarkAnswered(r) ==
    answered' = IF r.type \in TurnCompleting
                THEN {id \in answered \cup {r.answers} : id \in Queued(pending, inFlight)}
                ELSE answered

\* Variant: whatever the response completes, the open turn is over.
CompleteAnyTurn(r) ==
    IF r.type \in TurnCompleting /\ inFlight # None
    THEN /\ pending' = Without(pending, inFlight.id)
         /\ Wake(pending', None)
    ELSE UNCHANGED <<pending, inFlight, polls>>

\* completeTurn: only the event the agent polled for leaves the queue.
CompleteTurn(r) ==
    IF r.type \in TurnCompleting /\ inFlight # None /\ inFlight.id = r.answers
    THEN /\ pending' = Without(pending, r.answers)
         /\ Wake(pending', None)
    ELSE UNCHANGED <<pending, inFlight, polls>>

FinishResponse ==
    /\ Journaled("response")
    /\ Leave
    /\ RecordResponse(offered, Head(chain).choice)
    /\ MarkAnswered(offered)
    /\ shown' = [shown EXCEPT ![offered.id] = @ + 1]
    /\ CompleteTurn(offered)
    /\ accepted' = accepted \cup {offered.id}
    /\ UNCHANGED <<drawn, socketVars, lifecycle, freezeVars, endVars,
                   modelVars, acknowledged, spent>>

\* A retried response: accepted as a duplicate, and nothing else.
FinishDuplicate ==
    /\ offered # Nothing /\ Duplicate(offered)
    /\ Leave
    /\ accepted' = accepted \cup {offered.id}
    /\ UNCHANGED <<log, lastSequence, drawn, turnVars, choiceVars, socketVars,
                   lifecycle, freezeVars, endVars, modelVars, acknowledged,
                   shown, spent>>

-----------------------------------------------------------------------------
(* The agent.                                                              *)

\* A poll joins the ones being held, behind all that came before it.
Holding(after) ==
    LET last == spent["polls"] + 1
    IN  [i \in DOMAIN polls \cup {last} |-> IF i = last THEN after ELSE polls[i]]

\* answerPoll: an event, an idle answer, or a poll that is held.
Poll(after) ==
    /\ lifecycle # "stopped"
    /\ Spend("polls")
    /\ IF Deliverable(after, pending, inFlight) # {}
       THEN /\ inFlight' \in Deliverable(after, pending, inFlight)
            /\ UNCHANGED polls
       ELSE /\ polls' = IF lifecycle = "running" THEN Holding(after) ELSE polls
            /\ UNCHANGED inFlight
    /\ UNCHANGED <<journalVars, pending, answered, choiceVars, socketVars,
                   lifecycle, freezeVars, endVars, modelVars, toldVars>>

\* A held poll times out, or its client goes away.
PollEnds(i) ==
    /\ i \in DOMAIN polls
    /\ polls' = [j \in DOMAIN polls \ {i} |-> polls[j]]
    /\ UNCHANGED <<journalVars, pending, inFlight, answered, choiceVars,
                   socketVars, lifecycle, freezeVars, endVars, modelVars,
                   toldVars, spent>>

\* acceptResponse up to the admission chain.
Respond(r, choice) ==
    /\ lifecycle # "stopped"
    /\ Granted(r.type)
    /\ r.type = "choice.present" <=> choice # NoChoice
    /\ Spend("responses")
    /\ chain' = Append(chain, [op |-> "response", record |-> r, choice |-> choice])
    /\ UNCHANGED <<log, lastSequence, drawn, offered, turnVars, choiceVars,
                   socketVars, lifecycle, freezeVars, endVars, modelVars, toldVars>>

\* Something else writes to the workspace, and it compiles again or no longer.
EditWorkspace ==
    /\ Spend("edits")
    /\ compiles' = ~compiles
    /\ UNCHANGED <<journalVars, turnVars, choiceVars, socketVars, lifecycle,
                   freezeVars, endVars, standing, informed, toldVars>>

-----------------------------------------------------------------------------
(* The end of a session.                                                   *)

\* The synchronous part of terminateVisualSession: a transition already under
\* way, or over, is joined.
Terminate(reason) ==
    IF terminating # "none"
    THEN UNCHANGED <<terminating, endReason>>
    ELSE terminating' = "quiescing" /\ endReason' = reason

\* stop, up to its first await.  The sockets it knows are closed.
BeginStop(reason) ==
    /\ stopping = "none"
    /\ lifecycle' = "draining"
    /\ grace' = FALSE
    /\ polls' = <<>>
    /\ sockets' = [s \in Sockets |-> IF s \in OpenSockets THEN "closing" ELSE sockets[s]]
    /\ Freeze("terminal-event")
    /\ Terminate(reason)
    /\ stopping' = IF terminating = "done" THEN "removing" ELSE "terminating"
    /\ UNCHANGED <<journalVars, pending, inFlight, answered, choiceVars,
                   reserved, registered, connections, handoff, directory,
                   outcome, modelVars, toldVars>>

\* POST /api/agent/stop, or the caller of startVisualSession stops it.  A stop
\* that finds an attempt running, or over, is answered with its outcome.
Stop(reason) == Spend("stops") /\ BeginStop(reason)

\* The reconnect timer fires.
GraceExpires ==
    /\ grace
    /\ IF connections # {} \/ lifecycle # "running"
       THEN /\ grace' = FALSE
            /\ UNCHANGED <<journalVars, turnVars, choiceVars, sockets, reserved,
                           registered, connections, lifecycle, freezeVars,
                           endVars, modelVars, toldVars>>
       ELSE BeginStop("browser-timeout")
    /\ UNCHANGED spent

\* drainAdmission resolves when nothing is left on the chain.
Quiet == chain = <<>>

\* failOnLimit goes on once the chain has drained.
BeginLimitFailure ==
    /\ limit = "draining" /\ Quiet
    /\ lifecycle' = IF lifecycle = "stopped" THEN lifecycle ELSE "draining"
    /\ Terminate("server-failed")
    /\ IF terminating = "done"
       THEN limit' = "done" /\ polls' = <<>>
       ELSE limit' = "terminating" /\ UNCHANGED polls
    /\ UNCHANGED <<journalVars, pending, inFlight, answered, choiceVars,
                   socketVars, frozen, handoff, stopping, directory, outcome,
                   modelVars, toldVars, spent>>

\* session.quiesce() resolves.
Quiesced ==
    /\ terminating = "quiescing" /\ Quiet
    /\ terminating' = "recording"
    /\ UNCHANGED <<journalVars, turnVars, choiceVars, socketVars, lifecycle,
                   freezeVars, endReason, handoff, stopping, directory,
                   outcome, modelVars, toldVars, spent>>

Closing ==
    [kind |-> "event", session |-> SessionId, id |-> ClosingId,
     sequence |-> LastSequence(log) + 1, type |-> "session.end", reason |-> endReason]

\* appendTerminalEvent settles; its failure is caught.
RecordEnd ==
    /\ terminating = "recording"
    /\ terminating' = "recovering"
    /\ \/ /\ log' = IF EndsIn(log) = {} THEN Append(log, Closing) ELSE log
          /\ UNCHANGED spent
       \/ /\ Spend("faults")
          /\ log' \in {log} \cup (IF EndsIn(log) = {} THEN {Append(log, Closing)} ELSE {})
    /\ UNCHANGED <<lastSequence, drawn, chain, offered, turnVars, choiceVars,
                   socketVars, lifecycle, freezeVars, endReason, handoff,
                   stopping, directory, outcome, modelVars, toldVars>>

Handoff == [kind     |-> "handoff",
            decision |-> Decision(log),
            reason   |-> TerminationReason(log)]

\* Variants: the polls are left waiting; the limit's failure, or the stop, never
\* hears of the transition's end.
ContinueWithoutPolls(stopGoesOn) ==
    /\ limit' = IF limit = "terminating" THEN "done" ELSE limit
    /\ UNCHANGED polls
    /\ stopping' = IF stopping = "terminating" THEN stopGoesOn ELSE stopping

ContinueStop(stopGoesOn) ==
    /\ UNCHANGED <<limit, polls>>
    /\ stopping' = IF stopping = "terminating" THEN stopGoesOn ELSE stopping

ContinueLimit(stopGoesOn) ==
    /\ IF limit = "terminating"
       THEN limit' = "done" /\ polls' = <<>>
       ELSE UNCHANGED <<limit, polls>>
    /\ UNCHANGED stopping

\* Whoever awaited the transition goes on: failOnLimit settles every poll, and
\* the stop attempt removes the directory, or has failed with the transition.
Continue(stopGoesOn) ==
    /\ IF limit = "terminating"
       THEN limit' = "done" /\ polls' = <<>>
       ELSE UNCHANGED <<limit, polls>>
    /\ stopping' = IF stopping = "terminating" THEN stopGoesOn ELSE stopping

Recover ==
    /\ terminating = "recovering"
    /\ terminating' = "done"
    /\ handoff' = Handoff
    /\ Continue("removing")
    /\ UNCHANGED <<journalVars, pending, inFlight, answered, choiceVars,
                   socketVars, lifecycle, frozen, endReason, directory,
                   outcome, modelVars, toldVars, spent>>

\* recoverVisualSession throws: the transition is forgotten.
RecoverThrows ==
    /\ terminating = "recovering"
    /\ Spend("faults")
    /\ terminating' = "none"
    /\ Continue("none")
    /\ UNCHANGED <<journalVars, pending, inFlight, answered, choiceVars,
                   socketVars, lifecycle, frozen, endReason, handoff,
                   directory, outcome, modelVars, toldVars>>

\* removeVisualSession: the journal is read once more if it is still there,
\* then the directory goes and the attempt resolves.
Remove ==
    /\ stopping = "removing" /\ directory # "unmarked"
    /\ directory' = "gone" /\ stopping' = "done" /\ lifecycle' = "stopped"
    /\ outcome' = IF directory = "whole" THEN Handoff ELSE handoff
    /\ UNCHANGED <<journalVars, turnVars, choiceVars, socketVars, freezeVars,
                   terminating, endReason, handoff, modelVars, toldVars, spent>>

\* A step of the removal throws, with the journal still there, without it, or
\* without the marker; the attempt fails, and the next stop is a fresh one.
RemoveThrows ==
    /\ stopping = "removing"
    /\ stopping' = "none"
    /\ IF directory = "unmarked"
       THEN UNCHANGED <<directory, spent>>
       ELSE /\ Spend("faults")
            /\ directory' \in {directory, "no journal", "unmarked"}
    /\ UNCHANGED <<journalVars, turnVars, choiceVars, socketVars, lifecycle,
                   freezeVars, terminating, endReason, handoff, outcome,
                   modelVars, toldVars>>

-----------------------------------------------------------------------------
Browser ==
    \/ \E s \in Sockets : Upgrade(s) \/ OversizedFrame(s) \/ Close(s)
    \/ \E s \in Sockets, t \in InputTypes, c \in Choices \cup {NoChoice}, n \in Claims :
           Frame(s, t, c, n)

\* Responses an agent can compose: to an event that has been journaled.
Answers ==
    [kind : {"response"}, session : {SessionId}, id : ResponseIds \ EventIds,
     answers : EventIdsIn(log), type : AnswerTypes]

Agent ==
    \/ \E after \in Afters : Poll(after)
    \/ \E i \in DOMAIN polls : PollEnds(i)
    \/ \E r \in Answers, c \in Choices \cup {NoChoice} : Respond(r, c)
    \/ \E reason \in Reasons : Stop(reason)

\* The running entry of the chain goes on.
Serve ==
    \/ BeginInput \/ BeginConnection \/ BeginResponse
    \/ AppendRefused \/ AppendThrows
    \/ FinishInput \/ FinishCommit \/ FinishReport
    \/ FinishConnected \/ FinishDisconnected
    \/ FinishResponse \/ FinishDuplicate

Transition == Quiesced \/ RecordEnd \/ Recover \/ RecoverThrows

Removal == Remove \/ RemoveThrows

Next ==
    \/ Browser \/ Agent \/ EditWorkspace
    \/ Serve
    \/ GraceExpires \/ BeginLimitFailure
    \/ Transition \/ Removal

Spec == Init /\ [][Next]_vars

\* The event loop gets to every callback that is ready, and file operations
\* settle.  Nothing is assumed of browsers, agents and timers.
LiveSpec ==
    /\ Spec
    /\ WF_vars(Serve) /\ WF_vars(BeginLimitFailure)
    /\ WF_vars(Transition) /\ WF_vars(Removal)

-----------------------------------------------------------------------------
(* Properties.                                                             *)

Entry ==
    [op : {"connected", "disconnected"}, socket : Sockets]
        \cup [op : {"input"}, socket : Sockets, type : InputTypes,
              choice : Choices \cup {NoChoice}, claim : Claims]
        \cup [op : {"response"}, record : Response, choice : Choices \cup {NoChoice}]
        \cup [op : {"report"}, landed : BOOLEAN]

Handoffs ==
    [kind : {"handoff"}, decision : {"failed", "completed", "cancelled"}, reason : Reasons]

JournalTypeOK ==
    /\ log \in Seq(Record) /\ lastSequence \in Nat /\ drawn \in {0} \cup EventIds
    /\ chain \in Seq(Entry) /\ offered \in Record \cup {Nothing}

TurnTypeOK ==
    /\ pending \in Seq(Event)
    /\ \A i \in DOMAIN pending :
           pending[i].type \notin {"filter.query", "layout.save",
                                   "changeset.commit", "view.navigate"}
    /\ inFlight \in Event \cup {None}
    /\ answered \subseteq EventIds \cup {ClosingId}
    /\ DOMAIN polls \subseteq 1..spent["polls"] /\ polls \in [DOMAIN polls -> Nat]
    /\ pendingChoice \in Choices \cup {NoChoice} /\ choicesClosed \in BOOLEAN

SocketTypeOK ==
    /\ sockets \in [Sockets -> {"new", "open", "closing", "closed"}]
    /\ reserved \subseteq Sockets /\ registered \subseteq Sockets
    /\ connections \subseteq Sockets /\ grace \in BOOLEAN

EndTypeOK ==
    /\ lifecycle \in {"running", "draining", "stopped"}
    /\ frozen \in LimitFreeze \cup {"none", "terminal-event"}
    /\ limit \in {"none", "draining", "terminating", "done"}
    /\ terminating \in {"none", "quiescing", "recording", "recovering", "done"}
    /\ endReason \in Reasons
    /\ handoff \in Handoffs \cup {None} /\ outcome \in Handoffs \cup {None}
    /\ stopping \in {"none", "terminating", "removing", "done"}
    /\ directory \in {"whole", "no journal", "unmarked", "gone"}

ToldTypeOK ==
    /\ compiles \in BOOLEAN /\ standing \in BOOLEAN /\ informed \subseteq Sockets
    /\ acknowledged \subseteq EventIds /\ accepted \subseteq ResponseIds
    /\ shown \in [ResponseIds -> Nat] /\ spent \in [Spendings -> Nat]

\* Every variable has its type; only inputs the agent has to act on are queued
\* for it.
TypeOK == JournalTypeOK /\ TurnTypeOK /\ SocketTypeOK /\ EndTypeOK /\ ToldTypeOK

\* Once the handoff has been recovered nothing is journaled any more, whatever
\* was still on the chain or on the wire when the session ended.
QuietAfterRecovery == [][handoff # None => log' = log]_log

\* The journal holds at most one session.end, nothing follows it but answers,
\* and the handoff every stop is answered with is the reading of that journal.
OneEnding ==
    /\ \A d, e \in EndsIn(log) : d = e
    /\ InOrder(log)
    /\ \A h \in {handoff, outcome} \ {None} : h = Handoff

\* No agent waits on a poll for an event the queue could give it.
NoMissedWakeup ==
    \A i \in DOMAIN polls : Deliverable(polls[i], pending, inFlight) = {}

AnsweredInLog(id) ==
    \E r \in ResponsesIn(log) : r.answers = id /\ r.type \in TurnCompleting

\* An actionable event whose sender was told it is accepted stays queued until
\* a response that completes its turn is journaled.
NoLostTurn ==
    \A e \in EventsIn(log) :
        (e.type \in Actionable /\ e.id \in acknowledged)
            => e.id \in Queued(pending, inFlight) \/ AnsweredInLog(e.id)

\* openTurn, as the browser's snapshot reports it.
OpenTurn == \E id \in Queued(pending, inFlight) : id \notin answered

\* The browser is told that no turn is open only if every event still queued
\* has been answered, also when the answer came before the agent polled.
ClosedTurnIsAnswered ==
    ~OpenTurn => \A id \in Queued(pending, inFlight) : AnsweredInLog(id)

AsksPast(e) == IsEvent(e) /\ e.type \in {"chat.message", "question.delegate", "session.end"}

\* As long as no append has thrown, the question a running session hands back to a reloading
\* browser was asked after everything the reviewer said to pass it by, and never after an End.
QuestionIsStillOpen ==
    (pendingChoice # NoChoice /\ lifecycle = "running" /\ spent["faults"] = 0) =>
        /\ EndsIn(log) = {}
        /\ \A i \in DOMAIN log : AsksPast(log[i]) =>
               \E j \in DOMAIN log : j > i /\ IsResponse(log[j]) /\ log[j].type = "choice.present"

\* A response reaches the browser at most once, however often it is retried.
ShownOnce == \A r \in ResponseIds : shown[r] <= 1

\* What the browser shows is the conversation: no turn closed that nobody
\* answered, no answer twice.
BrowserIsToldTheTruth == ClosedTurnIsAnswered /\ ShownOnce

\* Never more visible connections than the limit, although a slot is taken
\* before the connection is journaled and counted twice for a moment.
ConnectionsBounded == Cardinality(connections) <= ConnectionLimit

\* The browsers still counted although their socket is closed: a socket that closes while its
\* connection event is being journaled is counted after its close handler ran.
Ghosts == {s \in connections : sockets[s] = "closed"}

\* When the sockets of all browsers that joined a running session are closed, and none of them
\* is still counted as a ghost, the session is on the reconnect clock. With a ghost it is
\* not: that case is NoGhostConnection's, below.
LeftSessionIsOnTheClock ==
    /\ lifecycle = "running"
    /\ registered # {} /\ \A s \in registered : sockets[s] = "closed"
    /\ Ghosts = {}
    => grace

\* No poll is held past the end: a session that left "running" answers every
\* poll at once, or when the limit that ended it has settled.
NoPollOutlivesTheSession ==
    DOMAIN polls # {} => lifecycle = "running" \/ limit \in {"draining", "terminating"}

\* A stop settles: work admitted before it, a limit reached meanwhile and
\* failing file operations never leave it waiting.
StopSettles ==
    stopping \in {"terminating", "removing"} ~> stopping \in {"none", "done"}

\* A limit the session reached ends it.
LimitEndsSession == frozen \in LimitFreeze ~> lifecycle # "running" /\ limit = "done"

-----------------------------------------------------------------------------
(* What the repository says of the session and the code does not keep.     *)

\* "Browser disconnects: ... Recover and stop when the grace period expires":
\* the session never counts a browser that is gone.
NoGhostConnection == Ghosts = {}

=============================================================================
