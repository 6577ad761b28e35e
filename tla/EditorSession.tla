---------------------------- MODULE EditorSession ----------------------------
(***************************************************************************)
(* The editor at work: a browser (src/visual-app/session-client.tsx and    *)
(* the reducer of EditorState), the host it is opened on, and everybody    *)
(* else who changes the same workspace.                                    *)
(*                                                                         *)
(* With the "socket" host (src/visual-app/socket-host.ts) inputs and       *)
(* frames travel in two queues over a connection that can be lost; the     *)
(* session server at the other end answers the inputs one at a time.  With *)
(* the "local" host (src/host/local-host.ts) an input is answered before   *)
(* anything else happens, by the same page, over an embedder's store.      *)
(* A render follows every frame before the next one is handled.            *)
(*                                                                         *)
(* The workspace compiles when a session is opened on it; whether what is  *)
(* compiled later still does is a choice, since anybody may have left a    *)
(* document that does not.  The session grants a conversation.             *)
(*                                                                         *)
(* `repertoire` says which gestures the reviewer makes in a behaviour; it  *)
(* never changes.  The rows' `seen`, an answer's `late`, `sent`, `landed`, *)
(* `restored` and `unheard` are history.                                   *)
(***************************************************************************)
EXTENDS EditorState, FiniteSets

CONSTANTS Fields,        \* fields of a document an operation may state
          Subjects,      \* subjects a view may hold
          Titles,        \* titles a view may be given
          Queries,       \* queries that belong to no view
          Questions,     \* choices the agent may put to the reviewer
          MaxGestures,   \* bound: gestures of the reviewer, by repertoire
          MaxEvents,     \* bound: what everybody else does of their own accord
          MaxDrops,      \* bound: connections lost
          Repertoires,   \* kinds of gestures behaviours are made of
          Hosts          \* kinds of host behaviours are opened on

VARIABLES app,         \* the reducer's state
          origin,      \* filterOriginRef: why the last filter was asked
          applied,     \* appliedViewRef: the view whose query was last asked
          link,        \* the socket: "loading", "connecting", "open", "waiting", "over"
          epoch,       \* connections opened so far
          up, down,    \* inputs and frames on their way
          disk,        \* the workspace's files
          model, views,\* what the host last compiled, and its list of views
          compiles,    \* the last compile succeeded
          frozen,      \* the server takes no more input
          turn,        \* how many turns of the reviewer's wait for the agent
          question,    \* pendingChoice: the choice presented and not answered
          choicesClosed,
          prepared,    \* a chat filter matched and not yet journaled
          clock,       \* revisions written so far
          gestures, events,
          host, repertoire,
          sent,        \* the commit not answered yet, if any: the connection it left on
          landed,      \* the rows of the last landing, with what they replaced
          restored,    \* what has moved under the filter since a query was asked
          unheard      \* controls whose input was refused and not made up for

browserVars == <<app, origin, applied>>
wireVars    == <<link, epoch, up, down>>
workVars    == <<disk, model, views, compiles, clock>>
talkVars    == <<turn, question, choicesClosed, prepared>>
serverVars  == <<workVars, frozen, talkVars>>
boundVars   == <<gestures, events, host, repertoire>>
historyVars == <<sent, landed, restored, unheard>>
vars == <<browserVars, wireVars, serverVars, boundVars, historyVars>>

(* What the host compiles; nothing is not a revision, a compilation or a   *)
(* choice.                                                                 *)
Models == [docs : [Documents -> Nat], digests : [Paths -> Nat \cup {None}],
           initialView : {Initial}]

ASSUME NoneAssumption == None \notin Nat /\ None \notin Models /\ None \notin Questions

Rows(changeset) == changeset.operations \cup changeset.viewOperations

Content(title, names) == [title |-> title, query |-> [listed |-> TRUE, names |-> names]]
FirstTitle == CHOOSE title \in Titles : TRUE

Stored(projection, revision) ==
  [title |-> projection.title, query |-> projection.query, revision |-> revision]

Revision(files, p) ==
  IF p \in Documents \/ files[p] = None THEN files[p] ELSE files[p].revision

(* What the host reads off the disk when it compiles, and the digests it   *)
(* publishes: of every document it compiled and of every view it lists.    *)
Compiled(files, listed) ==
  [docs |-> [d \in Documents |-> files[d]],
   digests |-> [p \in Paths |-> IF p \in Documents \/ listed[p] # None
                                THEN Revision(files, p) ELSE None],
   initialView |-> Initial]

Snapshot(m, v) ==
  [model |-> m, views |-> v, choices |-> question, frozen |-> frozen,
   agentTurnOpen |-> turn > 0]

ReadyFrame == [kind |-> "ready", snapshot |-> Snapshot(model, views)]
ModelFrame(m, v) == [kind |-> "model", model |-> m, views |-> v]
DiagnosticFrame == [kind |-> "response", type |-> "diagnostic"]

Init ==
  /\ host \in Hosts /\ repertoire \in Repertoires
  /\ disk = [p \in Paths |-> IF p \in Documents THEN 0
                             ELSE IF p = Initial THEN Stored(Content(FirstTitle, <<>>), 0)
                             ELSE None]
  /\ views = [p \in ViewPaths |-> disk[p]]
  /\ model = Compiled(disk, views) /\ compiles = TRUE
  /\ frozen = FALSE /\ turn = 0 /\ question = None /\ choicesClosed = FALSE /\ prepared = None
  /\ app = initialVisualAppState /\ origin = "panel" /\ applied = None
  /\ link = "loading" /\ epoch = 0 /\ up = <<>> /\ down = <<>>
  /\ clock = 0 /\ gestures = 0 /\ events = 0
  /\ sent = {} /\ landed = {} /\ restored = {} /\ unheard = {}

-----------------------------------------------------------------------------
(***************************************************************************)
(* A render of the browser: the new state, the inputs it sends, and the    *)
(* effect that asks for the query of a view not applied yet.  An input is  *)
(* dropped when the socket is not open.                                    *)
(***************************************************************************)
Asked(query) == [type |-> "filter.query", epoch |-> epoch, query |-> query]

Sent(inputs, open) == up' = IF open THEN up \o inputs ELSE up

Render(next, inputs, asker) ==
  LET connected == link' = "open"
      view == ViewNeedingApplication(next, applied, connected)
  IN  /\ app' = next
      /\ IF view = None
         THEN /\ applied' = IF next.activeView = None THEN None ELSE applied
              /\ origin' = asker
              /\ Sent(inputs, connected)
         ELSE /\ applied' = view
              /\ origin' = "view"
              /\ Sent(Append(inputs, Asked(next.views[view].query)), connected)

(* A query asked makes up for everything that moved before it.             *)
Asks == Len(up') > Len(up) /\ up'[Len(up')].type = "filter.query"

Restores(moved) == restored' = IF Asks THEN {} ELSE restored \cup moved

(* A gesture of the reviewer's: possible once there is a model on screen,  *)
(* and, with the local host, between two answers of it.                    *)
Settled == host = "local" => up = <<>> /\ down = <<>>

Gesture(kinds) ==
  /\ app.model # None /\ app.lifecycle # "closed"
  /\ repertoire \in kinds /\ gestures < MaxGestures[repertoire] /\ Settled
  /\ gestures' = gestures + 1
  /\ UNCHANGED <<link, epoch, down, serverVars, events, host, repertoire, landed, unheard>>

Tray(kinds, next) ==
  /\ Gesture(kinds)
  /\ Render(visualAppReducer(app, next), <<>>, origin)
  /\ UNCHANGED sent /\ Restores({})

StageOperation == \E d \in Documents, f \in Fields : Tray({"rows"}, ChangesetStaged(app, d, f))

StageView ==
  \E p \in ViewPaths, title \in Titles :
    LET shown == app.views[p]
        names == IF shown = None THEN <<>> ELSE shown.query.names
        row == WriteView(p, Content(title, names), SeenView(app, p))
    IN  Tray({"views"}, ChangesetViewStaged(app, row))

DeleteListedView ==
  \E p \in ViewPaths :
    /\ app.views[p] # None
    /\ Tray({"views"}, ChangesetViewStaged(app, DeleteView(p, SeenView(app, p))))

EditMembership ==
  \E p \in ViewPaths, s \in Subjects, membership \in {"add", "remove"} :
    /\ ChangesetViewMembership(app, p, s, membership) # app
    /\ Tray({"views"}, ChangesetViewMembership(app, p, s, membership))

Discard ==
  \E row \in Rows(app.pending) : Tray({"rows", "views"}, ChangesetDiscarded(app, row))

Clear == ~changesetIsEmpty(app.pending) /\ Tray({"rows", "views"}, ChangesetCleared(app))
Undo  == app.undo # <<>> /\ Tray({"rows", "views"}, ChangesetUndone(app))
Redo  == app.redo # <<>> /\ Tray({"rows", "views"}, ChangesetRedone(app))

(* The tray's button is dead while a commit is in flight.                  *)
Commit ==
  /\ ~changesetIsEmpty(app.pending) /\ ~app.committing
  /\ Gesture({"rows", "views"})
  /\ Render(visualAppReducer(app, ChangesetCommitSent(app)),
            <<[type |-> "changeset.commit", epoch |-> epoch, changeset |-> app.pending]>>, origin)
  /\ sent' = {[epoch |-> epoch, open |-> link = "open"]}
  /\ Restores({})

-----------------------------------------------------------------------------
(***************************************************************************)
(* Moving around and narrowing.                                            *)
(***************************************************************************)
Navigate ==
  \E p \in ViewPaths :
    /\ app.views[p] # None
    /\ Gesture({"screen"})
    /\ Render(visualAppReducer(app, ViewNavigated(app, p)), <<>>, origin)
    /\ UNCHANGED sent /\ Restores({})

Filter ==
  \E q \in Queries, source \in {"panel", "focus", "editor"} :
    /\ source = "editor" => app.activeView # None
    /\ Gesture({"screen"})
    /\ Render(app, <<Asked(q)>>, source)
    /\ UNCHANGED sent /\ Restores({})

ClearFilter ==
  /\ app.activeFilter # None
  /\ Gesture({"screen"})
  /\ Render(visualAppReducer(app, FilterCleared(app)), <<>>, origin)
  /\ Restores(IF app'.activeFilter = None THEN {} ELSE {"focus"})
  /\ UNCHANGED sent

(***************************************************************************)
(* Talking to the agent, and ending.  The composer is what enables a       *)
(* message and a choice; an open question of the interview is handed over  *)
(* from the canvas whether it is enabled or not.  A local host grants no   *)
(* conversation.                                                           *)
(***************************************************************************)
Says(next, input) ==
  /\ Gesture({"talk"}) /\ host = "socket"
  /\ Render(visualAppReducer(app, next), <<input>>, origin)
  /\ UNCHANGED sent /\ Restores({})

Spoken(type) == [type |-> type, epoch |-> epoch]

Chat     == composerOpen(app) /\ Says(ChatSent(app), Spoken("chat.message"))
Delegate == Says(ChatSent(app), Spoken("question.delegate"))
Choose   == /\ composerOpen(app) /\ app.choices # None
            /\ Says(ChatSent(app),
                    [type |-> "choice.selected", epoch |-> epoch, choice |-> app.choices])
End      == app.lifecycle = "active" /\ Says(EndRequested(app), Spoken("session.end"))

-----------------------------------------------------------------------------
(***************************************************************************)
(* The host's side of the wire.                                            *)
(***************************************************************************)
Event == events < MaxEvents /\ events' = events + 1

Remains == UNCHANGED <<browserVars, gestures, host, repertoire, sent, restored, unheard>>
Stays == Remains /\ UNCHANGED events

(* A snapshot asks nothing again, nor does a model that finds no filter.   *)
(* A refusal leaves the filter that stood, and an answer of the agent's    *)
(* may have been matched against a model replaced since.                   *)
Unasked(frame, next) ==
  IF frame.kind = "rejected" /\ frame.refused = "filter.query" THEN {"refusal"}
  ELSE IF frame.kind = "response" /\ frame.type = "chat.response" /\ frame.late THEN {"late"}
  ELSE IF next.model = app.model /\ next.views = app.views THEN {}
  ELSE IF frame.kind = "ready" THEN {"snapshot"} ELSE {"model"}

(* What the reducer does not give back when an input is refused: the       *)
(* question it took off the screen, and the composer after a hand-over.    *)
Lost(refused) ==
  {matter \in {"question", "turn"} :
     /\ matter = "turn" => refused = "question.delegate"
     /\ matter = "question" =>
          refused \in {"chat.message", "choice.selected", "question.delegate", "session.end"}}

Forgone(frame) ==
  IF frame.kind = "ready" THEN {}
  ELSE unheard \cup IF frame.kind = "rejected" THEN Lost(frame.refused) ELSE {}

MadeUpFor(frame, next) ==
  (IF next.awaitingAgent THEN {} ELSE {"turn"})
  \cup IF frame.kind = "response" /\ frame.type = "choice.present" THEN {"question"} ELSE {}

Receive(frame) ==
  LET next == visualAppReducer(app, Transition(app, frame, origin))
      stale == FilterToReresolve(frame, app)
  IN  /\ Render(next,
                IF stale = None THEN <<>> ELSE <<Asked(stale.query)>>,
                IF stale = None THEN origin ELSE stale.source)
      /\ Restores(Unasked(frame, next))
      /\ unheard' = Forgone(frame) \ MadeUpFor(frame, next)

(* load(): the opening snapshot over HTTP, and then the socket.  The local *)
(* host has no wire: opening it is being connected.                        *)
Load ==
  /\ link = "loading"
  /\ link' = IF host = "local" THEN "open" ELSE "connecting"
  /\ Receive(ReadyFrame)
  /\ UNCHANGED <<epoch, down, serverVars, boundVars, sent, landed>>

LoadFails ==
  /\ link = "loading" /\ host = "socket" /\ epoch < MaxDrops
  /\ link' = "waiting" /\ epoch' = epoch + 1
  /\ Render(visualAppReducer(app, ConnectionLost(app)), <<>>, origin)
  /\ Restores({"snapshot"})
  /\ UNCHANGED <<down, serverVars, boundVars, sent, landed, unheard>>

(* A browser that connects after a compile failed is told of it too.       *)
Connect ==
  /\ link = "connecting"
  /\ link' = "open"
  /\ down' = <<ReadyFrame>> \o IF compiles THEN <<>> ELSE <<DiagnosticFrame>>
  /\ Render(app, <<>>, origin)
  /\ Restores({})
  /\ UNCHANGED <<epoch, serverVars, boundVars, sent, landed, unheard>>

(* What had reached the server is still answered, to nobody; the rest of   *)
(* the inputs, and every frame on its way, are gone.                       *)
Drop ==
  /\ host = "socket" /\ link \in {"connecting", "open"} /\ epoch < MaxDrops
  /\ link' = "waiting" /\ epoch' = epoch + 1 /\ down' = <<>>
  /\ \E reached \in 0..Len(up) : up' = SubSeq(up, 1, reached)
  /\ app' = visualAppReducer(app, ConnectionLost(app))
  /\ restored' = restored \cup {"snapshot"}
  /\ UNCHANGED <<origin, applied, serverVars, boundVars, sent, landed, unheard>>

Retry ==
  /\ link = "waiting"
  /\ link' = "connecting"
  /\ UNCHANGED <<browserVars, epoch, up, down, serverVars, boundVars, historyVars>>

(* Past the grace, or refused for good with a close code of the            *)
(* application's.                                                          *)
GiveUp ==
  /\ link = "waiting"
  /\ link' = "over"
  /\ app' = visualAppReducer(app, SessionClosed(app))
  /\ UNCHANGED <<origin, applied, epoch, up, down, serverVars, boundVars, historyVars>>

Deliver ==
  /\ link = "open" /\ down # <<>>
  /\ down' = Tail(down)
  /\ link' = IF down[1].kind = "closing" THEN "over" ELSE "open"
  /\ Receive(down[1])
  /\ sent' = IF down[1].kind = "apply-result" THEN {} ELSE sent
  /\ UNCHANGED <<epoch, serverVars, boundVars, landed>>

-----------------------------------------------------------------------------
(***************************************************************************)
(* The answers.  A reply goes to the socket that asked, a broadcast to the *)
(* one that is open.                                                       *)
(***************************************************************************)
Open == link = "open"
Replied(input, frames) == IF Open /\ input.epoch = epoch THEN frames ELSE <<>>
Broadcast(frames) == IF Open THEN frames ELSE <<>>

Next1(type) == up # <<>> /\ up[1].type = type /\ up' = Tail(up)

Rejected(type, freezing) == [kind |-> "rejected", refused |-> type, frozen |-> freezing]

Refused(type, freezing) ==
  /\ Next1(type)
  /\ down' = down \o Replied(up[1], <<Rejected(type, freezing)>>)
  /\ UNCHANGED <<link, epoch, serverVars, landed>> /\ Remains

(* The session server refuses everything once it is frozen, and may refuse *)
(* any input without being so: the session is on its way out, the sequence *)
(* the browser claims is ahead of the journal, or the input could not be   *)
(* journaled.  A local host has no graph to answer a query from after a    *)
(* compile that failed.                                                    *)
Refuse ==
  \E type \in {"changeset.commit", "filter.query", "chat.message", "choice.selected",
               "question.delegate", "session.end"} :
    \/ host = "socket" /\ frozen /\ Refused(type, TRUE) /\ UNCHANGED events
    \/ host = "socket" /\ Refused(type, FALSE) /\ Event
    \/ /\ host = "local" /\ type = "filter.query" /\ ~compiles
       /\ Refused(type, FALSE) /\ UNCHANGED events

AnswerFilter ==
  /\ Next1("filter.query") /\ ~frozen
  /\ host = "local" => compiles
  /\ down' = down \o Replied(up[1],
       <<[kind |-> "filter-result", query |-> up[1].query,
          matched |-> <<up[1].query, model.docs>>]>>)
  /\ UNCHANGED <<link, epoch, serverVars, landed>> /\ Stays

(* recordEvent: asking past a question declines to answer it.              *)
TakeTurn ==
  /\ ~frozen
  /\ \/ /\ Next1("chat.message") \/ Next1("question.delegate")
        /\ question' = None
     \/ /\ Next1("choice.selected")
        /\ question' = IF question = up[1].choice THEN None ELSE question
  /\ turn' = turn + 1
  /\ UNCHANGED <<link, epoch, down, workVars, frozen, choicesClosed, prepared, landed>> /\ Stays

TakeEnd ==
  /\ Next1("session.end") /\ ~frozen
  /\ frozen' = TRUE /\ turn' = turn + 1
  /\ question' = None /\ choicesClosed' = TRUE
  /\ UNCHANGED <<link, epoch, down, workVars, prepared, landed>> /\ Stays

-----------------------------------------------------------------------------
(***************************************************************************)
(* A commit.  The session server compares every targeted file that exists  *)
(* with its pin; the local host leaves the question to its store, which    *)
(* compares with what the commit itself has just read.  A compile that     *)
(* fails leaves the last good model, and a diagnostic says so.             *)
(***************************************************************************)
Recompiles ==
  /\ compiles' \in BOOLEAN
  /\ model' = IF compiles' THEN Compiled(disk', views') ELSE model

News == IF compiles' THEN ModelFrame(model', views') ELSE DiagnosticFrame

PinnedPath(pins, p) == IF p \in DOMAIN pins THEN pins[p] ELSE None

StalePins(changeset) ==
  {p \in RowPaths(changeset.operations, changeset.viewOperations) :
     PinnedPath(changeset.pins, p) # Revision(disk, p)}

Fresh == clock + 1

Landing(row) == IF row.op = "delete-view" THEN None ELSE Stored(row.projection, Fresh)

LandedFiles(changeset) ==
  [p \in Paths |->
     IF \E row \in changeset.operations : row.path = p THEN Fresh
     ELSE IF \E row \in changeset.viewOperations : row.path = p
     THEN Landing(CHOOSE row \in changeset.viewOperations : row.path = p)
     ELSE disk[p]]

(* adoptLandedViews: the views of the batch are read again, no other.      *)
AdoptLandedViews(changeset, files) ==
  [p \in ViewPaths |->
     IF \E row \in changeset.viewOperations : row.path = p THEN files[p] ELSE views[p]]

(* A delete of a file that is gone is refused; everything else the plan    *)
(* may refuse (a batch that does not compile, a view that does not parse)  *)
(* is a choice.                                                            *)
Unplannable(changeset) ==
  \E row \in changeset.viewOperations : row.op = "delete-view" /\ disk[row.path] = None

CommitNow == Next1("changeset.commit") /\ ~frozen /\ Stays /\ UNCHANGED <<link, epoch, talkVars>>

RefusePins ==
  /\ host = "socket" /\ CommitNow
  /\ StalePins(up[1].changeset) # {}
  /\ UNCHANGED <<disk, views, clock, frozen, landed>>
  /\ Recompiles
  /\ down' = down \o Replied(up[1], <<[kind |-> "apply-result", ok |-> FALSE]>>)
                  \o Broadcast(<<News>>)

PassedPins(changeset) == host = "local" \/ StalePins(changeset) = {}

RefusePlan ==
  /\ CommitNow /\ PassedPins(up[1].changeset)
  /\ down' = down \o Replied(up[1], <<[kind |-> "apply-result", ok |-> FALSE]>>)
  /\ UNCHANGED <<workVars, frozen, landed>>

(* A session server whose workspace no longer compiles takes no more input.*)
Land ==
  /\ CommitNow /\ PassedPins(up[1].changeset) /\ ~Unplannable(up[1].changeset)
  /\ disk' = LandedFiles(up[1].changeset)
  /\ views' = AdoptLandedViews(up[1].changeset, disk')
  /\ clock' = Fresh
  /\ Recompiles
  /\ frozen' = (host = "socket" /\ ~compiles')
  /\ landed' = {[row |-> row, over |-> Revision(disk, row.path)] :
                  row \in Rows(up[1].changeset)}
  /\ down' = down \o Replied(up[1], <<[kind |-> "apply-result", ok |-> TRUE]>>)
                  \o Broadcast(<<News>>)

-----------------------------------------------------------------------------
(***************************************************************************)
(* Everybody else.                                                         *)
(***************************************************************************)
Writing ==
  /\ Event /\ Settled
  /\ link # "loading"
  /\ clock' = Fresh /\ landed' = {}
  /\ UNCHANGED <<browserVars, link, epoch, up, talkVars, gestures, host, repertoire,
                 sent, restored, unheard>>

Enumerations == {<<>>} \cup {<<s>> : s \in Subjects}

Written(p) ==
  IF p \in Documents THEN {Fresh}
  ELSE {Stored(Content(title, names), Fresh) : title \in Titles, names \in Enumerations}

(* An editor, the command line or an agent's tool: the files change and    *)
(* nobody is told.                                                         *)
Save ==
  \E p \in Paths : \E content \in Written(p) :
    /\ p \in Documents \/ disk[p] # None
    /\ Writing
    /\ disk' = [disk EXCEPT ![p] = content]
    /\ UNCHANGED <<down, model, views, compiles, frozen>>

(* Another browser of the session lands a batch: the server adopts its     *)
(* views, compiles and tells everybody.                                    *)
OtherTab ==
  \E p \in Paths : \E content \in Written(p) :
    /\ host = "socket" /\ ~frozen
    /\ Writing
    /\ disk' = [disk EXCEPT ![p] = content]
    /\ views' = IF p \in ViewPaths THEN [views EXCEPT ![p] = content] ELSE views
    /\ Recompiles
    /\ frozen' = ~compiles'
    /\ down' = down \o Broadcast(<<News>>)

(* A limit freezes the session; the browser learns of it from the next     *)
(* input refused.                                                          *)
Freeze ==
  /\ host = "socket" /\ ~frozen /\ link # "loading"
  /\ Event
  /\ frozen' = TRUE
  /\ UNCHANGED <<browserVars, wireVars, workVars, talkVars, gestures, host,
                 repertoire, historyVars>>

(* The embedder of a local host asks for a fresh model: refused while rows *)
(* are staged against content that changed, and without a word to the      *)
(* canvas when the workspace does not compile.                             *)
RefreshHost ==
  /\ host = "local" /\ Settled /\ link = "open"
  /\ \A p \in DOMAIN app.pending.pins : app.pending.pins[p] = Revision(disk, p)
  /\ UNCHANGED <<link, epoch, up, disk, views, clock, frozen, talkVars, landed>> /\ Stays
  /\ Recompiles
  /\ down' = IF compiles' THEN down \o <<ModelFrame(model', views')>> ELSE down

(***************************************************************************)
(* The agent, who may also answer what nobody asked, or an event already   *)
(* answered.  What it says is journaled and then told to every browser; a  *)
(* session that is frozen still takes it.                                  *)
(***************************************************************************)
AgentSays(frame) ==
  /\ host = "socket"
  /\ \/ turn > 0 /\ turn' = turn - 1 /\ UNCHANGED events
     \/ Event /\ UNCHANGED turn
  /\ down' = down \o Broadcast(<<frame>>)
  /\ UNCHANGED <<browserVars, link, epoch, up, workVars, frozen, choicesClosed,
                 gestures, host, repertoire, historyVars>>

ChatResponse(query, matched, late) ==
  [kind |-> "response", type |-> "chat.response", query |-> query, matched |-> matched,
   late |-> late]

(* With words or operations, or with a choice, which is kept as the pending *)
(* one unless the reviewer has ended the session.                          *)
AgentFrames ==
  {ChatResponse(None, None, FALSE)}
  \cup {[kind |-> "response", type |-> "operations.propose", path |-> d, field |-> f] :
          d \in Documents, f \in Fields}

AgentAnswers ==
  \E frame \in AgentFrames : AgentSays(frame) /\ UNCHANGED <<question, prepared>>

AgentAsks ==
  \E choice \in Questions :
    /\ AgentSays([kind |-> "response", type |-> "choice.present", choice |-> choice])
    /\ question' = IF choicesClosed THEN question ELSE choice
    /\ UNCHANGED prepared

(* A chat filter is matched when the answer comes in, before it takes its  *)
(* place among the inputs being admitted; what they do to the model, it    *)
(* does not see.                                                           *)
MatchChatFilter ==
  \E query \in Queries :
    /\ host = "socket" /\ prepared = None
    /\ turn > 0 \/ events < MaxEvents
    /\ prepared' = [query |-> query, docs |-> model.docs]
    /\ UNCHANGED <<browserVars, wireVars, workVars, frozen, turn, question, choicesClosed,
                   boundVars, historyVars>>

AgentFilters ==
  /\ prepared # None
  /\ AgentSays(ChatResponse(prepared.query, <<prepared.query, prepared.docs>>,
                            prepared.docs # model.docs))
  /\ prepared' = None
  /\ UNCHANGED question

(* The session ends, after the reviewer's End or for a reason of its own.  *)
SessionEnds ==
  /\ host = "socket" /\ link = "open"
  /\ ~\E i \in DOMAIN down : down[i].kind = "closing"
  /\ (frozen /\ UNCHANGED events) \/ Event
  /\ down' = down \o <<[kind |-> "closing"]>>
  /\ UNCHANGED <<link, epoch, up, serverVars, landed>> /\ Remains

-----------------------------------------------------------------------------
Next ==
  \/ StageOperation \/ StageView \/ DeleteListedView \/ EditMembership
  \/ Discard \/ Clear \/ Undo \/ Redo \/ Commit
  \/ Navigate \/ Filter \/ ClearFilter
  \/ Chat \/ Delegate \/ Choose \/ End
  \/ Load \/ LoadFails \/ Connect \/ Drop \/ Retry \/ GiveUp \/ Deliver
  \/ Refuse \/ AnswerFilter \/ TakeTurn \/ TakeEnd
  \/ RefusePins \/ RefusePlan \/ Land
  \/ Save \/ OtherTab \/ Freeze \/ RefreshHost
  \/ AgentAnswers \/ AgentAsks \/ MatchChatFilter \/ AgentFilters \/ SessionEnds

Spec == Init /\ [][Next]_vars

-----------------------------------------------------------------------------
Changesets == {app.pending} \cup ToSet(app.undo) \cup ToSet(app.redo)

(***************************************************************************)
(* Every changeset a browser can put back into its tray vouches only for   *)
(* what it targets, and for every document it targets (restage).           *)
(***************************************************************************)
PinsVouchForTheirRows ==
  \A changeset \in Changesets :
    LET targeted == {row.path : row \in Rows(changeset)}
    IN  /\ DOMAIN changeset.pins \subseteq targeted
        /\ targeted \cap Documents \subseteq DOMAIN changeset.pins

(***************************************************************************)
(* A batch that lands through the session server replaces, at every path   *)
(* it names, the content that was on the reviewer's screen when the row    *)
(* was written - whatever other browsers and editors did meanwhile, and    *)
(* however often the row was undone, redone or carried across a reconnect. *)
(* Left out: a view no file held when it was staged, and a row written     *)
(* from a view whose file somebody had changed behind the server's back.   *)
(***************************************************************************)
RowsLandOnWhatWasShown ==
  /\ PinsVouchForTheirRows
  /\ host = "socket" =>
       \A l \in landed :
         l.row.seen.shown # None /\ l.row.seen.published = l.row.seen.shown
           => l.over = l.row.seen.shown

(***************************************************************************)
(* A view somebody edited on disk is not overwritten by a reviewer who     *)
(* never saw the edit, as the comment on the precondition has it.  A       *)
(* recompile publishes the digest the file has now beside the content the  *)
(* session read before (projectionDigestsNow), so it is.                   *)
(***************************************************************************)
UnseenEditsSurvive ==
  host = "socket" => \A l \in landed : l.row.seen.shown # None => l.over = l.row.seen.shown

Replaces(old, new) == old.path = new.path /\ old.field = new.field

GoneByName ==
  LET gone == Rows(app.pending) \ Rows(app'.pending)
  IN  \/ gestures' # gestures
      \/ gone = {}
      \/ sent # {} /\ sent' = {} /\ Rows(app'.pending) = {}
      \/ \A row \in gone : \E new \in Rows(app'.pending) : Replaces(row, new)

(***************************************************************************)
(* A staged row leaves the tray by a gesture of the reviewer, by a row of  *)
(* the agent's for the same field, or because a commit landed; no frame,   *)
(* refusal or lost connection takes it away.                               *)
(***************************************************************************)
RowsLeaveOnlyByName == [][GoneByName]_vars

(* Nothing is on its way between a browser at work and its host.           *)
Quiet == link = "open" /\ up = <<>> /\ down = <<>> /\ app.lifecycle = "active"

(* Nothing is to come that would change what the filter shows.             *)
ScreenRests == Quiet /\ app.activeFilter # None

MatchesTheModel == app.activeFilter.matched = <<app.activeFilter.query, app.model.docs>>

ShowsTheViewsQuery ==
  app.activeFilter.source = "view" /\ ListedView(app.views, app.activeView) =>
    app.activeFilter.query = app.views[app.activeView].query

(***************************************************************************)
(* When nothing is on its way, the canvas shows what the standing query    *)
(* selects from the model on screen, and a view shows the query it is      *)
(* listed with - however commits, picks, focuses, failed compiles and the  *)
(* agent's queries crossed.  Left out, until a query is asked: the model   *)
(* replaced by a snapshot, which asks nothing again; a filter put back by  *)
(* clearing a focus; a query that was refused, which leaves the filter     *)
(* that stood; the agent's filter matched before the model moved; and a    *)
(* view whose query changed before its first answer came.                  *)
(***************************************************************************)
QuietScreenIsCurrent ==
  ScreenRests /\ restored \cap {"focus", "snapshot", "refusal", "late"} = {} =>
    MatchesTheModel /\ (restored = {} => ShowsTheViewsQuery)

(***************************************************************************)
(* When nothing is on its way, a control the browser keeps dead waits for  *)
(* something that is still to come: the composer for an open turn, the     *)
(* tray for a commit whose answer was not lost with its connection; and a  *)
(* question still pending is on screen.  Left out, until a snapshot or the *)
(* agent makes up for it: what a refusal took away and did not give back,  *)
(* the question the refused input was to settle and the composer after a   *)
(* refused hand-over.                                                      *)
(***************************************************************************)
NothingWaitsForNothing ==
  Quiet => /\ app.awaitingAgent => turn > 0 \/ "turn" \in unheard
           /\ question # None => app.choices = question \/ "question" \in unheard
           /\ app.committing => \E commit \in sent : commit.epoch # epoch \/ ~commit.open
=============================================================================
