# A formal model of yarramate

Yarramate keeps an architecture model as source documents under `.yarramate/`,
compiles them to a graph, reads that graph in many ways (views, questions,
matrices, briefs, workbooks), changes it in batches, and opens *visual sessions*
on it: a local server that a person drives from a browser and an agent drives
over HTTP, every message journaled so that a crash, a retry or a reload loses
nothing.

Two kinds of difficulty follow, and the models are of both. The session, the
directory it lives in, the commit and the editor have state, concurrency and
failures. The compiler, the canvas, the questions and the records are large pure
functions: there the difficulty is that several paths derive one fact, and that
edits made in some order must leave every reading true.

Paths below are relative to the repository root; the lines a definition stands
for are in `PROJECT.json` under `map`. A helper of an algorithm that is a clause
of a longer function is covered by that function's entry.

## 1. Inventory

| Component | State it keeps | What is hard | What makes it correct | Modelled in |
|---|---|---|---|---|
| **Session journal** `adapters/visual/session-store.ts` | `journal.jsonl`, an in-process state per journal, a promise chain per journal | writes that throw halfway, torn tails, a cache trusted on the file's size alone, retries, restarts | the cache is the file's; one conversation, closed once; a settled handoff stays | `SessionJournal` |
| **Session server** `adapters/visual/session-server.ts` | admission chain, turn queue, held polls, connections and reservations, reconnect timer, lifecycle, freeze reason, the running stop | every `await` lets other callbacks run; a limit is detected inside the chain the transition waits for; sockets close while their connection is journaled; any append may throw | no event lost, no poll asleep beside its event, one ending, a stop that settles, bounded connections, a session everybody left ends | `SessionServer` |
| **Session directory, agent client** `session-store.ts`, `client.ts`, `visual-cli.ts` | root, marker, journal, descriptor, stopped marker | several processes remove one directory in several steps, any of them killed anywhere | what a retry needs stays reachable; a stop that reports success left nothing behind and hands over every record | `SessionDirectory` |
| **Workspace compiler** `compiler.ts`, `workspace-resolution.ts` | a parse cache between compiles | references across files in both directions; minted edges and derived identifiers; a stale cache | cache and listing order change nothing; a graph that comes out is closed, permitted, each wire once | `Profiles`, `Compiler`, `SemanticGraph`, `IncrementalCompile` |
| **Source store, changeset commit** `source-store.ts`, `apply-command.ts`, `subject-references.ts`, `workspace-model.ts` | the source files | other writers, renames that fail mid-batch, pins checked before the sources are read again | nothing is overwritten unread but in one window; a batch says what its operations say | `ApplyOperations`, `WorkspaceCommit` |
| **Browser socket host and state, local host** `visual-app/socket-host.ts`, `state.ts`, `host/local-host.ts` | socket, snapshot, filter, changeset tray with undo | frames of an old connection, reconnects, answers that arrive late or never, inputs refused after the screen has moved on | rows land on what was shown and leave by name; a quiet screen is current; no control waits for nothing | `EditorState`, `EditorSession` |
| **Canvas, projection, page** `fold-tree.ts`, `projection.ts`, `graph-canvas.tsx`, `App.tsx`, `workspace-state.ts`, `context-menu-model.ts` | the board: view, focus, filter, folds, selection, tool, menu, column | switches that combine, a model replaced under a menu, a tool or a focus | one account of the selection, told once; exclusions final; what stands beside the canvas is of the model | `FoldTree`, `Projection`, `PageShell`, `ReadingSession` |
| **Interrogation** `interrogate-command.ts`, `question-verbs.ts` | none | waves, gates, overlays, negations over withheld input | the gesture a question offers closes it; what was withheld is named | `Interrogation`, `Catalogues`, `QuestionVerbs` |
| **Governance, evidence, workbook, command line** `governance.ts`, `evidence.ts`, `attestation-staleness.ts`, `reconciliation.ts`, `workbook*.ts`, `changed.ts`, `brief.ts`, `next-command.ts` | a document, its history, a workbook that left | one fact along several paths; three versions of a cell; line numbers of another commit | sign-offs stale when reworded; a review shows the change; an import keeps others' cells; readings agree | `SignOffs`, `Workbook`, `Reconciliation`, `DerivedReports`, `Briefs`, `RecordKeeping` |
| **Generated tables** | none | none | | not modelled |

### How they interact

    browser --frames--> session server --append--> session journal --> disk
       ^   tray, board    |   ^   |                      session directory
       |  broadcast       |   |   +--commit--> changeset commit --> source store
       +------------------+   |                     ^                   |
                        agent client                |  compile          v
              (poll, respond, stop over HTTP)       +------------ workspace compiler
                                                     readings: views, questions,
                                                     records, workbook, briefs

All callbacks of a server run on one event loop. Browser frames, responses and
connection events go through one *admission chain* (`admit`), one at a time and
in call order; polls, closes, upgrades, timers and stops do not. The journal has
a chain of its own, per file, and the closing record reaches it without passing
the admission chain, which is drained before.

## 2. Modules

### SessionRecords, ConversationRecord, SessionJournal

`SessionRecords` has the records of a journal and the readings of it that store
and server share; `ConversationRecord` is the abstract promise of the store: a
log that grows by one legal record at a time, and acknowledgements that stay
true. `SessionJournal` is the store and implements it.

`lines` and `torn` are the file: its complete lines, and whether it ends in a
fragment. `cache` is `states.get(paths.journal)`, `queue` the promise chain of
`serialize`, `writing` the record between an append's checks and the end of its
write. One append is three steps, cut where the code awaits: `BeginEvent`,
`BeginResponse` or `BeginTerminal`; `WriteLine` or `WriteThrows`; `FinishAppend`.
A write that throws, or is cut off by a crash, leaves nothing, a torn tail, or the
whole line. Sizes are counted as two bytes a line and one a fragment: that is all
`syncState` compares. That an unrelated writer could leave a file of the same
size is not modelled.

### SessionServer

One live session, on top of what `ConversationRecord` promises. The variables
carry the code's names. `chain` is the admission chain with the running entry
first, `offered` the record that entry has handed to the store: an entry's action
up to its append sets it, and one of the `Finish...` actions, `AppendRefused` or
`AppendThrows` takes it away, running everything the code does until the entry's
end or its next append. In between every other callback may run. `FinishCommit`
reduces a changeset to its outcomes. `terminating`, `stopping` and `limit` say
where each of the three asynchronous procedures of the end stands; they overlap
freely.

### SessionDirectory

One step is one file operation of a process: the runtimes, which prune what
earlier ones left, create, publish, serve, append, stop and remove; and the
`stop` commands. `files` is what is on disk by session, `removal` the
`removeVisualSession` a process is in the middle of. `KillRuntime` and `KillStop`
end a process between any two steps, `Fault` makes an operation throw or an
answer get lost. `undercut` records that a journal was deleted under a runtime
still writing it, which only a prune of a session silent for a day does.

### Profiles, Compiler, SemanticGraph, IncrementalCompile

The phases of `compileWorkspaceWithProfileContext` as operators: profiles into
kinds with lineage; patterns with slots, wiring and ports; documents and their
references, states and relations; claims and what instances mint. Identifiers are
sequences of hyphen-separated segments, so that the joins which derive
identifiers keep their collisions. `IncrementalCompile` makes a
manifest's patterns into files, and is a caller that edits, relists and recompiles
with the parse cache of some earlier compile. Every derivation is also
defined a second time, declaratively, by the properties.

### ApplyOperations, WorkspaceCommit

`ApplyOperations` is `applyOperations` on concepts, relationships and
observations, and what its renames rest on: the positions an address can stand in
and the surgery that moves one. `WorkspaceCommit` runs batches at the granularity of file
operations: an `apply` process, the session's commit with pins and view writes,
and an editor that saves over anything; renames of files may fail.

### EditorState, EditorSession

The reducer, one operator per action; and the browser with its host. Over a
"socket" inputs and frames travel in two queues on a connection that can be lost;
a "local" host answers in the page. Every write of a file takes a new revision
(`clock`), which is what a digest stands for.

The workspace compiles when a session is opened on it; later compiles may fail
(`Recompiles`), since anybody may have left a document that does not. Then the last
good model stands, a diagnostic says so (`News`, silent for `RefreshHost`), a session
server freezes if a batch had landed, and a local host has no graph and refuses
queries. `Refuse` has every refusal: of a frozen server, with the word that it is; of
one that is on its way out, finds the sequence ahead of its journal or whose append
fails, without it (a choice of the model's, within `MaxEvents`); of a local host that
does not compile.

The conversation is `turn`, how many of the reviewer's inputs wait for the agent,
and `question`, the server's pending choice. The agent answers what is open or what
nobody asked, with words, an operation, a choice or a filter. A filter of the agent's
is matched in one step (`MatchChatFilter`, kept in `prepared`) and told in another
(`AgentFilters`), because the code matches it before it joins the admission chain.

What the properties look back at is history and read by no guard: `seen` in a row of the tray is the revision that was
on screen when the row was written and the one published for it; `landed` the rows
of the last landing with what they replaced; `sent` the commit not answered yet,
if any, and the connection it left on; `restored` what has moved under the filter
since a query was last asked: a filter put back by clearing a focus, a snapshot that
replaced the model or a lost connection, a query refused, an agent's filter matched
against a model replaced since (`late` in its frame), a model frame that found nothing
to ask again; `unheard` what a refused input took off the screen and nothing has
brought back.

### FoldTree, Projection, PageShell, ReadingSession

What a view selects, what contains what, which edges are drawn and lifted, which
gestures a right-click offers, what stands beside the canvas; and a person at the
page: picking views, focusing, filtering, folding, answering questions, drawing,
deleting, committing, while the store changes or stops compiling and the
embedding page moves its own pointer.

### Interrogation, Catalogues, QuestionVerbs

Catalogues composed from documents and overlays, evaluated over an index of the
graph; waves, gates, verdicts; the verb each open question is given.

### SignOffs, Workbook, Reconciliation, DerivedReports, Briefs, RecordKeeping

A document as lines, its commits, what git says of it; a workbook and its
three-way merge; observations against the model; registers, matrices and the
backlog; budgeted prose. `RecordKeeping` is one document over its life.

Operators introduced by a comment that begins with "Variant", or so named, are
not part of the model: each is a definition with a plausible mistake in it, which
the properties are known to catch when it takes the definition's place.

## 3. What is checked

| Run | Question | Answer |
|---|---|---|
| `journal` | Do caches, torn tails, throwing writes, crashes and retries stay invisible? | yes: `TypeOK`, `CacheCoherent`, `ConversationHolds`, `HandoffSettles`, and `KeepsPromise`, the refinement of `ConversationRecord` |
| `server_turns` | Do inputs, responses and long polls in every order lose, double or misreport a turn? And is a session whose browsers have all closed their sockets on the reconnect clock? | no: `TypeOK`, `NoMissedWakeup`, `NoLostTurn`, `BrowserIsToldTheTruth`, `QuestionIsStillOpen`; yes, but for the ghosts of `server_ghost`, which the property leaves out: `LeftSessionIsOnTheClock` |
| `server_end` | Do stops, End, the reconnect timer, a limit and failing file operations converge on one ending, and is it reached? | yes: `OneEnding`, `QuietAfterRecovery`, `NoPollOutlivesTheSession`, and under fairness `StopSettles`, `LimitEndsSession` |
| `directory` | Do starts, stops, prunes and kills leave something nobody can remove, or lose a record? | no: `MarkedWhileItMatters`, `StopsHandOver` |
| `compile` | Do the cache and the listing order matter, and is what comes out sound? | `CacheChangesNothing`, `ListingOrderIsIrrelevant`, `CompiledGraphIsSound` |
| `commit` | Can a batch overwrite what nobody read, land on what was not shown, or say more or less than its operations? | no, but for the window its property names: `OnlyTheWindowLosesAnUpdate`, `LandsOnWhatWasShown`, `AloneLandsWhole`, `BatchSaysWhatItDid`, `FreezeIsSomebodyElses` |
| `editor` | Does the tray survive reconnects, refusals, failed compiles and other writers, and does the screen settle? | yes, but for what the properties leave out by name: `RowsLandOnWhatWasShown`, `RowsLeaveOnlyByName`, `QuietScreenIsCurrent`, `NothingWaitsForNothing` |
| `reading` | Does the canvas tell the whole view once, do questions close by their own gesture, does the page follow the model? | `CanvasTellsTheView`, `FocusShowsTheBox`, `ExclusionIsFinal`, `AnswersClose`, `ShellFollowsTheModel` |
| `records` | Do sign-offs, reviews, imports, reports and the backlog agree with the document and each other? | `StaleWhenReworded`, `ReviewShowsEveryChange`, `ImportKeepsTheirs`, `ReadingsAgree`, `BuildOrderHolds` |

Further runs check something the repository says of itself that the code does
not do; `PROJECT.json` quotes the sentence under `findings`:

| Run | What happens |
|---|---|
| `server_ghost` | a socket closes while its connection is being journaled; the connection is then counted for good, and the reconnect timer is never armed |
| `commit_rename` | a subject is renamed that a `forbids` rule names: the rule keeps the old name and never matches again |
| `editor_views` | a view edited on disk is overwritten by a reviewer who never saw the edit: a recompile for somebody else's commit publishes the edited file's digest beside the content read before |

### Bounds

- `journal`: two sessions (one foreign), two event and one response identifier,
  two sequences, four calls with at most two in the chain, two faults, room for
  three lines. Two events are the least that can be out of order or doubled, a
  third call can be a retry or an end; two faults allow a torn tail and a crash
  during its repair.
- The server's runs have a budget (`MCSessionServer`) for what comes from
  outside. `server_turns` has two frames, responses and polls, so that one turn can
  be answered while another is open and a poll waits; `server_end` two stops and
  one fault, so that a failed stop is followed by a fresh one; `server_browsers`
  two sockets at a limit of one. `EventIds` bounds how many events one behaviour
  composes, and `RecordLimit` is above it.
- `directory`: two starts and two stops of which `Casts` says which take part, one
  session served, one day that passes, one fault: the least for two removals of
  one directory, one of them by a prune, with a kill between.
- `compile`: a profile, a pattern and two documents of two to six texts each, and
  a cache one compile behind. `commit`: one batch of each kind the operations
  distinguish, one save, and a document that is not there at first, so that what the
  manifest lists can change under a session.
- `editor`: one document of two fields, a view that is saved and one that is not yet,
  one event of somebody else's accord (a write, which may change the view's query; a
  refusal; a freeze; an unasked answer of the agent's; the session's end), one lost
  connection, and three gestures of rows, or two on views, on the screen or in the
  conversation: enough for a row, an undo and a commit, for a focus and its clearing,
  for two questions to cross or for a choice and its refusal, with the event and the
  loss anywhere between. A compile that fails costs no event. The two questions are
  interchangeable (`MCSymmetry`; no property tells them apart).
- `reading`: one small model of nested cells, three gestures for looking, two for
  changing, two by the embedding page's pointer, one commit, one frame missed.
  `records`: one repertoire a behaviour
  (signing, changing, exchanging, reporting), each gesture once or twice, a review
  capped at one neighbour, its prose under a budget of 14: enough that something is left
  out and something still fits.

Deadlock is not checked where the system really may stop: a session that is over,
spent gestures, a batch that landed.

### Fairness

`LiveSpec` assumes weak fairness of `Serve`, `BeginLimitFailure`, `Transition`
and `Removal`: the event loop gets to every callback that is ready, and each
file operation settles, one way or the other. That is what Node gives a process
that is alive. Nothing is assumed of browsers, agents, timers or repeated stops.
`StopSettles` therefore says that an attempt ends, removed or failed, and
`LimitEndsSession` that a limit always brings the session out of "running" and
its transition to an end, not that somebody then removes the directory. The other
modules assume no fairness: their properties are of safety.

## 4. What is proved

Each theorem holds for every value of its module's constants that satisfies the
named assumptions; the run of the same property shows it on one instance.
`PROJECT.json` lists them under `theorems` with the property each one states.

| Module | Theorems | Property |
|---|---|---|
| `SessionJournalProofs` | `TypeCorrect`, `CacheCorrect`, `ConversationCorrect`, `HandoffFinal` | `TypeOK`, `CacheCoherent`, `ConversationHolds`, `HandoffSettles` |
| | `Refinement` | `KeepsPromise`: the store implements `ConversationRecord` |
| `SessionServerProofs` | `EndingIsOne`, `RecoveredJournalIsFinal`, `PollsAreSettled`, `LeftSessionsTimeOut` | `OneEnding`, `QuietAfterRecovery`, `NoPollOutlivesTheSession`, `LeftSessionIsOnTheClock` |
| | `ConnectionsAreBounded` | visible connections never exceed the limit |
| | `PollsAreWoken`, `TurnsAreKept`, `BrowsersSeeTheConversation`, `OpenQuestionsStand`, `ServerTypeCorrect` | `NoMissedWakeup`, `NoLostTurn`, `BrowserIsToldTheTruth`, `QuestionIsStillOpen`, `TypeOK` |
| `SessionDirectoryProofs` | `MarksCorrect`, `HandoversComplete` | `MarkedWhileItMatters`, `StopsHandOver` |
| `IncrementalCompileProofs` | `CacheIsInvisible` | `CacheChangesNothing` |
| | `GraphsAreSound` | `CompiledGraphIsSound` |
| `WorkspaceCommitProofs` | `UpdatesAreLostInTheWindowOnly`, `CommitsLandOnPins` | `OnlyTheWindowLosesAnUpdate`, `LandsOnWhatWasShown` |
| | `LandsWhatPassed`, `FreezesAreSomebodyElses` | `AloneLandsWhole`, `FreezeIsSomebodyElses` |
| `EditorSessionProofs` | `RowsLandAsShown`, `NothingWaitsInVain`, `RowsStayPut` | `RowsLandOnWhatWasShown`, `NothingWaitsForNothing`, `RowsLeaveOnlyByName` |
| | `QuietScreenShowsTheModel` | `QuietScreenIsCurrent` |
| `ReadingSessionProofs` | `ExclusionHolds`, `FocusHolds`, `ShellHolds` | `ExclusionIsFinal`, `FocusShowsTheBox`, `ShellFollowsTheModel` |
| | `RailCountHolds` | `RailCountsTheView`, a conjunct of `CanvasTellsTheView` |
| | `PageStands` | `PageInv`, the invariant they rest on |

### The arguments

**Journal** (`RecordAssumption`, `JournalAssumption`). `SessionRecordsProofs` has
the facts about readings of a log: what appending one record does to the events,
responses, identifiers and ends in it, and that `StateOf` of the longer log is what
the store's in-place update computes (`CacheAfter`). None of the properties is
inductive: `IndInv` adds that the record being written is one its checks allow on
the log as it is (`BeingWritten`), which is what keeps the checks, made before an
await, true at the write. The refinement maps a write of a line to the abstract
append and everything else to a stutter or an acknowledgement.

**Server** (`RecordAssumption`, `ServerAssumption`). The ending needs `JournalInv`
(what is offered to the store is legal and only the transition writes the closing
record) and `EndInv` (how far the transition, the stop and the limit have come says
what may still reach the journal). The bound on connections needs that each
connection waiting in the chain holds a slot of its own (`SlotInv`).

The turn queue has an invariant of several parts, together `ServerInv`. `Carried`
says that the record on its way to the store is of the kind its entry makes.
`QueueInv` types the queue and the polls and carries `NoMissedWakeup`, which is
inductive once the choice of the next event is known to be the least. `TurnsTold`
ties what was acknowledged and marked answered to the journal, and `AnswersShown`
what the browser was shown; both rest on a log that only grows. `QuestionInv` says
where the kept question stands in the log. The other parts are types.
`QuestionIsStillOpen` is conditional on no append having thrown
because an append that throws can leave its line on disk without the server having
recorded it; then the question and the journal do differ.

**Directory** (`ProcessesAssumption`). `MarkedWhileItMatters` needs, for every
removal in progress, what its steps so far have taken out (`Emptied`), and that
nothing is put back behind it: a directory being made is nobody's target
(`Fresh`, `Targets`), and a record is appended only where a journal is, or to one
that was deleted under its writer (`Writing`). `StopsHandOver` follows a handoff
(`HandoverInvariant`): what the journal accepted is still in it, or was deleted
under its writer (`Journaled`); a runtime takes its handoff when nothing is being
appended and no admitted work can append again, and the removal recovers it before
it deletes anything, so it has everything accepted (`HandoffsWhole`); a closed
runtime's handoff is final, so what a stop was answered stays true, and a directory
found without its root is empty and is never made again (`Rooted`, `StopsKnow`).

**Parse cache.** Every entry of a cache is what its own text parses to, so an
entry with the text of the file is what parsing the file gives
(`CacheInvariant`). The proof uses nothing about the compiler but that it sees the
workspace through `parseSources`.

**Compiled graphs** (`VocabularyAssumption`, `SourcesAssumption`: the shape of the
package's own vocabulary and profiles, and what a well-formed source holds). Nothing but
the files is carried from one compile to the next, so the invariant of `GraphsAreSound`
says only what a file may hold; the work is about one compile. It yields a graph when no phase reported a fault
(`Faultless`). Then every document names a profile that resolved, so every declaration
is walked and its identifier is unique; every reference was looked up among the
declarations (`ConceptsResolve`, `RelationshipsResolve`), each kind of claim refers to
what was looked up, and the wires of an instance join the parts it mints or it
(`WiresJoin`). Identifiers are joined of segments, and two wires of one instance that
state the same triple are the same wire (`WiresStandAlone`); the identifier of every
relationship that is written is one the documents declare, so the property can tell
who wrote an edge. What the compiler joins with `FlattenSeq` is shown once to be the
elements of what was joined (`FlattenedElements`).

That every relationship is permitted is judged by the compiler in three places and by
three accounts of a kind: an author's by the kind its document declares, a wire's once
and for all by the kinds of the pattern's slots, a landing's by what fills a slot. That
a wire stays permitted when a slot is bound to a descendant (`BoundKindsFit`) needs that
a kind has the core kind of every kind it descends from (`KindsHold`), whatever
profiles, in whatever order, declared it. `VocabularyHolds` and `NamingHolds` are the
invariants of the loops over profiles and over the kinds of one, and `ShapesHold` that
of the loop over patterns. The loops are folds, and folds within folds; what a fold
keeps is shown once (`FoldKeeps`), for a step named by a record, again by the least
length for which it would fail. What remains is that the three accounts agree: the graph
states one kind of a subject, and it is the one its declaration has (`KindsAreStated`).

**Commit** (`WorkspaceAssumption`, `BatchAssumption`). `CommitInvariant` says of
each writer on its own (`Good`) how far it is (`RunShape`), that what it is about to
compare with is what it read or what was changed since by a named writer
(`Window`), and that the session's writes over vouched documents carry their pins
(`Reviewed`, from `ReaderKnows` and `WritesOnPins`). A step of one writer disturbs
another only through `files` and `others`. The attempt to prove the first property
without its third disjunct failed for a reason: a batch with a rename and a staged
write of a view that names the renamed subject writes one path twice
(`session-server.ts`, the view rewrites beside the staged views, and `writeAll`),
and its second write compares with contents the first has replaced.

What an undisturbed batch leaves on the disk (`LandsWhatPassed`,
`FreezesAreSomebodyElses`) needs `LandingInvariant`, one conditional fact for each
stage of a writer nobody disturbs: while it reads, what it has read is the disk and
what it has not is still to be read; while it writes, what is to be written is a
staging that passed the gates, and the disk is what was read with the first writes on
it; when it has landed, the disk is that staging. The staging is a fold over the
batch's operations; that every number of operations has one, and that it changes only
what it says it touched, is shown by the least number that would not (`FewestOf`), since
induction is out of the prover's reach. Both theorems assume
`NoFileIsNoFile`: a file in which an address is renamed is still a file. It is a
hypothesis and no `ASSUME`, because TLC has a model value for the absent file and
cannot ask it for its domain; it can fail only for a choice of `NoFile` that is itself a
document. The proof of the second is what showed that the property was false as it
stood: the session compiles the files it resolved when it started
(`ResolvedStill`, see section 5).

**Editor** (`PathsAssumption`, `NoneAssumption`). A *reading* says of each path
which revision somebody knows: the disk, the host's model and views, every frame
on its way, the screen, the rows of the tray, the pins of a commit on its way.
Revisions only grow, frames arrive in the order they were compiled, and what is
nearer the screen is older. So a pin is at most what was shown when its row was
written, which is at most what the disk holds (`Clocked`, `ModelsHold`,
`TrayHolds`, `CommitsHold`); where the server finds the pin equal to the disk, the
one between is equal too. `PinsVouchForTheirRows`, part of the property, says that
every changeset that can be put back into the tray by undo, redo or a refusal
still carries a pin for exactly what it targets. A file put back byte for byte
counts as changed, which the code would not notice and would be right not to.

What a dead control waits for is a matter of accounts (`AccountsInv`). There are
three matters: a turn, a question, a commit. Whatever the browser waits for, or will
when a snapshot on its way has arrived, is still the host's to do, or an input of
this connection's is on its way that will have the host do it, or a frame behind
that snapshot settles it (`Account`). A step of the host's may leave a matter undone
only if it says so in a frame. A refusal is such a frame: it settles the matter, since
what the reducer does not give back then is from there on in `unheard`, and waited for
no more until a snapshot or the agent makes up for it. The accounts need that at most one commit or verdict
is on its way (`OneCommit`): an answer to an earlier commit would otherwise be taken
for one to the next. With `sent`, which says on which connection the last commit
left, the same fact shows that the tray is emptied only for a commit of this
browser's, which is what `RowsLeaveOnlyByName` has left to prove once the reducer's
other transitions are seen to keep the rows.

What the canvas shows at rest (`QuietScreenShowsTheModel`) needs `ScreenInv`, about the
frames on their way. `Known`: there is a course of documents from those on screen to
the host's, one step for each frame that carries a model, and the answer to a query
was matched against the documents that will be on screen when it arrives; it holds
because answers and models go out in the order they were computed and arrive in it.
`Matching`: a filter shows the documents on screen, or a query of this connection's or
an answer is on its way, after which it will; so a model frame that asks nothing again
may be handled only when there is no filter. `Showing`: the last query on its way, or
the last answer when none is, carries the query the active view is listed with
(`LastAsked`), unless something moved that asks nothing (`restored`). A query is
answered or refused, so both are about a screen on which no query was refused: a
refusal is neither in `restored` nor on its way (`Off`). An answer of the agent's is
held to the documents on screen unless it is `late` (`Dated`), and the frames that
carry no model, diagnostics among them, leave the course of documents alone
(`NewsShows`, `Volunteered`). `Places`
says where the reviewer can be: a view of the list on screen, and a list that only
grows while nobody deletes views (`Grows`), or, for a reviewer who stages rows instead
of looking around, the view the session opened on. TLC checked the invariant on the bounds of
the run and on larger ones before it was proved. The proof showed that `Initial` has to
be a view path, which `PathsAssumption` now says: `request.ts` refuses a session whose
`initialView` is none of the workspace's; a local host opened on a workspace without
views is not modelled. Like the theorems on reading, this one assumes `NoneHasNoQuery`.

**Reading** (`StoreAssumption`, `FreshIdsAssumption`). `PageInv` says of the page that
what is matched is the answer to the query on screen over the model on screen
(`Answered`, while the store compiles; a refused answer leaves the one before); that
the filter is the active view's or somebody's own (`Attributed`); what a focus puts
back when it is cleared was the page's to have (`LeadsBack`) and under what nesting it
was taken (`Focuses`); and that the effect which applies the active view has run and
would change nothing if it ran again (`Settled`). The last is what makes a change of
the page's views harmless: without it a frame could change the query under a filter
taken from the view before. `ExclusionIsFinal` is claimed while the store compiles: a
store that stops compiling refuses the query of a view picked then, and what the
canvas shows is the last answer to another. `ShellInv` says that what stands beside
the canvas is of the model on screen. A step that adds a subject has an identifier left
to give it (`idsLeft`, the one bound of the model the proof meets). The theorems assume
`NoneHasNoQuery`: no record with a query is the value that stands for none, which is
so for any value TLC is given, and which TLC cannot evaluate.

### What is model-checked only, and why

- *Liveness*: `StopSettles`, `LimitEndsSession`. Fairness is out of the prover's
  reach.
- *Equivalences of recursions*: `ListingOrderIsIrrelevant` and the two conjuncts of
  `CanvasTellsTheView` on folds, `BatchSaysWhatItDid` (that the compiler commutes with
  a renaming), `AnswersClose`, and those of `records`. They compare what two recursions or folds over documents compute, which takes induction
  over data.

## 5. Where the code says one thing and does another

Met while modelling; what is not marked as a finding is either modelled as it is
and left out of a property by name, or outside the bounds of a run.

*Session server.* After an append that threw once its line was on disk,
`lastSequence` stays behind and the store refuses every later event; the retry of
such a response is acknowledged as a duplicate and was never broadcast. The report
of a failed refresh answers an event that was never journaled. A connection
journaled after a stop closed the sockets it knew stays open.

*Directory.* The client discards the handoff its own removal recovers when the
stop request was not answered (client.ts:682, against the comment at 645-655). A
repeated stop is refused unless the stopped marker exists (client.ts:215).
`createVisualSession` failing after its first directory leaves an unmarked one
nothing removes. A prune measures all candidates first and deletes then. An
append looks at the journal and opens it later, and so can make a deleted one
again. After the descriptor is gone only a prune can collect the session.

*Compiler.* The rules a profile forbids are not applied to minted edges
(compiler.ts:2528, ADR 0108). One file linked twice in a category is listed twice.

*Commit.* The finding of `commit_rename`: `SUBJECT_REFERENCE_POSITIONS` has no
position for `forbids` (subject-references.ts:41, against 3-7); `BatchSaysWhatItDid`
speaks of the graph, in which rules have no part. Addresses within hexadecimal claim
aspects are not moved by a rename either. A view-only commit passes no gate and freezes
on what somebody else broke (session-server.ts:1901, against 1883). A batch is planned
on the files the manifest lists now (1790), the recompile behind it takes those
resolved when the session started (679): with a document added meanwhile that the batch
refers to, a commit that passed its gates freezes the session, though nothing was
changed under it; `FreezeIsSomebodyElses` leaves that out as `ResolvedStill`. Two processes
can each validate against what the other replaces (write skew). `writeAll` that
throws leaves the earlier files landed. The local host compares no pins
(local-host.ts:358).

*Editor.* The finding of `editor_views`. Only a model frame asks the standing filter
again: a ready frame replaces the model too (state.ts:1101, against
session-client.tsx:112-119), so after a reconnect the canvas keeps what the filter
matched in the model before, and a subject created meanwhile stays hidden. Nor is
anything asked while no filter stands (state.ts:1104): a change to the view's own
query that lands before the view's first answer is followed by the answer to the
query from before, against state.ts:1105-1110. `changeset.committed` empties rows staged after the commit left. A commit
sent on a closed socket, or whose answer is lost, leaves "committing" until a
reload. A filter put back by clearing a focus is asked by nobody. A query asked on a
connection that is then lost is not asked on the next. A query that is refused leaves
the filter that stood, under whatever view is active by then: with a local host this
takes a compile that failed and a pick (local-host.ts:575), and when the workspace
compiles again the filter is asked anew only by the next model frame; with a session
server a failed append (session-server.ts:1655, 2032). A message, choice, hand-over or
end takes the question off the screen when it is sent (state.ts:562-602, 652), and
`input.refused` does not bring it back (state.ts:627-651): after a refusal without
freezing the server's question stays pending and off the screen until a reload. A
refused hand-over of an open question leaves the composer it closed closed for good
(against state.ts:628-630, "whatever control was disabled while it was in flight has to
be retired here"). The agent's filter is matched before it joins the admission chain
(session-server.ts:2250): a commit ahead of it replaces the graph, the response follows
the model frame and nothing asks again, so it highlights other subjects than the same
query from the panel would (against 2226-2229). All of these the two properties of the
screen leave out by name. An agent's proposal replaces the reviewer's row of the same field. The
model assumes that a render follows every frame.

*Canvas and questions.* The folds saved with a view's layout are written and never
applied: the view comes back with its own (App.tsx:1641, against
workspace-state.ts:621). `subject.unfold-all` wipes every other box's override. A
fold tree's common ancestors depend on the order of a round. A view silent on
`showResponsibility` keeps the flag on and asks with it off. `explain` and
`evaluate` disagree under connected isolation. `canonicalProjection` drops
`folder`; `any` draws outgoing only; the linkage verb ignores counterpart kinds;
the incoming `missing-reference` is given a verb its own panel cannot carry out. A
"describe" verb shuts the properties it means to open when they were shut
(App.tsx:1939, against 1931). The embedding page can start a tool while a deletion
is being confirmed. The report's "not supplied" note reads triggers only, so a
wave whose gate reads withheld evidence stays shut without one.

*Records.* Deleting the line right after a name marks its sign-off stale, and
deleting a description that is not adjacent does not. `--changed a..b` diffs two
commits and takes spans from the working tree. A sign-off covers what was committed
later that day. Dependents of a cycle are marked as of it. The matrix counts a
retired realizer as a gap, the question is closed by it. Re-importing a workbook
whose added row landed, or one whose row was deleted meanwhile, refuses the whole
import. Two profiles' equal local kind names become one in a workbook. A second
attestation of one topic repeats the claim's id.

## 6. What is not modelled, and why

- *Session server*: start-up, authentication, assets, layout of frames: no state
  the properties speak of. *Several runtimes on one journal*: the code starts one
  per session.
- *Compiler and commit*: YAML schemas, the text of claims, the splicing of YAML,
  alias spellings: each is a text conversion; what the code decides by them is
  modelled on parsed values. Real paths and links are the identity of a file in
  one loader only; a store has none.
- *Browser*: transcript, layout sidecars, panel sizes, the tree, the bottom panel,
  rename dialogs, decorations; read-only pages.
- *Records*: adapters' formats, wording, spreadsheet encoding. Comparison of two
  states, orientation, slices of advice, artifact coverage,
  adapter mappings and the loading of a catalogue are modelled as operators and
  used by no run's property.
- *Presentation, generated tables, exporters, argument parsing*: no state.

## 7. Plan

1. Proofs: the theorems about the data algorithms of `records` that need no
   induction; a reviewer who both looks around and stages rows, for
   `QuietScreenShowsTheModel`.
2. Models: the wait and recover commands of the client; layout sidecars as a
   fourth kind of row; two sessions on one workspace.
