----------------------------- MODULE EditorState -----------------------------
(***************************************************************************)
(* The state of the editor in the browser: the pure reducer of             *)
(* src/visual-app/state.ts, one operator per action, and the changeset     *)
(* tray it keeps.  Nothing happens here: EditorSession decides when.       *)
(*                                                                         *)
(* A document or a saved view is known by its path.  Each write of a file  *)
(* gives it a new revision, which stands for its digest, and for the       *)
(* content of a document.  A view is [title, query, revision], its query   *)
(* [listed, names]: the subjects of a view that enumerates them, or the    *)
(* exceptions of one that does not.                                        *)
(***************************************************************************)
EXTENDS Naturals, Sequences, SequencesExt, FiniteSetsExt

CONSTANTS Documents,    \* paths of the model's documents
          ViewPaths,    \* paths a saved view may have
          Initial,      \* the view a session opens on
          None          \* nothing: no content, no view, no filter, no model

ASSUME PathsAssumption ==
  Documents \cap ViewPaths = {} /\ Initial \in ViewPaths /\ None \notin Documents \cup ViewPaths

Paths == Documents \cup ViewPaths

NoPins == [p \in {} |-> None]
EmptyChangeset == [operations |-> {}, viewOperations |-> {}, pins |-> NoPins]

changesetIsEmpty(changeset) == changeset.operations = {} /\ changeset.viewOperations = {}

(***************************************************************************)
(* What the tray stages: at most one row per field of a document and one   *)
(* per view, so each list is the set of its rows.  `seen` is not the       *)
(* program's: it remembers the content that was on screen when the row was *)
(* written, `shown`, and the digest the model published for it.            *)
(***************************************************************************)
DigestIn(model, path) == IF model = None THEN None ELSE model.digests[path]

SeenDocument(s, path) ==
  [shown |-> DigestIn(s.model, path), published |-> DigestIn(s.model, path)]

SeenView(s, path) ==
  [shown |-> IF s.views[path] = None THEN None ELSE s.views[path].revision,
   published |-> DigestIn(s.model, path)]

Operation(path, field, seen) == [path |-> path, field |-> field, seen |-> seen]

WriteView(path, projection, seen) ==
  [path |-> path, op |-> "write-view", projection |-> projection, seen |-> seen]

DeleteView(path, seen) ==
  [path |-> path, op |-> "delete-view", projection |-> None, seen |-> seen]

RowPaths(operations, viewOperations) ==
  {row.path : row \in operations \cup viewOperations}

Projected(view) == [title |-> view.title, query |-> view.query]

(***************************************************************************)
(* The digests a staged set vouches for.                                   *)
(***************************************************************************)
PinnedAfreshVariant(operations, viewOperations, previous, model) ==
  LET held == [p \in RowPaths(operations, viewOperations) |-> DigestIn(model, p)]
  IN  [p \in {q \in DOMAIN held : held[q] # None} |-> held[p]]

PinnedDigests(operations, viewOperations, previous, model) ==
  LET held == [p \in RowPaths(operations, viewOperations) |->
                 IF p \in DOMAIN previous THEN previous[p] ELSE DigestIn(model, p)]
  IN  [p \in {q \in DOMAIN held : held[q] # None} |-> held[p]]

Restage(changeset, model, operations, viewOperations) ==
  [operations |-> operations, viewOperations |-> viewOperations,
   pins |-> PinnedDigests(operations, viewOperations, changeset.pins, model)]

(***************************************************************************)
(* A view told which subjects it holds.                                    *)
(***************************************************************************)
Holds(query, subject) == Contains(query.names, subject) <=> query.listed

Told(query, subject) ==
  [query EXCEPT !.names = IF Contains(@, subject)
                          THEN SelectSeq(@, LAMBDA name : name # subject)
                          ELSE Append(@, subject)]

withMembership(projection, subject, membership) ==
  IF Holds(projection.query, subject) <=> (membership = "add")
  THEN None
  ELSE [projection EXCEPT !.query = Told(@, subject)]

-----------------------------------------------------------------------------
initialVisualAppState ==
  [lifecycle |-> "connecting", model |-> None,
   views |-> [p \in ViewPaths |-> None], activeView |-> None,
   activeFilter |-> None, focusReturn |-> None,
   choices |-> None, awaitingAgent |-> FALSE, frozen |-> FALSE,
   pending |-> EmptyChangeset, undo |-> <<>>, redo |-> <<>>,
   committing |-> FALSE]

composerOpen(s) == s.lifecycle = "active" /\ ~s.frozen /\ ~s.awaitingAgent

TurnAnswered(s) == [s EXCEPT !.awaitingAgent = FALSE]

SessionLoadedEmptiedVariant(s, snapshot) ==
  [s EXCEPT !.lifecycle = IF @ = "ending" THEN "ending" ELSE "active",
            !.model = snapshot.model, !.views = snapshot.views,
            !.activeView = snapshot.model.initialView,
            !.choices = snapshot.choices, !.frozen = snapshot.frozen,
            !.awaitingAgent = snapshot.agentTurnOpen,
            !.pending = EmptyChangeset, !.undo = <<>>, !.redo = <<>>]

SessionLoaded(s, snapshot) ==
  [s EXCEPT !.lifecycle = IF @ = "ending" THEN "ending" ELSE "active",
            !.model = snapshot.model, !.views = snapshot.views,
            !.activeView = snapshot.model.initialView,
            !.choices = snapshot.choices, !.frozen = snapshot.frozen,
            !.awaitingAgent = snapshot.agentTurnOpen]

ModelReceived(s, model, views) == [s EXCEPT !.model = model, !.views = views]

ChatSent(s) == [s EXCEPT !.choices = None, !.awaitingAgent = TRUE]

ChoicePresented(s, choice) == TurnAnswered([s EXCEPT !.choices = choice])

ViewNavigated(s, view) ==
  IF s.activeView = view THEN s
  ELSE [s EXCEPT !.activeView = view, !.focusReturn = None]

InputRefusedQuietVariant(s, refused, frozen) ==
  [s EXCEPT !.frozen = @ \/ frozen,
            !.committing = @ /\ refused # "changeset.commit"]

InputRefused(s, refused, frozen) ==
  [s EXCEPT !.frozen = @ \/ frozen,
            !.committing = @ /\ refused # "changeset.commit",
            !.awaitingAgent = @ /\ refused \notin {"chat.message", "choice.selected"}]

EndRequested(s) == [s EXCEPT !.lifecycle = "ending", !.choices = None]

ConnectionLost(s) == [s EXCEPT !.lifecycle = "disconnected"]

SessionClosed(s) == [s EXCEPT !.lifecycle = "closed"]

-----------------------------------------------------------------------------
(***************************************************************************)
(* The standing filter: its query, what it matched and who asked.          *)
(***************************************************************************)
FromTheView(source) == source \in {"view", "editor"}

Anchor(s) == [activeView |-> s.activeView, activeFilter |-> s.activeFilter]

FilterApplied(s, query, matched, source) ==
  [s EXCEPT
     !.focusReturn = IF source # "focus" THEN None
                     ELSE IF s.activeFilter # None /\ s.activeFilter.source = "focus"
                     THEN @ ELSE Anchor(s),
     !.activeFilter = [query |-> query, matched |-> matched, source |-> source],
     !.activeView = IF FromTheView(source) THEN @ ELSE None]

FilterCleared(s) ==
  IF s.focusReturn # None
  THEN [s EXCEPT !.activeFilter = s.focusReturn.activeFilter,
                 !.activeView = s.focusReturn.activeView, !.focusReturn = None]
  ELSE [s EXCEPT !.activeFilter = None, !.activeView = None]

ListedView(views, view) == view \in ViewPaths /\ views[view] # None

(***************************************************************************)
(* The query to ask again once a `model` frame has been applied: the       *)
(* standing one, or the view's own as the frame states it.                 *)
(***************************************************************************)
FilterToReresolveHeldVariant(frame, s) ==
  IF frame.kind # "model" \/ s.activeFilter = None THEN None
  ELSE [source |-> s.activeFilter.source, query |-> s.activeFilter.query]

FilterToReresolve(frame, s) ==
  IF frame.kind # "model" \/ s.activeFilter = None THEN None
  ELSE [source |-> s.activeFilter.source,
        query  |-> IF FromTheView(s.activeFilter.source) /\ ListedView(frame.views, s.activeView)
                   THEN frame.views[s.activeView].query ELSE s.activeFilter.query]

ViewNeedingApplication(s, applied, connected) ==
  IF connected /\ s.activeView # applied /\ ListedView(s.views, s.activeView)
  THEN s.activeView ELSE None

-----------------------------------------------------------------------------
(***************************************************************************)
(* The changeset tray.                                                     *)
(***************************************************************************)
Staged(s, operations, viewOperations) ==
  [s EXCEPT !.pending = Restage(@, s.model, operations, viewOperations),
            !.undo = Append(@, s.pending), !.redo = <<>>]

ChangesetStaged(s, path, field) ==
  LET others == {row \in s.pending.operations : ~(row.path = path /\ row.field = field)}
  IN  Staged(s, others \cup {Operation(path, field, SeenDocument(s, path))},
             s.pending.viewOperations)

OtherViews(s, path) == {row \in s.pending.viewOperations : row.path # path}

ChangesetViewStaged(s, row) ==
  Staged(s, s.pending.operations, OtherViews(s, row.path) \cup {row})

(* The document a membership edit is composed on: the row already staged,  *)
(* or the saved view.                                                      *)
PendingWrites(s, view) ==
  {row \in s.pending.viewOperations : row.path = view /\ row.op = "write-view"}

ComposedOn(s, view) ==
  IF PendingWrites(s, view) = {}
  THEN WriteView(view, Projected(s.views[view]), SeenView(s, view))
  ELSE CHOOSE row \in PendingWrites(s, view) : TRUE

Amended(s, view, base, projection) ==
  Staged(s, s.pending.operations,
         IF projection = Projected(s.views[view]) THEN OtherViews(s, view)
         ELSE OtherViews(s, view) \cup {[base EXCEPT !.projection = projection]})

ChangesetViewMembership(s, view, subject, membership) ==
  IF ~ListedView(s.views, view) THEN s
  ELSE LET base == ComposedOn(s, view)
           amended == withMembership(base.projection, subject, membership)
       IN  IF amended = None THEN s ELSE Amended(s, view, base, amended)

ChangesetDiscarded(s, row) ==
  Staged(s, s.pending.operations \ {row}, s.pending.viewOperations \ {row})

ChangesetCleared(s) ==
  IF changesetIsEmpty(s.pending) THEN s
  ELSE [s EXCEPT !.pending = EmptyChangeset, !.undo = Append(@, s.pending), !.redo = <<>>]

ChangesetUndone(s) ==
  IF s.undo = <<>> THEN s
  ELSE [s EXCEPT !.pending = Last(s.undo), !.undo = Front(@), !.redo = Append(@, s.pending)]

ChangesetRedone(s) ==
  IF s.redo = <<>> THEN s
  ELSE [s EXCEPT !.pending = Last(s.redo), !.redo = Front(@), !.undo = Append(@, s.pending)]

ChangesetCommitSent(s) == [s EXCEPT !.committing = TRUE]

ChangesetCommitted(s) ==
  [s EXCEPT !.pending = EmptyChangeset, !.undo = <<>>, !.redo = <<>>, !.committing = FALSE]

ApplyFailed(s) == [s EXCEPT !.committing = FALSE]

-----------------------------------------------------------------------------
(***************************************************************************)
(* One server frame as what it does to the state.                          *)
(***************************************************************************)
Responded(s, frame) ==
  CASE frame.type = "chat.response" ->
         IF frame.query = None THEN TurnAnswered(s)
         ELSE FilterApplied(TurnAnswered(s), frame.query, frame.matched, "chat")
    [] frame.type = "choice.present" -> ChoicePresented(s, frame.choice)
    [] frame.type = "diagnostic" -> TurnAnswered(s)
    [] frame.type = "operations.propose" -> ChangesetStaged(TurnAnswered(s), frame.path, frame.field)

Transition(s, frame, origin) ==
  CASE frame.kind = "ready"         -> SessionLoaded(s, frame.snapshot)
    [] frame.kind = "model"         -> ModelReceived(s, frame.model, frame.views)
    [] frame.kind = "rejected"      -> InputRefused(s, frame.refused, frame.frozen)
    [] frame.kind = "closing"       -> SessionClosed(s)
    [] frame.kind = "filter-result" -> FilterApplied(s, frame.query, frame.matched, origin)
    [] frame.kind = "apply-result"  -> IF frame.ok THEN ChangesetCommitted(s) ELSE ApplyFailed(s)
    [] frame.kind = "response"      -> Responded(s, frame)

visualAppReducer(s, next) == IF s.lifecycle = "closed" THEN s ELSE next
=============================================================================
