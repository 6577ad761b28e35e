---------------------------- MODULE ReadingSession ----------------------------
(***************************************************************************)
(* One person reading and changing a model in the page, over the host that *)
(* runs in the page itself: every input is answered before the next one.   *)
(* Views, focuses and filters narrow the canvas, boxes are folded, and     *)
(* open questions offer the gesture that answers them.                     *)
(*                                                                         *)
(* `page` is the reducer's state (EditorState's operators act on its       *)
(* model, views and filter) with what the workspace reducer and the        *)
(* component hold beside it: `extras` is what was last asked beside a      *)
(* query, `applied` the view whose presentation has been applied, the      *)
(* board is nesting, foldMode, folded, unfolded and showResponsibility,    *)
(* then the quick filter's text.  `shell` is the rest of the workspace     *)
(* reducer (PageShell).                                                    *)
(***************************************************************************)
EXTENDS PageShell

CONSTANTS OpeningGraph, Memberships, OpeningViews,  \* what the store holds when the page opens
          CarriedCatalogues,                        \* the catalogues of the workspace
          ElsewhereGraph,                           \* what another writer leaves in the store
          Texts, NewKinds, RelationKinds, Predicates,  \* what a person may pick
          MaxGestures, MaxCommits, MaxMissed        \* bounds, the first per repertoire

ASSUME BoundsAssumption ==
  /\ DOMAIN MaxGestures \subseteq {"looking", "changing", "pointing"}
  /\ \A r \in DOMAIN MaxGestures : MaxGestures[r] \in Nat
  /\ MaxCommits \in Nat /\ MaxMissed \in Nat

\* What compiles joins concepts, under ids no two subjects share; a view is a query and how it is shown.
IsGraph(graph) ==
  /\ DOMAIN graph = {"concepts", "relationships"}
  /\ DOMAIN graph.concepts \cap DOMAIN graph.relationships = {}
  /\ \A r \in DOMAIN graph.relationships :
       /\ {"from", "to"} \subseteq DOMAIN graph.relationships[r]
       /\ {graph.relationships[r].from, graph.relationships[r].to} \subseteq DOMAIN graph.concepts

AreViews(views) ==
  /\ DOMAIN views = ViewPaths
  /\ \A v \in ViewPaths : views[v] # None => DOMAIN views[v] = {"query", "presentation"}

ASSUME StoreAssumption == IsGraph(OpeningGraph) /\ IsGraph(ElsewhereGraph) /\ AreViews(OpeningViews)

VARIABLES page,
          shell,      \* what is selected, the tool in hand, the dialogs, the column
          compiled,   \* whether the store's sources compiled when last read
          saved,      \* the fold state each view's layout file holds, which nothing reads back
          answering,  \* the row whose verb was run last, with what it is to close
          gestures, commits,
          repertoire  \* which gestures this behaviour is made of

vars == <<page, shell, compiled, saved, answering, gestures, commits, repertoire>>

-----------------------------------------------------------------------------
(***************************************************************************)
(* What the page derives at every render.                                  *)
(***************************************************************************)
ModelOf(graph) == [graph |-> graph, memberships |-> Memberships]

Everything(graph) == DOMAIN graph.concepts \cup DOMAIN graph.relationships

TreeOf(p) == foldTree(p.model.graph, p.model.memberships, p.nesting)

FoldedIn(p, parentOf) == FoldedBoxes(parentOf, p.foldMode, p.folded, p.unfolded)

SceneFrom(p, tree) ==
  canvasSceneInput(p.model.graph, tree, FoldedIn(p, tree.parentOf), p.showResponsibility)

Scene(p) == SceneFrom(p, TreeOf(p))

Matched(p) == IF p.activeFilter = None THEN Everything(p.model.graph) ELSE p.activeFilter.matched

Canvas(p) == resolveCanvasScene(Scene(p), Matched(p), p.text)

OpenRows(p) ==
  interrogationOverlayOf(indexGraph(p.model.graph, p.model.memberships, {}, {}),
                         CarriedCatalogues, {})

activeViewMembership(p) ==
  IF ~ListedView(p.views, p.activeView) THEN {}
  ELSE LET query == p.views[p.activeView].query
       IN  {[enumerated |-> "subjects" \in DOMAIN query,
             names |-> IF "subjects" \in DOMAIN query THEN query.subjects
                       ELSE Option(query, "exclude", {})]}

MenuContextFrom(p, parentOf) ==
  [graph |-> p.model.graph, activeView |-> p.activeView, filtered |-> p.activeFilter # None,
   membership |-> activeViewMembership(p), folded |-> FoldedIn(p, parentOf),
   containers |-> Boxes(parentOf),
   instances |-> {p.model.memberships[i].instance : i \in DOMAIN p.model.memberships},
   rows |-> OpenRows(p)]

MenuContext(p) == MenuContextFrom(p, TreeOf(p).parentOf)

(***************************************************************************)
(* What can be right-clicked: what is drawn, any row of the rail, which    *)
(* lists the views there are, and the blank canvas.                        *)
(***************************************************************************)
OnCanvas(id) == [kind |-> "subject", id |-> id]
OnEdge(r) == [kind |-> "relationship", id |-> r]
InRail(id) == [kind |-> "model-row", id |-> id]
OnView(view) == [kind |-> "view-row", view |-> {view}]
Blank == [kind |-> "canvas"]

IsReachable(p, target) ==
  CASE target.kind = "subject" -> target.id \in Canvas(p).nodes
    [] target.kind = "relationship" -> PlainEdge(p.model.graph, target.id) \in Canvas(p).edges
    [] target.kind = "view-row" -> \A view \in target.view : ListedView(p.views, view)
    [] OTHER -> TRUE

Offered(target, intent) ==
  intent \in contextMenuFor(target, MenuContext(page)) /\ IsReachable(page, target)

-----------------------------------------------------------------------------
(***************************************************************************)
(* Asking the host.  A query goes out with the nesting and the             *)
(* responsibility flag it is to be read with; a store whose sources do not *)
(* compile refuses it, and what stood goes on standing.                    *)
(***************************************************************************)
Answer(p, query, extras) ==
  evaluateProjection(p.model.graph, p.model.memberships,
                     [query |-> query, presentation |-> extras])

Filter(p, query, source, extras) ==
  LET asked == [p EXCEPT !.extras = extras]
  IN  IF compiled THEN FilterApplied(asked, query, Answer(p, query, extras), source) ELSE asked

DeclaredExtras(presentation) ==
  Restrict(presentation, DOMAIN presentation \cap {"nesting", "showResponsibility"})

\* The number beside a view in the rail: the subjects its query selects, read its own way.
conceptCountOf(p, view) ==
  Cardinality(Answer(p, view.query, DeclaredExtras(view.presentation)) \cap DOMAIN p.model.graph.concepts)

BoardExtras(p) == [nesting |-> p.nesting, showResponsibility |-> p.showResponsibility]

\* A field the view leaves out is restored to its default, but the flag is left as it was.
presentationActionsFor(p, presentation) ==
  [p EXCEPT !.nesting = Option(presentation, "nesting", <<"composition">>),
            !.foldMode = Option(presentation, "fold", "none"),
            !.folded = {}, !.unfolded = {},
            !.showResponsibility = Option(presentation, "showResponsibility", @)]

AppliedView(p, view) ==
  presentationActionsFor(
    [Filter(p, view.query, "view", DeclaredExtras(view.presentation))
       EXCEPT !.applied = p.activeView],
    view.presentation)

\* The effect that follows every render.
Rendered(p) ==
  IF p.activeView = None THEN [p EXCEPT !.applied = None]
  ELSE IF ViewNeedingApplication(p, p.applied, TRUE) = None THEN p
  ELSE AppliedView(p, p.views[p.activeView])

(***************************************************************************)
(* A model frame: the standing query is asked again, under what it was     *)
(* last asked with.                                                        *)
(***************************************************************************)
ReaskedBareVariant(p, stale) ==
  IF stale = None THEN p
  ELSE FilterApplied(p, stale.query, Answer(p, stale.query, [f \in {} |-> None]), stale.source)

Reasked(p, stale) ==
  IF stale = None THEN p
  ELSE FilterApplied(p, stale.query, Answer(p, stale.query, p.extras), stale.source)

ModelFrame(p, graph, views) ==
  Reasked(ModelReceived(p, ModelOf(graph), views),
          FilterToReresolve([kind |-> "model", views |-> views], p))

-----------------------------------------------------------------------------
(***************************************************************************)
(* Gestures that only read.  Each goes through the menu that offers it,    *)
(* and a click anywhere else closes a menu that stands open.  A dialog     *)
(* that asks takes the next click.                                         *)
(***************************************************************************)
pendingViewDelete == shell.viewDeletion # None /\ ListedView(page.views, shell.viewDeletion)

IsAsking == shell.deletion # None \/ pendingViewDelete

Moves(next, d) ==
  /\ gestures < MaxGestures[repertoire]
  /\ gestures' = gestures + 1
  /\ page' = next
  /\ shell' = d
  /\ UNCHANGED <<compiled, commits, repertoire>>

Gesture(next) == ~IsAsking /\ Moves(Rendered(next), MenuDismissed(shell))

Reads(target, intent, next) ==
  /\ gestures < MaxGestures[repertoire]
  /\ Offered(target, intent)
  /\ Gesture(next)
  /\ UNCHANGED <<saved, answering>>

Navigate(view) == Reads(OnView(view), <<"view.open", view>>, ViewNavigated(page, view))

ShowAll == Reads(Blank, <<"view.clear">>, FilterCleared(page))

\* The two ways of looking near a subject, and the ends of a relationship.
focusNeighbourhood(graph, id) == {id} \cup EndsOf(graph, Touching(graph, id))

Focused(query) == Filter(page, query, "focus", BoardExtras(page))

FocusSubject(id) ==
  Reads(OnCanvas(id), <<"subject.focus", id>>,
        Focused([subjects |-> focusNeighbourhood(page.model.graph, id), relationships |-> "between"]))

FocusRelationship(r) ==
  Reads(OnEdge(r), <<"relationship.focus", r>>,
        Focused([subjects |-> EndsOf(page.model.graph, {r}), relationships |-> "between"]))

FocusInstance(id) ==
  Reads(InRail(id), <<"subject.focus-instance", id>>,
        Focused([instances |-> {id}, relationships |-> "between"]))

\* The view's query, edited on the canvas: the view goes on being the one named.
EditFilter(id) ==
  /\ ListedView(page.views, page.activeView)
  /\ LET query == page.views[page.activeView].query
     IN  Gesture(Filter(page, Including(query, "exclude", Option(query, "exclude", {}) \cup {id}),
                        "editor", BoardExtras(page)))
  /\ UNCHANGED <<saved, answering>>

QuickFilter(text) ==
  /\ text # page.text
  /\ Gesture([page EXCEPT !.text = text])
  /\ UNCHANGED <<saved, answering>>

\* The walk of a `connected` query reads the flag, so the standing query is asked again.
ToggleResponsibility ==
  /\ LET toggled == [page EXCEPT !.showResponsibility = ~@]
     IN  Gesture(IF page.activeFilter = None THEN toggled
                 ELSE Filter(toggled, page.activeFilter.query, page.activeFilter.source,
                             BoardExtras(toggled)))
  /\ UNCHANGED <<saved, answering>>

(***************************************************************************)
(* Folding.  A toggle moves an id between the two sets; a statement about  *)
(* many leaves nothing with an opinion from before it.                     *)
(***************************************************************************)
FoldToggled(p, id) ==
  LET shut == id \in p.folded \/ (p.foldMode = "instances" /\ id \notin p.unfolded)
  IN  [p EXCEPT !.folded = IF shut THEN @ \ {id} ELSE @ \cup {id},
                !.unfolded = IF shut THEN @ \cup {id} ELSE @ \ {id}]

FoldAll(p, ids, shut) ==
  [p EXCEPT !.folded = IF shut THEN ids ELSE {}, !.unfolded = IF shut THEN {} ELSE ids]

Fold(id) ==
  \/ Reads(InRail(id), <<"subject.fold", id>>, FoldToggled(page, id))
  \/ Reads(InRail(id), <<"subject.unfold", id>>, FoldToggled(page, id))

UnfoldAll(id) ==
  Reads(InRail(id), <<"subject.unfold-all", id>>,
        FoldAll(page, {id} \cup InsideIds(TreeOf(page).parentOf, id), FALSE))

FoldCanvas ==
  \/ Reads(Blank, <<"canvas.fold-all">>, FoldAll(page, Boxes(TreeOf(page).parentOf), TRUE))
  \/ Reads(Blank, <<"canvas.unfold-all">>, FoldAll(page, Boxes(TreeOf(page).parentOf), FALSE))

\* The layout file of the active view takes the fold overrides, in full.
SaveLayout ==
  /\ ListedView(page.views, page.activeView)
  /\ Gesture(page)
  /\ saved' = [saved EXCEPT ![page.activeView] = [folded |-> page.folded, unfolded |-> page.unfolded]]
  /\ UNCHANGED answering

-----------------------------------------------------------------------------
(***************************************************************************)
(* Pointing: what is selected, the tool in hand and the column beside.     *)
(***************************************************************************)
Handles(d) == ~IsAsking /\ Moves(page, d) /\ UNCHANGED saved

Points(d) == Handles(MenuDismissed(d)) /\ UNCHANGED answering

OpenMenu(target) ==
  /\ gestures < MaxGestures[repertoire]
  /\ IsReachable(page, target)
  /\ contextMenuFor(target, MenuContext(page)) # {}
  /\ Handles(MenuOpened(shell, target))
  /\ UNCHANGED answering

\* In the rail any subject; on the canvas what is drawn, unless a connection wants a target.
SelectSubject(id) ==
  /\ id \in DOMAIN page.model.graph.concepts
  /\ Points(SubjectSelected(shell, nextElement(page.model.graph, id)))

SelectRelationship(r) ==
  /\ IsReachable(page, OnEdge(r))
  /\ Points(SubjectSelected(shell, nextRelationship(page.model.graph, r)))

ClearSelection == shell.selected # None /\ Points(SubjectCleared(shell))

ToggleDescription == shell.selected # None /\ Points(DescriptionToggled(shell))

\* The sections are on the page only while the column is.
ToggleSection(section) == ~shell.hidden /\ Points(SectionToggled(shell, section))

ToggleConversation == Points(ConversationToggled(shell))

\* An answer, a choice or a diagnostic arrives; no menu and no dialog minds.
Notified ==
  /\ shell.unread < MaxMissed
  /\ shell' = AttentionReceived(shell)
  /\ UNCHANGED <<page, compiled, saved, answering, gestures, commits, repertoire>>

(***************************************************************************)
(* The tools.  A connection has its source, its target once named, and     *)
(* what the question that armed it asked for.                              *)
(***************************************************************************)
StartConnection(id) ==
  /\ gestures < MaxGestures[repertoire]
  /\ Offered(OnCanvas(id), <<"subject.connect", id>>)
  /\ Handles(ConnectionStarted(shell, id, {}, "outgoing"))
  /\ answering' = None

OpenDraft ==
  /\ Handles(DraftOpened(shell))
  /\ answering' = None

CloseDraft == shell.drafting /\ Points(DraftClosed(shell))

\* Picking the subject opens the properties; whether they were shut is what the render
\* before that said, so a section that was shut is opened and shut again.
PropertiesInFront(about) ==
  LET picked == IF about = {} THEN MenuDismissed(shell)
                ELSE SubjectSelected(shell, nextElement(page.model.graph, CHOOSE id \in about : TRUE))
  IN  IF "properties" \in shell.shut THEN SectionToggled(picked, "properties") ELSE picked

VerbRun(row, gesture) ==
  CASE gesture.verb = "connect" /\ row.about # {} ->
         ConnectionStarted(shell, CHOOSE id \in row.about : TRUE, gesture.kinds, gesture.direction)
    [] gesture.verb = "add" -> DraftOpened(shell)
    [] OTHER -> PropertiesInFront(row.about)

\* A verb runs the gesture a person has by hand.
AnswerQuestion(row) ==
  /\ gestures < MaxGestures[repertoire]
  /\ Offered(IF row.about = {} THEN Blank ELSE InRail(CHOOSE id \in row.about : TRUE),
             <<"question.answer", row>>)
  /\ \/ \E verb \in verbFor(row) :
          /\ Handles(VerbRun(row, verb.gesture))
          /\ answering' = [row |-> row, gesture |-> verb.gesture, closes |-> verb.closes]
     \/ /\ verbFor(row) = {}
        /\ Handles(PropertiesInFront(row.about))
        /\ answering' = None

\* The search of the panel finds any subject, a tap on the canvas one that is drawn.
Target(id) ==
  /\ shell.connection # None
  /\ id \in IF shell.connection.to = None THEN DOMAIN page.model.graph.concepts ELSE Canvas(page).nodes
  /\ Points(ConnectionTargeted(shell, id))

CancelConnection == shell.connection # None /\ Points(ConnectionCancelled(shell))

\* Deleting is the one motion that asks first; a question is kept or confirmed.
AskDeletion(id) ==
  /\ gestures < MaxGestures[repertoire]
  /\ \/ Offered(InRail(id), <<"subject.delete", id>>)
     \/ Offered(OnEdge(id), <<"relationship.delete", id>>)
  /\ Handles(DeletionAsked(shell, id))
  /\ UNCHANGED answering

AskViewDeletion(view) ==
  /\ ListedView(page.views, view)
  /\ Handles(ViewDeletionAsked(shell, view))
  /\ UNCHANGED answering

Keep ==
  /\ IsAsking
  /\ Moves(page, IF pendingViewDelete THEN ViewDeletionDismissed(shell) ELSE DeletionDismissed(shell))
  /\ UNCHANGED <<saved, answering>>

(***************************************************************************)
(* The program the page is embedded in points as a hand does, but at any   *)
(* moment: it waits for no menu and no dialog to be out of the way.        *)
(***************************************************************************)
PointerShows(view) ==
  /\ ListedView(page.views, view)
  /\ Moves(Rendered(ViewNavigated(page, view)), shell)
  /\ UNCHANGED <<saved, answering>>

PointerSelects(id) ==
  /\ LET graph == page.model.graph
     IN  Moves(page, SubjectSelected(shell, IF id \in DOMAIN graph.concepts THEN nextElement(graph, id)
                                            ELSE nextRelationship(graph, id)))
  /\ UNCHANGED <<saved, answering>>

PointerOpensDraft == Moves(page, DraftOpened(shell)) /\ UNCHANGED saved /\ answering' = None

PointerConnects(id) ==
  /\ Moves(page, ConnectionStarted(shell, id, {}, "outgoing"))
  /\ UNCHANGED saved /\ answering' = None

-----------------------------------------------------------------------------
(***************************************************************************)
(* Changes.  What a gesture stages is committed before the next one; a     *)
(* batch is refused, and changes nothing, where the store does not compile.*)
(***************************************************************************)
LandedOn(d, graph, views) ==
  /\ commits < MaxCommits
  /\ compiled
  /\ commits' = commits + 1
  /\ page' = Rendered(ModelFrame(page, graph, views))
  /\ shell' = ModelReplaced(d, graph)
  /\ UNCHANGED <<compiled, saved, gestures, repertoire>>

Landed(graph, views) == ~IsAsking /\ LandedOn(shell, graph, views) /\ UNCHANGED answering

Changed(target, intent, graph) ==
  commits < MaxCommits /\ Offered(target, intent) /\ Landed(graph, page.views)

\* The program never runs out of ids; here a change that needs one waits for FreshIds.
idsLeft == \E i \in DOMAIN FreshIds : FreshIds[i] \notin Everything(page.model.graph)

\* The panel puts the kinds asked for in front; the table's others stay within reach.
StageConnection(kind) ==
  /\ shell.connection # None
  /\ shell.connection.to # None
  /\ idsLeft
  /\ LET ends == IF shell.connection.direction = "incoming"
                 THEN <<shell.connection.to, shell.connection.from>>
                 ELSE <<shell.connection.from, shell.connection.to>>
     IN  /\ kind \in connectableKinds(page.model.graph, ends[1], ends[2])
         /\ LandedOn(ConnectionCancelled(shell),
                     draftRelationship(page.model.graph, ends[1], kind, ends[2]), page.views)
  /\ answering' = None

NewConcept(kind) ==
  [kind |-> kind, document |-> "main", status |-> "active", state |-> FALSE, claims |-> {},
   references |-> [p \in {} |-> {}]]

\* A view that lists its subjects is told of one that did not exist when it was written.
ToldOfNew(p, id) ==
  IF \E m \in activeViewMembership(p) : m.enumerated
  THEN [p.views EXCEPT ![p.activeView].query.subjects = @ \cup {id}] ELSE p.views

AddSubject(kind) ==
  /\ shell.drafting
  /\ idsLeft
  /\ LET id == proposeRelationshipId(page.model.graph)
     IN  LandedOn(DraftClosed(shell),
                  [page.model.graph EXCEPT !.concepts = Including(@, id, NewConcept(kind))],
                  ToldOfNew(page, id))
  /\ UNCHANGED answering

\* The properties panel states a value for a field that had none.
Describe(id, predicate) ==
  /\ predicate \notin page.model.graph.concepts[id].claims
  /\ Changed(InRail(id), <<"subject.inspect", id>>,
             [page.model.graph EXCEPT !.concepts[id].claims = @ \cup {predicate}])

Retire(id) ==
  /\ page.model.graph.concepts[id].status # "retired"
  /\ Changed(InRail(id), <<"subject.inspect", id>>,
             [page.model.graph EXCEPT !.concepts[id].status = "retired"])

Retype(r, kind) ==
  /\ kind # page.model.graph.relationships[r].kind
  /\ Changed(OnEdge(r), <<"relationship.retype", r, kind>>,
             [page.model.graph EXCEPT !.relationships[r].kind = kind])

\* A batch that leaves something naming what it deletes is refused whole.
IsNamed(id) ==
  \/ deletionBlockers(page.model.graph, id) # {}
  \/ \E i \in DOMAIN Memberships : id \in {Memberships[i].member, Memberships[i].instance}

Delete ==
  /\ shell.deletion # None
  /\ ~IsNamed(shell.deletion)
  /\ LandedOn(DeletionDismissed(shell),
              Removed(page.model.graph, draftDeletion(page.model.graph, shell.deletion)), page.views)
  /\ UNCHANGED answering

DeleteSavedView ==
  /\ pendingViewDelete
  /\ LandedOn(ViewDeletionDismissed(shell), page.model.graph,
              [page.views EXCEPT ![shell.viewDeletion] = None])
  /\ UNCHANGED answering

\* A subject told into or out of the active view: its list, or its exceptions.
ToldQuery(query, id) ==
  LET facet == IF "subjects" \in DOMAIN query THEN "subjects" ELSE "exclude"
      names == Option(query, facet, {})
  IN  Including(query, facet, IF id \in names THEN names \ {id} ELSE names \cup {id})

TellView(id) ==
  /\ commits < MaxCommits
  /\ \/ Offered(InRail(id), <<"view.add-subject", id>>)
     \/ Offered(InRail(id), <<"view.remove-subject", id>>)
  /\ Landed(page.model.graph,
            [page.views EXCEPT ![page.activeView].query = ToldQuery(@, id)])

(***************************************************************************)
(* The host is told that its store has changed: what the store holds now   *)
(* is drawn if it compiles, and otherwise the last good model stands.      *)
(***************************************************************************)
Refresh ==
  /\ commits < MaxCommits
  /\ commits' = commits + 1
  /\ \/ /\ compiled' = TRUE
        /\ page' = Rendered(ModelFrame(page, ElsewhereGraph, page.views))
        /\ shell' = ModelReplaced(shell, ElsewhereGraph)
     \/ /\ compiled' = FALSE
        /\ UNCHANGED <<page, shell>>
  /\ UNCHANGED <<saved, answering, gestures, repertoire>>

-----------------------------------------------------------------------------
OpenedPage ==
  [model |-> ModelOf(OpeningGraph), views |-> OpeningViews, activeView |-> Initial,
   activeFilter |-> None, focusReturn |-> None, extras |-> [f \in {} |-> None], applied |-> None,
   nesting |-> <<"composition">>, foldMode |-> "none", folded |-> {}, unfolded |-> {},
   showResponsibility |-> FALSE, text |-> ""]

Init ==
  /\ compiled = TRUE
  /\ page = Rendered(OpenedPage)
  /\ shell = createVisualWorkspaceState
  /\ saved = [v \in ViewPaths |-> None]
  /\ answering = None
  /\ gestures = 0 /\ commits = 0
  /\ repertoire \in DOMAIN MaxGestures

(* Looking changes nothing that is kept but the layout; the store may      *)
(* change underneath it.                                                   *)
Looks ==
  \/ \E view \in ViewPaths : Navigate(view)
  \/ ShowAll \/ ToggleResponsibility \/ FoldCanvas \/ SaveLayout \/ Refresh
  \/ \E id \in DOMAIN page.model.graph.concepts :
       FocusSubject(id) \/ FocusInstance(id) \/ Fold(id) \/ UnfoldAll(id)
  \/ \E r \in DOMAIN page.model.graph.relationships : FocusRelationship(r)

Narrows ==
  \/ \E text \in Texts : QuickFilter(text)
  \/ \E id \in DOMAIN page.model.graph.concepts : EditFilter(id)

Connects ==
  \/ CancelConnection \/ OpenDraft
  \/ \E id \in DOMAIN page.model.graph.concepts : StartConnection(id) \/ Target(id)
  \/ \E row \in ToSet(OpenRows(page)) : AnswerQuestion(row)
  \/ \E kind \in RelationKinds : StageConnection(kind)
  \/ \E kind \in NewKinds : AddSubject(kind)

Edits ==
  \/ \E id \in DOMAIN page.model.graph.concepts :
       (\E predicate \in Predicates : Describe(id, predicate)) \/ Retire(id) \/ TellView(id)
  \/ \E r \in DOMAIN page.model.graph.relationships, kind \in RelationKinds : Retype(r, kind)

Deletes == Delete \/ \E id \in Everything(page.model.graph) : AskDeletion(id)

Selects ==
  \/ ClearSelection \/ ToggleDescription
  \/ \E id \in DOMAIN page.model.graph.concepts : SelectSubject(id) \/ Retire(id)
  \/ \E r \in DOMAIN page.model.graph.relationships : SelectRelationship(r)

Confirms ==
  \/ Keep \/ DeleteSavedView
  \/ \E view \in ViewPaths : AskViewDeletion(view) \/ OpenMenu(OnView(view))

Column == ToggleConversation \/ Notified \/ \E section \in Sections : ToggleSection(section)

Takes ==
  \/ OpenDraft \/ CloseDraft \/ CancelConnection
  \/ \E row \in ToSet(OpenRows(page)) : AnswerQuestion(row)
  \/ \E id \in DOMAIN page.model.graph.concepts :
       StartConnection(id) \/ Target(id) \/ OpenMenu(OnCanvas(id)) \/ OpenMenu(InRail(id))

PointerActs ==
  \/ PointerOpensDraft
  \/ \E view \in ViewPaths : PointerShows(view)
  \/ \E id \in Everything(page.model.graph) : PointerSelects(id)
  \/ \E id \in DOMAIN page.model.graph.concepts : PointerConnects(id)

Next ==
  \/ repertoire # "pointing" /\ Looks
  \/ repertoire = "changing" /\ (Narrows \/ Connects \/ Edits \/ Deletes)
  \/ repertoire = "pointing" /\ (Selects \/ Confirms \/ Column \/ Takes \/ Deletes \/ Refresh \/ PointerActs)

Spec == Init /\ [][Next]_vars

-----------------------------------------------------------------------------
(***************************************************************************)
(* A fold hides detail and no fact: every relationship the view selects    *)
(* between two subjects it shows is said by the boxes (nesting, or a box   *)
(* inside the other), sits inside one folded box, is a responsibility the  *)
(* reader has not asked to see, or is carried by exactly one drawn edge,   *)
(* of its kind and between the boxes that stand for its ends.              *)
(***************************************************************************)
Represents(scene, id) == visibleAncestorOf(scene.parentOf, scene.folded, id)

CarriedBy(scene, canvas, r) ==
  LET edge == scene.graph.relationships[r]
  IN  {e \in canvas.edges :
         /\ r \in e.names /\ e.kind = edge.kind
         /\ e.from = Represents(scene, edge.from) /\ e.to = Represents(scene, edge.to)}

IsSaid(p, scene, canvas, r) ==
  LET edge == scene.graph.relationships[r]
      from == Represents(scene, edge.from)
      to == Represents(scene, edge.to)
  IN  \/ from = to \/ from \in Above(scene.parentOf, to) \/ to \in Above(scene.parentOf, from)
      \/ ~p.showResponsibility /\ IsResponsibility(edge.kind)
      \/ Cardinality(CarriedBy(scene, canvas, r)) = 1

ShownSubjects(p, scene) == BaseVisible(scene, Matched(p), p.text)

FoldedViewLosesNothing ==
  LET scene == Scene(page)
      canvas == Canvas(page)
      graph == page.model.graph
  IN  \A r \in Matched(page) \cap DOMAIN graph.relationships :
        {graph.relationships[r].from, graph.relationships[r].to} \subseteq ShownSubjects(page, scene)
          => IsSaid(page, scene, canvas, r)

(***************************************************************************)
(* Every subject the view shows is answered for by exactly one node on the *)
(* canvas, itself or the box it is folded into: no open question is        *)
(* counted twice or left out, and one node wears the next question's ring. *)
(***************************************************************************)
EverySubjectAnsweredOnce ==
  LET scene == Scene(page)
      canvas == Canvas(page)
  IN  \A id \in ShownSubjects(page, scene) :
        Cardinality({n \in canvas.nodes : WearsTheRing(scene, id, n)}) = 1

(***************************************************************************)
(* The rail counts what the canvas shows: while a view stands as it was    *)
(* saved, the number beside its name is that of the subjects it selects,   *)
(* by whatever road it came back and however often the model changed.      *)
(* While the store does not compile, what stood goes on standing.          *)
(***************************************************************************)
StandsAsSaved(view) ==
  /\ compiled
  /\ page.activeFilter # None
  /\ page.activeFilter.query = view.query
  /\ page.extras = DeclaredExtras(view.presentation)

RailCountsTheView ==
  ListedView(page.views, page.activeView) =>
    LET view == page.views[page.activeView]
    IN  StandsAsSaved(view) =>
          Cardinality(page.activeFilter.matched \cap DOMAIN page.model.graph.concepts)
            = conceptCountOf(page, view)

(***************************************************************************)
(* However it is folded, narrowed and nested, the canvas tells the whole   *)
(* view, tells it once, and tells as much as the rail says there is.       *)
(***************************************************************************)
CanvasTellsTheView ==
  FoldedViewLosesNothing /\ EverySubjectAnsweredOnce /\ RailCountsTheView

(***************************************************************************)
(* While a focus on an instance stands, with no view named beside it, what *)
(* is selected is the box and what the canvas draws inside it, whichever   *)
(* view's nesting it was focused under and however often the model has     *)
(* been replaced since: the closure and the drawing read one tree.         *)
(***************************************************************************)
StandsOnInstances ==
  /\ page.activeView = None
  /\ page.activeFilter # None
  /\ page.activeFilter.source = "focus"
  /\ "instances" \in DOMAIN page.activeFilter.query

FocusShowsTheBox ==
  StandsOnInstances =>
    LET named == page.activeFilter.query.instances
        drawn == UNION {InsideIds(TreeOf(page).parentOf, id) : id \in named}
    IN  page.activeFilter.matched \cap DOMAIN page.model.graph.concepts
          = (named \cup drawn) \cap DOMAIN page.model.graph.concepts

(***************************************************************************)
(* What a view excludes by name stays out: no walk along a relationship    *)
(* from something that stayed brings it back, and no relationship of its   *)
(* is selected, even when the model or the view changes while it stands.   *)
(* (A filter a focus gives back while the sources do not compile cannot be *)
(* asked again, and says what it said of the model it was asked of.)       *)
(***************************************************************************)
ExclusionIsFinal ==
  compiled /\ page.activeFilter # None =>
    LET out == Option(page.activeFilter.query, "exclude", {})
    IN  page.activeFilter.matched \cap (out \cup UNION {Touching(page.model.graph, id) : id \in out}) = {}

(***************************************************************************)
(* Following a question's verb answers it: when what lands is what the     *)
(* verb put in front (a relationship of a kind asked for, to a counterpart *)
(* the question accepts; a subject of the kind asked for; a value for the  *)
(* field named), the row is gone from the model frame that follows.        *)
(***************************************************************************)
AcceptsCounterpart(graph, condition, id) ==
  "counterpartKinds" \in DOMAIN condition =>
    kindMatches(graph.concepts[id].kind, condition.counterpartKinds, Matching(condition))

FollowedBy(before, after) ==
  LET verb == answering.gesture
      added == DOMAIN after.relationships \ DOMAIN before.relationships
      Ends(r) == {after.relationships[r].from, after.relationships[r].to}
  IN  CASE verb.verb = "connect" ->
             \E r \in added :
               /\ verb.kinds = {} \/ after.relationships[r].kind \in verb.kinds
               /\ answering.row.about \subseteq Ends(r)
               /\ \A id \in Ends(r) \ answering.row.about : AcceptsCounterpart(after, answering.closes, id)
        [] verb.verb = "add" ->
             \E c \in DOMAIN after.concepts \ DOMAIN before.concepts : after.concepts[c].kind \in verb.kinds
        [] verb.verb = "describe" ->
             \E c \in answering.row.about \cap DOMAIN after.concepts :
               /\ "predicate" \in DOMAIN answering.closes
               /\ answering.closes.predicate \in after.concepts[c].claims \ before.concepts[c].claims

IsOpen(p, row) ==
  \E i \in DOMAIN OpenRows(p) : OpenRows(p)[i].question = row.question /\ OpenRows(p)[i].about = row.about

AnswersClose ==
  [][(answering # None /\ commits' > commits /\ compiled' /\ FollowedBy(page.model.graph, page'.model.graph))
       => ~IsOpen(page', answering.row)]_vars

(***************************************************************************)
(* What stands beside the canvas is of the model as it is, however the     *)
(* model came to be replaced: the properties shown are what it says of the *)
(* subject selected, a menu is over something that is still there, one     *)
(* tool at most is in hand, and the count of what was missed stands only   *)
(* while the chat is out of sight.                                         *)
(***************************************************************************)
SelectionIsCurrent ==
  /\ shell.selected # None => shell.selected = InModel(page.model.graph, shell.selected)
  /\ shell.expanded => shell.selected # None

MenuHasItsTarget == shell.menu # None => contextMenuFor(shell.menu, MenuContext(page)) # {}

OneToolAtATime == ~(shell.connection # None /\ shell.drafting)

ShellFollowsTheModel ==
  /\ SelectionIsCurrent /\ MenuHasItsTarget /\ OneToolAtATime
  /\ shell.unread > 0 => ~ChatInSight(shell)
=============================================================================
