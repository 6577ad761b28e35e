------------------------------- MODULE PageShell -------------------------------
(***************************************************************************)
(* What stands on the page beside the canvas: the part of the workspace    *)
(* reducer that says what is selected, which tool is in hand, which        *)
(* question is being confirmed, which menu is open and which sections of   *)
(* the column are shut; and what a right-click offers.  Nothing happens    *)
(* here: ReadingSession decides when.                                      *)
(*                                                                         *)
(* A menu is the set of its intents, rebuilt from the live model at every  *)
(* render, so it is empty once its target has gone.  An intent is a tuple: *)
(* its type, and what it is about.  The context is [graph, activeView,     *)
(* filtered, membership, folded, containers, instances, rows]: membership  *)
(* is empty or one [enumerated, names], rows are the open questions.       *)
(***************************************************************************)
EXTENDS QuestionVerbs, EditorState

Sections == {"palette", "properties", "questions", "changes", "chat"}

\* A copy of what the model says, taken when the subject is picked.
nextElement(graph, id) ==
  IF id \notin DOMAIN graph.concepts THEN None
  ELSE [type |-> "element", id |-> id, says |-> graph.concepts[id]]

nextRelationship(graph, id) ==
  IF id \notin DOMAIN graph.relationships THEN None
  ELSE [type |-> "relationship", id |-> id, says |-> graph.relationships[id]]

InModel(graph, subject) ==
  IF subject.type = "element" THEN nextElement(graph, subject.id) ELSE nextRelationship(graph, subject.id)

createVisualWorkspaceState ==
  [selected |-> None, expanded |-> FALSE, connection |-> None, drafting |-> FALSE, deletion |-> None,
   viewDeletion |-> None, menu |-> None, shut |-> {}, hidden |-> FALSE, unread |-> 0]

MenuOpened(d, target) == [d EXCEPT !.menu = target]
MenuDismissed(d) == [d EXCEPT !.menu = None]

\* The tools are alternatives: taking one up puts the other away.
ConnectionStarted(d, id, kinds, direction) ==
  [d EXCEPT !.connection = [from |-> id, to |-> None, kinds |-> kinds, direction |-> direction],
            !.drafting = FALSE, !.menu = None]

\* Naming the source again means "not that after all".
ConnectionTargeted(d, id) ==
  [d EXCEPT !.connection = IF id = @.from THEN None ELSE [@ EXCEPT !.to = id]]

ConnectionCancelled(d) == [d EXCEPT !.connection = None]

DraftOpened(d) == [d EXCEPT !.drafting = TRUE, !.connection = None, !.menu = None]
DraftClosed(d) == [d EXCEPT !.drafting = FALSE]

DeletionAsked(d, id) ==
  [d EXCEPT !.deletion = id, !.connection = None, !.drafting = FALSE, !.menu = None]

DeletionDismissed(d) == [d EXCEPT !.deletion = None]

ViewDeletionAsked(d, view) == [d EXCEPT !.viewDeletion = view, !.menu = None]
ViewDeletionDismissed(d) == [d EXCEPT !.viewDeletion = None]

SubjectSelected(d, subject) ==
  [d EXCEPT !.selected = subject, !.expanded = FALSE, !.menu = None, !.shut = @ \ {"properties"}]

SubjectCleared(d) == [d EXCEPT !.selected = None, !.expanded = FALSE]

DescriptionToggled(d) == IF d.selected = None THEN d ELSE [d EXCEPT !.expanded = ~@]

\* The chat is read when it comes into sight, and counts what arrives out of it.
ChatInSight(d) == ~d.hidden /\ "chat" \notin d.shut

SectionToggled(d, section) ==
  [d EXCEPT !.shut = IF section \in @ THEN @ \ {section} ELSE @ \cup {section},
            !.unread = IF section = "chat" /\ "chat" \in d.shut THEN 0 ELSE @]

ConversationToggled(d) ==
  [d EXCEPT !.hidden = ~@, !.unread = IF d.hidden /\ "chat" \notin d.shut THEN 0 ELSE @]

AttentionReceived(d) == IF ChatInSight(d) THEN d ELSE [d EXCEPT !.unread = @ + 1]

(***************************************************************************)
(* A new model: the menu goes, and what is selected is read again, or      *)
(* cleared where it is gone.                                               *)
(***************************************************************************)
ModelReplacedHoldingVariant(d, graph) == [d EXCEPT !.menu = None]

ModelReplaced(d, graph) ==
  LET survivor == IF d.selected = None THEN None ELSE InModel(graph, d.selected)
  IN  [d EXCEPT !.menu = None, !.selected = survivor, !.expanded = @ /\ survivor # None]

-----------------------------------------------------------------------------
NewView == {<<"view.new">>, <<"view.new-folder">>}

\* A view that enumerates holds what it lists, one that describes what it does not exclude.
IsMember(membership, id) == (id \in membership.names) <=> membership.enumerated

membershipGroup(id, context) ==
  {IF IsMember(m, id) THEN <<"view.remove-subject", id>> ELSE <<"view.add-subject", id>> :
     m \in context.membership}

clearItem(context) == IF context.filtered THEN {<<"view.clear">>} ELSE {}

focusInstanceItems(id, context) ==
  IF id \in context.instances THEN {<<"subject.focus-instance", id>>} ELSE {}

\* Only a subject that holds something folds; the page selects one at a time.
foldGroup(id, context) ==
  IF id \notin context.containers THEN {}
  ELSE IF id \in context.folded THEN {<<"subject.unfold", id>>, <<"subject.unfold-all", id>>}
  ELSE {<<"subject.fold", id>>}

\* A row per open question, with its verb, and a door for the topmost.
questionsGroup(about, context) ==
  LET rows == SelectSeq(context.rows, LAMBDA row : row.about = about)
  IN  IF rows = <<>> THEN {}
      ELSE {<<"question.answer", row>> : row \in ToSet(rows)}
           \cup {<<"question.delegate", Head(rows)>>}

subjectMenu(id, context) ==
  {<<"subject.focus", id>>, <<"subject.inspect", id>>, <<"subject.connect", id>>,
   <<"subject.delete", id>>}
  \cup focusInstanceItems(id, context) \cup membershipGroup(id, context) \cup clearItem(context)
  \cup foldGroup(id, context) \cup questionsGroup({id}, context)

\* A single kind is the one it has, and nothing to change it to.
relationshipMenu(r, context) ==
  LET offer == relationshipKindOffer(context.graph, r)
  IN  {<<"relationship.focus", r>>, <<"relationship.inspect", r>>, <<"relationship.delete", r>>}
      \cup clearItem(context)
      \cup (IF Cardinality(offer) > 1 THEN {<<"relationship.retype", r, k>> : k \in offer} ELSE {})

canvasMenu(context) ==
  NewView \cup clearItem(context) \cup {<<"canvas.export-png">>, <<"canvas.draft-subject">>}
  \cup (IF context.containers = {} THEN {} ELSE {<<"canvas.fold-all">>, <<"canvas.unfold-all">>})
  \cup questionsGroup({}, context)

\* The row that stands for no view at all has nothing to open or delete.
viewRowMenu(view, context) ==
  NewView \cup
  IF view = {} THEN {<<"view.clear">>}
  ELSE {<<type, v>> : v \in view,
          type \in {"view.open", "view.rename", "view.duplicate", "view.new-in-folder",
                    "view.copy-path", "view.delete"}}

\* The rail's row: no one-hop focus and no connection start here.
modelRowMenu(id, context) ==
  {<<"subject.inspect", id>>, <<"subject.delete", id>>}
  \cup membershipGroup(id, context) \cup focusInstanceItems(id, context)
  \cup foldGroup(id, context) \cup questionsGroup({id}, context)

contextMenuFor(target, context) ==
  CASE target.kind = "subject" ->
         IF target.id \in DOMAIN context.graph.concepts THEN subjectMenu(target.id, context) ELSE {}
    [] target.kind = "relationship" ->
         IF target.id \in DOMAIN context.graph.relationships
         THEN relationshipMenu(target.id, context) ELSE {}
    [] target.kind = "canvas" -> canvasMenu(context)
    [] target.kind = "view-row" -> viewRowMenu(target.view, context)
    [] target.kind = "model-row" ->
         IF target.id \in DOMAIN context.graph.concepts THEN modelRowMenu(target.id, context) ELSE {}
=============================================================================
