----------------------------- MODULE Projection -----------------------------
(***************************************************************************)
(* What a view selects.  A view is [query, presentation]; a query is a     *)
(* function whose domain is the facets it states, each a set of names      *)
(* except the two modes, and a presentation states `nesting` and           *)
(* `showResponsibility` when its author did.                               *)
(*                                                                         *)
(* The facts of a concept are [kind, document, status, state, claims,      *)
(* references]: whether it is an architecture state, the predicates it     *)
(* states a value of, and what it refers to under each predicate.  Those   *)
(* of a relationship are [kind, from, to, status, claims, references].     *)
(*                                                                         *)
(* The second part is what the canvas draws of it: canvasSceneInput builds *)
(* the scene of a model, what holds what, which boxes are folded, which    *)
(* edges are drawn and which are lifted onto a fold; resolveCanvasScene    *)
(* narrows it to one view and one quick-filter text.  An edge of the scene *)
(* carries the relationships it stands for: one of its own, or, lifted,    *)
(* all of those it was merged from.                                        *)
(***************************************************************************)
EXTENDS FoldTree, FiniteSets

CONSTANTS Lineage,           \* the declared ancestors of every kind, itself left out
          LayerOf,           \* the layer of the concept kinds that have one
          Responsibilities   \* the shipped relationship kinds that say who answers for what

\* What a subject refers to under a predicate: its owner, its constraints, its states.
claimReferences(facts, predicate) ==
  IF predicate \in DOMAIN facts.references THEN facts.references[predicate] ELSE {}

States(query, facet) == facet \in DOMAIN query
Names(query, facet, id) == facet \in DOMAIN query /\ id \in query[facet]
Option(query, option, default) == IF option \in DOMAIN query THEN query[option] ELSE default

\* A kind the facet names, or one of its descendants when the query says so.
MatchesKind(query, facet, kind) ==
  \/ kind \in query[facet]
  \/ Option(query, "kindMatching", "exact") = "descendants" /\ Lineage[kind] \cap query[facet] # {}

IsResponsibility(kind) == ({kind} \cup Lineage[kind]) \cap Responsibilities # {}

NestingOf(view) == Option(view.presentation, "nesting", <<"composition">>)

(***************************************************************************)
(* The named instances and everything the fold tree draws inside them,     *)
(* read through the view's own nesting.                                    *)
(***************************************************************************)
HeldBy(graph, parentOf, named) ==
  named \cup {c \in DOMAIN graph.concepts : Above(parentOf, c) \cap named # {}}

instanceClosureOf(graph, memberships, view) ==
  LET named == Option(view.query, "instances", {})
  IN  IF named = {} THEN {}
      ELSE HeldBy(graph, foldTree(graph, memberships, NestingOf(view)).parentOf, named)

(***************************************************************************)
(* States.  A query that names only states the model does not have selects *)
(* nothing; what is present in no state is present in all of them.         *)
(***************************************************************************)
StateIds(graph) == {c \in DOMAIN graph.concepts : graph.concepts[c].state}

participatesInSelectedState(graph, query, facts) ==
  States(query, "states") =>
    LET selected == query.states \cap StateIds(graph)
        presence == claimReferences(facts, "present-in")
    IN  selected # {} /\ (presence = {} \/ presence \cap selected # {})

(***************************************************************************)
(* Which facets would drop a concept, and the first of them a reader would *)
(* reach: what an author took out by name outranks every rule.             *)
(***************************************************************************)
FacetOrder == <<"exclude", "states", "identity", "documents", "kinds", "layers", "statuses",
                "excludeStatuses", "owners", "constraints">>

Refuses(graph, query, held, id, facet) ==
  LET facts == graph.concepts[id]
      Outside(values) == States(query, facet) /\ values \cap query[facet] = {}
  IN  CASE facet = "exclude" -> Names(query, "exclude", id)
        [] facet = "states" ->
             /\ States(query, "states")
             /\ id \in StateIds(graph) \/ ~participatesInSelectedState(graph, query, facts)
        [] facet = "identity" ->
             /\ States(query, "subjects") \/ States(query, "instances")
             /\ ~Names(query, "subjects", id) /\ id \notin held
        [] facet = "documents" -> Outside({facts.document})
        [] facet = "kinds" -> States(query, "kinds") /\ ~MatchesKind(query, "kinds", facts.kind)
        [] facet = "layers" -> Outside({LayerOf[k] : k \in {facts.kind} \cap DOMAIN LayerOf})
        [] facet = "statuses" -> Outside({facts.status})
        [] facet = "excludeStatuses" -> Names(query, "excludeStatuses", facts.status)
        [] facet = "owners" -> Outside(claimReferences(facts, "owner"))
        [] facet = "constraints" -> Outside(claimReferences(facts, "requires"))

RefusedBy(graph, query, held, id) ==
  {i \in DOMAIN FacetOrder : Refuses(graph, query, held, id, FacetOrder[i])}

\* The facet reported for each concept the query drops.
explainProjection(graph, memberships, view) ==
  LET held == instanceClosureOf(graph, memberships, view)
      refused == [c \in DOMAIN graph.concepts |-> RefusedBy(graph, view.query, held, c)]
      Reported(facet) == IF facet # "identity" THEN facet
                         ELSE IF States(view.query, "subjects") THEN "subjects" ELSE "instances"
  IN  [c \in {d \in DOMAIN refused : refused[d] # {}} |-> Reported(FacetOrder[Min(refused[c])])]

Kept(graph, memberships, view) ==
  DOMAIN graph.concepts \ DOMAIN explainProjection(graph, memberships, view)

(***************************************************************************)
(* What `connected` may not bring back in by the far end of a relationship *)
(* to something that stayed.                                               *)
(***************************************************************************)
EndpointExcludedVariant(graph, query, id) ==
  \/ ~participatesInSelectedState(graph, query, graph.concepts[id])
  \/ Names(query, "excludeStatuses", graph.concepts[id].status)

endpointExcluded(graph, query, id) ==
  \/ Names(query, "exclude", id)
  \/ ~participatesInSelectedState(graph, query, graph.concepts[id])
  \/ Names(query, "excludeStatuses", graph.concepts[id].status)

\* Without regard to whether the query selects its ends.
RelationshipPasses(graph, query, r) ==
  LET facts == graph.relationships[r]
  IN  /\ ~Names(query, "exclude", r)
      /\ ~Names(query, "excludeStatuses", facts.status)
      /\ States(query, "relationshipKinds") => MatchesKind(query, "relationshipKinds", facts.kind)
      /\ participatesInSelectedState(graph, query, facts)
      /\ ~endpointExcluded(graph, query, facts.from)
      /\ ~endpointExcluded(graph, query, facts.to)

(***************************************************************************)
(* Between two kept subjects a passing relationship is selected.  Under    *)
(* `connected` one kept end is enough, and brings the other; but a         *)
(* responsibility carries that walk only where the view shows them.        *)
(***************************************************************************)
SelectedRelationships(graph, view, kept) ==
  LET mode == Option(view.query, "relationships", "between")
      Walks(edge) ==
        /\ mode = "connected"
        /\ Option(view.presentation, "showResponsibility", FALSE) \/ ~IsResponsibility(edge.kind)
      Selected(edge) ==
        \/ {edge.from, edge.to} \subseteq kept
        \/ Walks(edge) /\ {edge.from, edge.to} \cap kept # {}
  IN  {r \in DOMAIN graph.relationships :
         mode # "none" /\ RelationshipPasses(graph, view.query, r) /\ Selected(graph.relationships[r])}

EndsOf(graph, rs) == UNION {{graph.relationships[r].from, graph.relationships[r].to} : r \in rs}

SelectedWith(graph, view, kept, rs) ==
  LET walked == IF Option(view.query, "relationships", "between") = "connected"
                THEN kept \cup EndsOf(graph, rs) ELSE kept
  IN  rs \cup (IF Option(view.query, "isolatedConcepts", "include") = "exclude"
               THEN walked \cap EndsOf(graph, rs) ELSE walked)

SelectedFrom(graph, view, kept) ==
  SelectedWith(graph, view, kept, SelectedRelationships(graph, view, kept))

\* The ids a view selects, concepts and relationships alike.
evaluateProjection(graph, memberships, view) ==
  SelectedFrom(graph, view, Kept(graph, memberships, view))

(***************************************************************************)
(* A query names things, and a name the model does not have can never      *)
(* match.  The statuses are an enumeration the schema has already checked. *)
(***************************************************************************)
KnownTo(graph, facet) ==
  CASE facet \in {"subjects", "instances", "exclude", "owners", "constraints"} ->
         DOMAIN graph.concepts \cup DOMAIN graph.relationships
    [] facet = "documents" -> {graph.concepts[c].document : c \in DOMAIN graph.concepts}
    [] facet = "states" -> StateIds(graph)
    [] facet = "kinds" -> DOMAIN CoreOf
    [] facet = "relationshipKinds" -> DOMAIN Lineage \ DOMAIN CoreOf
    [] facet = "layers" -> {LayerOf[k] : k \in DOMAIN LayerOf}

CheckedFacets == {"subjects", "instances", "exclude", "owners", "constraints", "documents",
                  "states", "kinds", "relationshipKinds", "layers"}

unmatchedSelectors(graph, query) ==
  UNION {{<<facet, name>> : name \in query[facet] \ KnownTo(graph, facet)} :
           facet \in CheckedFacets \cap DOMAIN query}

\* `instances` may name only subjects that are pattern instances.
projectionReferenceDiagnostics(graph, query, instances) ==
  {<<"YM921", u>> : u \in unmatchedSelectors(graph, query)}
  \cup {<<"YM922", <<"instances", name>>>> :
          name \in (Option(query, "instances", {}) \cap KnownTo(graph, "instances")) \ instances}

-----------------------------------------------------------------------------
PlainEdge(graph, r) ==
  LET edge == graph.relationships[r]
  IN  [from |-> edge.from, to |-> edge.to, kind |-> edge.kind, names |-> {r}]

\* What nesting did not consume, and responsibilities only when shown.
drawnCanvasEdges(graph, consumed, showResponsibility) ==
  {r \in DOMAIN graph.relationships \ consumed :
     showResponsibility \/ ~IsResponsibility(graph.relationships[r].kind)}

SceneOf(graph, tree, folded, drawn) ==
  [graph |-> graph, parentOf |-> tree.parentOf, consumed |-> tree.consumed, folded |-> folded,
   edges |-> {PlainEdge(graph, r) : r \in drawn},
   lifted |-> IF folded = {} THEN {} ELSE foldGraph(graph, drawn, tree.parentOf, folded)]

canvasSceneInput(graph, tree, folded, showResponsibility) ==
  SceneOf(graph, tree, folded, drawnCanvasEdges(graph, tree.consumed, showResponsibility))

(***************************************************************************)
(* A box is folded when the reader shut it, or when the view starts folded *)
(* and the reader has not opened it.  Only what holds something folds.     *)
(***************************************************************************)
Boxes(parentOf) == UNION {Above(parentOf, c) : c \in DOMAIN parentOf}

FoldedBoxes(parentOf, foldMode, shut, opened) ==
  {b \in Boxes(parentOf) : b \in shut \/ (foldMode = "instances" /\ b \notin opened)}

(***************************************************************************)
(* The scene a view and a quick-filter text resolve to.  A text matches an *)
(* id, a name or a kind label; an empty one matches everything.            *)
(***************************************************************************)
subjectMatchesQuickFilter(graph, text, id) == text \in {"", id, graph.concepts[id].kind}

BaseIds(scene, matched) == matched \cap DOMAIN scene.graph.concepts

BaseVisible(scene, matched, text) ==
  {c \in BaseIds(scene, matched) : subjectMatchesQuickFilter(scene.graph, text, c)}

\* A part is drawn in its box, so the boxes above what is visible come with it.
WithBoxes(scene, ids) == ids \cup UNION {Above(scene.parentOf, c) : c \in ids}

DrawnShallowVariant(scene, base) ==
  {c \in WithBoxes(scene, base) :
     c \in DOMAIN scene.parentOf => scene.parentOf[c] \notin scene.folded}

\* A folded box hides everything under it, whatever the view said.
Drawn(scene, base) ==
  {c \in WithBoxes(scene, base) : Above(scene.parentOf, c) \cap scene.folded = {}}

DrawnParents(scene, drawn) ==
  [c \in {d \in drawn \cap DOMAIN scene.parentOf : scene.parentOf[d] \in drawn} |->
     scene.parentOf[c]]

spansNesting(parents, edge) ==
  edge.to \in Above(parents, edge.from) \/ edge.from \in Above(parents, edge.to)

EdgesOn(scene, matched, drawn, parents) ==
  {e \in scene.edges \cup scene.lifted :
     /\ {e.from, e.to} \subseteq drawn
     /\ e.names \cap matched # {}
     /\ ~spansNesting(parents, e)}

ShowDrawn(scene, matched, base, drawn, parents) ==
  [nodes |-> drawn, context |-> drawn \ base, parentOf |-> parents,
   inside |-> [b \in drawn \cap scene.folded |-> InsideIds(scene.parentOf, b) \cap base],
   implied |-> {e \in scene.edges \cup scene.lifted : spansNesting(parents, e)},
   edges |-> EdgesOn(scene, matched, drawn, parents),
   saved |-> WithBoxes(scene, BaseIds(scene, matched))]

ShowBase(scene, matched, base, drawn) ==
  ShowDrawn(scene, matched, base, drawn, DrawnParents(scene, drawn))

ResolveBase(scene, matched, base) == ShowBase(scene, matched, base, Drawn(scene, base))

resolveCanvasScene(scene, matched, text) ==
  ResolveBase(scene, matched, BaseVisible(scene, matched, text))

(***************************************************************************)
(* The chip a node wears: the open questions of the subjects it answers    *)
(* for, which for a folded box are the box and everything inside it.       *)
(***************************************************************************)
AnswersFor(scene, id) ==
  {id} \cup (IF id \in scene.folded THEN InsideIds(scene.parentOf, id) ELSE {})

WearsTheRing(scene, next, id) == next \in AnswersFor(scene, id)
=============================================================================
