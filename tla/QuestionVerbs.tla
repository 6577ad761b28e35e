---------------------------- MODULE QuestionVerbs ----------------------------
(***************************************************************************)
(* The one gesture that would answer an open question, and the gestures    *)
(* that draft a change to the model: a relationship drawn or given another *)
(* kind, a subject deleted with what touches it.                           *)
(*                                                                         *)
(* A kind stands for its label, so the kinds a question asks for and the   *)
(* core kinds of the table are compared as the editor compares them.       *)
(***************************************************************************)
EXTENDS Catalogues

CONSTANTS PortKinds,   \* the kinds a pattern ports, per concept kind
          FreshIds     \* ids nothing has, in the order they are proposed

ASSUME FreshIdsAssumption == FreshIds \in Seq({FreshIds[i] : i \in DOMAIN FreshIds})

(***************************************************************************)
(* The first condition of a row's trigger that gives a verb.               *)
(***************************************************************************)
NamesAField == {"missing-claim", "missing-reference", "missing-constraint",
                "missing-attestation", "missing-part"}

Connect(kinds, direction) == [verb |-> "connect", kinds |-> kinds, direction |-> direction]

VerbsOutgoingVariant(row, c) ==
  CASE c.condition \in {"missing-relationship", "missing-linkage"} -> {Connect(c.kinds, "outgoing")}
    [] c.condition = "isolated" -> {Connect({}, "outgoing")}
    [] c.condition = "no-subject-of-kind" -> {[verb |-> "add", kinds |-> c.kinds]}
    [] c.condition \in NamesAField /\ row.about # {} -> {[verb |-> "describe"]}
    [] OTHER -> {}

verbForCondition(row, c) ==
  CASE c.condition \in {"missing-relationship", "missing-linkage"} ->
         {Connect(c.kinds, IF c.direction = "incoming" THEN "incoming" ELSE "outgoing")}
    [] c.condition = "isolated" -> {Connect({}, "outgoing")}
    [] c.condition = "no-subject-of-kind" -> {[verb |-> "add", kinds |-> c.kinds]}
    [] c.condition \in NamesAField /\ row.about # {} -> {[verb |-> "describe"]}
    [] OTHER -> {}

\* At most one verb, with the condition it would make false.
verbFor(row) ==
  LET door == {i \in DOMAIN row.trigger : verbForCondition(row, row.trigger[i]) # {}}
  IN  {[gesture |-> v, closes |-> row.trigger[i]] :
         i \in {j \in door : \A h \in door : j <= h},
         v \in UNION {verbForCondition(row, row.trigger[j]) : j \in {k \in door : \A h \in door : k <= h}}}

(***************************************************************************)
(* The kinds that may run from one subject to another: the table's row for *)
(* the core kinds of the two, narrowed between two instances to what both  *)
(* port, unless that would leave nothing.                                  *)
(***************************************************************************)
PermittedBetween(graph, from, to) ==
  LET pair == <<CoreOf[graph.concepts[from].kind], CoreOf[graph.concepts[to].kind]>>
  IN  IF pair \in DOMAIN Permitted THEN Permitted[pair] ELSE {}

Ported(graph, from, to) ==
  PortKinds[graph.concepts[from].kind] \cap PortKinds[graph.concepts[to].kind]

connectableKinds(graph, from, to) ==
  LET permitted == PermittedBetween(graph, from, to)
  IN  IF {from, to} \subseteq DOMAIN graph.concepts
      THEN IF permitted \cap Ported(graph, from, to) = {} THEN permitted
           ELSE permitted \cap Ported(graph, from, to)
      ELSE {}

\* The kinds an edge may be given: what its ends permit, and the one it has.
relationshipKindOffer(graph, r) ==
  LET edge == graph.relationships[r]
      permitted == connectableKinds(graph, edge.from, edge.to)
      vocabulary == DOMAIN CoreRelationship
  IN  IF permitted = {} THEN vocabulary
      ELSE {k \in vocabulary : CoreRelationship[k] \in permitted} \cup {edge.kind}

(***************************************************************************)
(* Drafts, as the graph they leave.  A new relationship steps past the ids *)
(* already taken.                                                          *)
(***************************************************************************)
proposeRelationshipId(graph) ==
  LET free == {i \in DOMAIN FreshIds :
                 FreshIds[i] \notin DOMAIN graph.relationships \cup DOMAIN graph.concepts}
  IN  FreshIds[CHOOSE i \in free : \A j \in free : i <= j]

NewEdge(from, to, kind) ==
  [kind |-> kind, from |-> from, to |-> to, status |-> "active", claims |-> {},
   references |-> [p \in {} |-> {}]]

draftRelationship(graph, from, kind, to) ==
  IF kind \notin connectableKinds(graph, from, to) THEN graph
  ELSE [graph EXCEPT !.relationships = Including(@, proposeRelationshipId(graph), NewEdge(from, to, kind))]

Touching(graph, id) ==
  {r \in DOMAIN graph.relationships : id \in {graph.relationships[r].from, graph.relationships[r].to}}

\* What still names a subject once its relationships have gone with it.
deletionBlockers(graph, id) ==
  {c \in DOMAIN graph.concepts \ {id} :
     \E p \in DOMAIN graph.concepts[c].references : id \in graph.concepts[c].references[p]}

Removed(graph, ids) ==
  [concepts |-> [c \in DOMAIN graph.concepts \ ids |-> graph.concepts[c]],
   relationships |-> [r \in DOMAIN graph.relationships \ ids |-> graph.relationships[r]]]

draftDeletion(graph, id) ==
  IF id \in DOMAIN graph.concepts THEN {id} \cup Touching(graph, id)
  ELSE {id} \cap DOMAIN graph.relationships
=============================================================================
