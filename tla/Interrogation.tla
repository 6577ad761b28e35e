--------------------------- MODULE Interrogation ---------------------------
(***************************************************************************)
(* The questions a model leaves open.  A catalogue has waves, in order,    *)
(* each with the conditions that open it, and questions, each with a       *)
(* trigger: conditions that must all hold of a subject, or of the          *)
(* workspace.  Evaluation reads the compiled graph, the pattern            *)
(* memberships and vacancies and the evidence, as one record `index`.      *)
(*                                                                         *)
(* A selector and a condition are functions whose domains are the fields   *)
(* they state; both read kinds through the lineage unless they say         *)
(* "exact".                                                                *)
(***************************************************************************)
EXTENDS Projection

CONSTANTS AspectOf,          \* the aspect of each concept kind
          Permitted,         \* relationship kinds the table has between two core concept kinds
          CoreRelationship,  \* the core kind each relationship kind resolves to
          Narrowing,         \* [source, target] aspects an extension relationship kind keeps
          ProfileOf,         \* the profile of each qualified kind
          Loaded,            \* the profiles the compiled graph selects
          IdOrder,           \* every id, in the order ids sort
          StrongLikeness,    \* pairs of ids whose labels score at the strong threshold
          ModerateLikeness   \* pairs of ids whose labels score between the two

(***************************************************************************)
(* The index.  An architecture state is no enrichment target, and a        *)
(* retired concept has left the conversation.                              *)
(***************************************************************************)
LiveConcepts(graph) ==
  {c \in DOMAIN graph.concepts :
     ~graph.concepts[c].state /\ graph.concepts[c].status # "retired"}

\* Every reference a concept or a relationship states, as [subject, predicate, to].
ReferencesIn(facts) ==
  UNION {UNION {{[subject |-> s, predicate |-> p, to |-> t] : t \in facts[s].references[p]} :
                  p \in DOMAIN facts[s].references} : s \in DOMAIN facts}

indexGraph(graph, memberships, vacancies, evidence) ==
  [graph |-> graph, concepts |-> LiveConcepts(graph),
   references |-> ReferencesIn(graph.concepts) \cup ReferencesIn(graph.relationships),
   memberships |-> memberships, vacancies |-> vacancies, evidence |-> evidence]

Matching(rule) == Option(rule, "kindMatching", "descendants")

kindMatches(kind, selected, matching) ==
  kind \in selected \/ (matching = "descendants" /\ Lineage[kind] \cap selected # {})

OfKind(index, kinds, rule) ==
  {c \in index.concepts : kindMatches(index.graph.concepts[c].kind, kinds, Matching(rule))}

\* A subject id does not carry its document, so `documents` finds nobody.
selectSubjects(index, selector) ==
  {c \in IF "kinds" \in DOMAIN selector THEN OfKind(index, selector.kinds, selector)
         ELSE index.concepts :
     /\ "statuses" \in DOMAIN selector => index.graph.concepts[c].status \in selector.statuses
     /\ "documents" \notin DOMAIN selector}

(***************************************************************************)
(* Relationships of the kinds a condition names, at one end of a subject.  *)
(***************************************************************************)
OfRelationshipKind(index, condition) ==
  {index.graph.relationships[r] :
     r \in {q \in DOMAIN index.graph.relationships :
              kindMatches(index.graph.relationships[q].kind, condition.kinds, Matching(condition))}}

Counterparts(index, condition, id) ==
  LET edges == OfRelationshipKind(index, condition)
      Reads(direction) == condition.direction \in {direction, "either", "any"}
  IN  {e.to : e \in {f \in edges : Reads("outgoing") /\ f.from = id}}
      \cup {e.from : e \in {f \in edges : Reads("incoming") /\ f.to = id}}

\* A counterpart of a named kind: retired ones and states count as well.
linkageHits(index, condition, id) ==
  \E c \in Counterparts(index, condition, id) :
     kindMatches(index.graph.concepts[c].kind, condition.counterpartKinds, Matching(condition))

SlotHits(rows, condition) ==
  \E row \in rows :
     /\ "patternKinds" \in DOMAIN condition => row.pattern \in condition.patternKinds
     /\ "slots" \in DOMAIN condition => row.slot \in condition.slots

(***************************************************************************)
(* Identity.  Two subjects of one kind look like one when their labels do: *)
(* strongly, or moderately with one owner or a shared neighbour, unless    *)
(* either side records that they are distinct.                             *)
(***************************************************************************)
Neighbours(index, id) ==
  {index.graph.relationships[r].to :
     r \in {q \in DOMAIN index.graph.relationships : index.graph.relationships[q].from = id}}
  \cup {index.graph.relationships[r].from :
          r \in {q \in DOMAIN index.graph.relationships : index.graph.relationships[q].to = id}}

nearDuplicates(index, id) ==
  LET facts == index.graph.concepts
      Owner(c) == claimReferences(facts[c], "owner")
      Distinct(c, d) == d \in claimReferences(facts[c], "distinct-from")
      Corroborated(c) == \/ Owner(c) # {} /\ Owner(c) = Owner(id)
                         \/ Neighbours(index, c) \cap Neighbours(index, id) # {}
  IN  {c \in index.concepts \ {id} :
         /\ facts[c].kind = facts[id].kind
         /\ ~Distinct(c, id) /\ ~Distinct(id, c)
         /\ {c, id} \in StrongLikeness \/ ({c, id} \in ModerateLikeness /\ Corroborated(c))}

(***************************************************************************)
(* A kind is a label when nothing the subject takes part in would be       *)
(* refused of a core kind of another aspect.  Composite kinds are no       *)
(* alternative.                                                            *)
(***************************************************************************)
PermitsAs(index, id, alternative, edge) ==
  LET asSource == edge.from = id
      other == CoreOf[index.graph.concepts[IF asSource THEN edge.to ELSE edge.from].kind]
      pair == IF asSource THEN <<alternative, other>> ELSE <<other, alternative>>
      kept == IF asSource THEN "source" ELSE "target"
  IN  /\ CoreRelationship[edge.kind] \in Permitted[pair]
      /\ edge.kind \in DOMAIN Narrowing => AspectOf[alternative] \in Narrowing[edge.kind][kept]

Alternatives(kind) ==
  {k \in {CoreOf[c] : c \in DOMAIN CoreOf} : AspectOf[k] \notin {AspectOf[kind], "composite"}}

KindIsALabel(index, id) ==
  LET touching == {index.graph.relationships[r] :
                     r \in {q \in DOMAIN index.graph.relationships :
                              id \in {index.graph.relationships[q].from, index.graph.relationships[q].to}}}
  IN  \/ touching = {}
      \/ \E k \in Alternatives(index.graph.concepts[id].kind) :
           \A edge \in touching : PermitsAs(index, id, k, edge)

(***************************************************************************)
(* Conditions of the workspace, which a wave's gate may state, and         *)
(* conditions of a subject.                                                *)
(***************************************************************************)
WorkspaceConditions ==
  {"has-any-subject", "no-subject-of-kind", "has-subject-of-kind", "below-subject-count",
   "no-state-defined", "exists-linkage", "no-linkage-exists", "unchallenged-evidence"}

HoldsOfWorkspace(index, c) ==
  CASE c.condition = "has-any-subject" -> index.concepts # {}
    [] c.condition = "no-subject-of-kind" -> OfKind(index, c.kinds, c) = {}
    [] c.condition = "has-subject-of-kind" -> OfKind(index, c.kinds, c) # {}
    [] c.condition = "below-subject-count" -> Cardinality(OfKind(index, c.kinds, c)) < c.atLeast
    [] c.condition = "no-state-defined" -> StateIds(index.graph) = {}
    [] c.condition = "exists-linkage" -> \E id \in index.concepts : linkageHits(index, c, id)
    [] c.condition = "no-linkage-exists" -> \A id \in index.concepts : ~linkageHits(index, c, id)
    [] c.condition = "unchallenged-evidence" ->
         /\ index.evidence # {}
         /\ \A o \in index.evidence : o.result = "confirmed" /\ ~o.searched

\* What a concept states: a value, or a reference, under the predicate.
StatesClaim(facts, predicate) ==
  predicate \in facts.claims \/ claimReferences(facts, predicate) # {}

UnscopedSuccession(index, facts) ==
  \E p \in claimReferences(facts, "supersedes") :
     /\ p \notin claimReferences(facts, "supersedes-respect")
     /\ index.graph.concepts[p].status # "retired"

HoldsOfSubject(index, c, id) ==
  LET facts == index.graph.concepts[id]
      edges == index.graph.relationships
  IN  CASE c.condition = "missing-claim" -> ~StatesClaim(facts, c.predicate)
        [] c.condition = "missing-attestation" -> c.topic \notin facts.claims
        [] c.condition = "missing-reference" ->
             \A r \in {s \in index.references : s.predicate = c.predicate} :
                id # (IF c.direction = "outgoing" THEN r.subject ELSE r.to)
        [] c.condition = "missing-constraint" ->
             \A to \in claimReferences(facts, "requires") :
                ~kindMatches(index.graph.concepts[to].kind, c.kinds, Matching(c))
        [] c.condition = "missing-relationship" -> Counterparts(index, c, id) = {}
        [] c.condition = "missing-linkage" -> ~linkageHits(index, c, id)
        [] c.condition = "has-linkage" -> linkageHits(index, c, id)
        [] c.condition = "isolated" ->
             /\ Neighbours(index, id) = {}
             /\ \A r \in index.references : r.to # id
        [] c.condition = "missing-flow-content" ->
             \E r \in DOMAIN edges : /\ kindMatches(edges[r].kind, {"flow"}, "descendants")
                                     /\ id \in {edges[r].from, edges[r].to}
                                     /\ "flow-content" \notin edges[r].claims
        [] c.condition = "near-duplicate" -> nearDuplicates(index, id) # {}
        [] c.condition = "unconstrained-kind" -> KindIsALabel(index, id)
        [] c.condition = "unscoped-succession" -> UnscopedSuccession(index, facts)
        [] c.condition = "fills-pattern-slot" ->
             SlotHits({m \in ToSet(index.memberships) : m.member = id}, c)
        [] c.condition = "missing-part" ->
             SlotHits({v \in index.vacancies : v.instance = id}, c)

conditionHolds(index, c, id) ==
  IF c.condition \in WorkspaceConditions THEN HoldsOfWorkspace(index, c)
  ELSE HoldsOfSubject(index, c, id)

(***************************************************************************)
(* Evaluation.  A question is asked only in an open wave, and only when    *)
(* every kind it names belongs to a profile the graph selects; a question  *)
(* whose selector finds nobody has not been asked.                         *)
(***************************************************************************)
Stated(rule, fields) == UNION {rule[f] : f \in fields \cap DOMAIN rule}

namedKinds(question) ==
  Stated(question.subjects, {"kinds"})
  \cup UNION {Stated(question.trigger[i], {"kinds", "counterpartKinds"}) :
                i \in DOMAIN question.trigger}

questionIsApplicable(question) == \A k \in namedKinds(question) : ProfileOf[k] \in Loaded

waveOpens(index, wave) == \A c \in wave.opensWhen : HoldsOfWorkspace(index, c)

TriggeredOn(index, question, id) ==
  \A i \in DOMAIN question.trigger : conditionHolds(index, question.trigger[i], id)

ReportQuestion(index, question) ==
  IF question.scope = "workspace"
  THEN [question |-> question, asked |-> TRUE, subjects |-> {},
        open |-> \A i \in DOMAIN question.trigger : HoldsOfWorkspace(index, question.trigger[i])]
  ELSE LET selected == selectSubjects(index, question.subjects)
           matches == {id \in selected : TriggeredOn(index, question, id)}
       IN  [question |-> question, asked |-> selected # {}, subjects |-> matches,
            open |-> matches # {}]

\* The report: the questions of each open wave, waves and questions in order.
evaluateCatalogue(catalogue, index) ==
  LET ReportWave(wave) ==
        LET asked == SelectSeq(catalogue.questions,
                               LAMBDA q : q.wave = wave.id /\ questionIsApplicable(q))
        IN  IF waveOpens(index, wave)
            THEN [i \in DOMAIN asked |-> ReportQuestion(index, asked[i])] ELSE <<>>
  IN  FlattenSeq([w \in DOMAIN catalogue.waves |-> ReportWave(catalogue.waves[w])])
=============================================================================
