---------------------------- MODULE DerivedReports ----------------------------
(***************************************************************************)
(* The documents derived from a compiled model: the requirements matrix,   *)
(* the governance log, the responsibility matrix, two states compared and  *)
(* the order planned work can be built in.                                 *)
(*                                                                         *)
(* The graph is the one a projection and a reconciliation read; `status`   *)
(* is a status the vocabulary does not have when none is declared.         *)
(***************************************************************************)
EXTENDS Reconciliation

Retired(facts) == facts.status = "retired"

\* A kind and what it descends from.
Kin(kind) == {kind} \cup Lineage[kind]

CoreKind(graph, id) == CoreOf[graph.concepts[id].kind]

IsMotivation(graph, id) ==
  CoreKind(graph, id) \in DOMAIN LayerOf /\ LayerOf[CoreKind(graph, id)] = "motivation"

NonGoalKinds == {"goal", "outcome", "requirement"}

\* Scope declined is not a rule lifted: only these kinds, and only retired.
isDeclaredNonGoal(graph, id) ==
  Retired(graph.concepts[id]) /\ CoreKind(graph, id) \in NonGoalKinds

(***************************************************************************)
(* The requirements matrix.  A realizer that is retired is listed and does *)
(* not count; a relationship that is retired is not read at all.           *)
(***************************************************************************)
RowKinds == {"requirement", "constraint"}

RowCandidates(graph) == {c \in DOMAIN graph.concepts : CoreKind(graph, c) \in RowKinds}

StandingEdges(graph, coreKinds) ==
  {r \in DOMAIN graph.relationships :
     /\ ~Retired(graph.relationships[r])
     /\ CoreRelationship[graph.relationships[r].kind] \in coreKinds}

LineageOf(graph, subject) ==
  LET edges == graph.relationships
      Motivates(id) == IsMotivation(graph, id)
  IN  {[relationship |-> r, subject |-> edges[r].to,
        role |-> IF CoreRelationship[edges[r].kind] = "realization" THEN "realizes" ELSE "influences"] :
         r \in {q \in StandingEdges(graph, {"realization", "influence"}) :
                  edges[q].from = subject /\ Motivates(edges[q].to)}}
      \cup {[relationship |-> r, subject |-> edges[r].from, role |-> "influenced-by"] :
              r \in {q \in StandingEdges(graph, {"influence"}) :
                       edges[q].to = subject /\ Motivates(edges[q].from)}}

\* What was observed of a realizer, and of the relationship that makes it one.
Verdicts(observations, realizer, relationship) ==
  {x \in observations : \/ x.o.type = "subject" /\ x.o.target = <<realizer>>
                        \/ x.o.type = "claim" /\ x.o.target = <<relationship>>}

RealizersOf(graph, observations, subject) ==
  LET edges == graph.relationships
  IN  {[subject |-> edges[r].from, relationship |-> r,
        status |-> graph.concepts[edges[r].from].status,
        evidence |-> Verdicts(observations, edges[r].from, r)] :
         r \in {q \in StandingEdges(graph, {"realization"}) : edges[q].to = subject}}

IsGap(realizers) == \A r \in realizers : r.status = "retired"

buildRtm(graph, documents) ==
  LET observations == ObservationsOf(documents)
      rows == {c \in RowCandidates(graph) : ~Retired(graph.concepts[c])}
      Row(c) == LET realizers == RealizersOf(graph, observations, c)
                IN  [subject |-> c, gap |-> IsGap(realizers), realizers |-> realizers,
                     lineage |-> LineageOf(graph, c), attestations |-> graph.concepts[c].attestations]
  IN  [rows |-> {Row(c) : c \in rows},
       descoped |-> {[subject |-> c, reason |-> IF isDeclaredNonGoal(graph, c) THEN "non-goal"
                                                ELSE "lifted-constraint"] :
                       c \in RowCandidates(graph) \ rows},
       motivationContext |-> {c \in DOMAIN graph.concepts :
                                IsMotivation(graph, c) /\ c \notin RowCandidates(graph)}]

(***************************************************************************)
(* The governance log: every risk and assumption, whatever its status.     *)
(***************************************************************************)
governanceTypeOf(kind) == Kin(kind) \cap {"risk", "assumption"}

ReviewTopics == [risk |-> "risk-reviewed", assumption |-> "assumption-confirmed"]

Targets(graph, subject, coreKind) ==
  {e.to : e \in {f \in Range(graph.relationships) :
                   f.from = subject /\ CoreRelationship[f.kind] = coreKind}}

Sources(graph, subject, coreKinds) ==
  {e.from : e \in {f \in Range(graph.relationships) :
                     f.to = subject /\ CoreRelationship[f.kind] \in coreKinds}}

\* The latest, as a set of at most one.
latestReview(facts, topic) ==
  LET given == {a \in facts.attestations : a.topic = topic}
  IN  IF given = {} THEN {} ELSE {CHOOSE a \in given : \A b \in given : b.on <= a.on}

GovernanceRow(graph, subject, type) ==
  LET facts == graph.concepts[subject]
  IN  [subject |-> subject, type |-> type, status |-> facts.status,
       owner |-> claimReferences(facts, "owner"),
       threatens |-> IF type = "risk" THEN Targets(graph, subject, "influence") ELSE {},
       bearsOn |-> IF type = "assumption" THEN Targets(graph, subject, "association") ELSE {},
       mitigatedBy |-> IF type = "risk"
                       THEN Sources(graph, subject, {"influence", "association"}) ELSE {},
       review |-> latestReview(facts, ReviewTopics[type]),
       supersedes |-> claimReferences(facts, "supersedes"),
       groupedBy |-> Sources(graph, subject, {"aggregation"})]

\* Variant: a risk counts as open once somebody gave it a status.
UnmitigatedAmongCurrent(rows) ==
  {r.subject : r \in {q \in rows : q.type = "risk" /\ q.status = "current" /\ q.mitigatedBy = {}}}

Unmitigated(rows) ==
  {r.subject : r \in {q \in rows : q.type = "risk" /\ q.status # "retired" /\ q.mitigatedBy = {}}}

buildGovernanceLog(graph) ==
  LET rows == UNION {{GovernanceRow(graph, c, t) : t \in governanceTypeOf(graph.concepts[c].kind)} :
                       c \in DOMAIN graph.concepts}
      Without(type, field) == {r.subject : r \in {q \in rows : q.type \in type /\ q[field] = {}}}
  IN  [rows |-> rows,
       gaps |-> [unowned |-> Without({"risk", "assumption"}, "owner"),
                 unmitigated |-> Unmitigated(rows),
                 unconfirmed |-> Without({"assumption"}, "review"),
                 unreviewed |-> Without({"risk"}, "review")]]

(***************************************************************************)
(* The responsibility matrix, a set of letters [row, person, letter].  An  *)
(* owner is accountable; a responsibility relationship says R, C or I; and *)
(* whoever signed something off was consulted on it.                       *)
(***************************************************************************)
PeopleKinds == {"businessActor", "businessRole", "businessCollaboration", "stakeholder"}

isPerson(graph, id) == Kin(graph.concepts[id].kind) \cap PeopleKinds # {}

LetterOf == [responsible |-> "R", consulted |-> "C", informed |-> "I"]

responsibilityLetterOf(kind) == {LetterOf[k] : k \in Kin(kind) \cap DOMAIN LetterOf}

MatrixRows(graph) == {c \in DOMAIN graph.concepts : ~isPerson(graph, c)}

LettersOn(graph, row) ==
  {[row |-> row, person |-> p, letter |-> "A"] : p \in claimReferences(graph.concepts[row], "owner")}
  \cup UNION {{[row |-> row, person |-> e.from, letter |-> l] : l \in responsibilityLetterOf(e.kind)} :
                e \in {f \in Range(graph.relationships) : f.to = row}}
  \cup {[row |-> row, person |-> a.by, letter |-> "C"] : a \in graph.concepts[row].attestations}

buildResponsibilityMatrix(graph) ==
  LET cells == UNION {LettersOn(graph, row) : row \in MatrixRows(graph)}
      people == {c \in DOMAIN graph.concepts : isPerson(graph, c)} \cup {x.person : x \in cells}
      Lacks(letter) == MatrixRows(graph) \ {x.row : x \in {y \in cells : y.letter = letter}}
  IN  [cells |-> cells, people |-> people,
       served |-> people \cap UNION {{e.to : e \in {f \in Range(graph.relationships) :
                                                      CoreRelationship[f.kind] = "serving"}}},
       noAccountable |-> Lacks("A"), noResponsible |-> Lacks("R"),
       idle |-> people \ {x.person : x \in cells}]

(***************************************************************************)
(* Two architecture states compared.  What states no presence is in all of *)
(* them; a relationship is there when both of its ends are.                *)
(***************************************************************************)
PresentIn(facts, state) ==
  claimReferences(facts, "present-in") = {} \/ state \in claimReferences(facts, "present-in")

subjectsIn(graph, state) ==
  LET concepts == {c \in DOMAIN graph.concepts \ StateIds(graph) : PresentIn(graph.concepts[c], state)}
  IN  concepts \cup {r \in DOMAIN graph.relationships :
                       /\ PresentIn(graph.relationships[r], state)
                       /\ {graph.relationships[r].from, graph.relationships[r].to} \subseteq concepts}

compareArchitectureStates(graph, from, to) ==
  LET unknown == {from, to} \ StateIds(graph)
      before == subjectsIn(graph, from)
      after == subjectsIn(graph, to)
  IN  IF unknown # {} THEN [ok |-> FALSE, issues |-> {<<"YMS101", s>> : s \in unknown}]
      ELSE [ok |-> TRUE, added |-> after \ before, removed |-> before \ after,
            retained |-> before \cap after]

(***************************************************************************)
(* What to build next: the planned concepts a view selects, prerequisites  *)
(* first, in rounds and by id within one.  What no round can reach follows *)
(* and is marked, whether it stands on a cycle or only behind one.         *)
(***************************************************************************)
PrerequisiteEnd == [realization |-> "from", serving |-> "from", triggering |-> "from", flow |-> "from",
                    composition |-> "to", aggregation |-> "to", access |-> "to",
                    specialization |-> "to"]

Dependencies(graph, selected, planned) ==
  LET Oriented == {e \in {graph.relationships[r] : r \in selected \cap DOMAIN graph.relationships} :
                     CoreRelationship[e.kind] \in DOMAIN PrerequisiteEnd}
      Pair(e) == IF PrerequisiteEnd[CoreRelationship[e.kind]] = "from" THEN <<e.from, e.to>>
                 ELSE <<e.to, e.from>>
  IN  {<<first, then>> \in {Pair(e) : e \in Oriented} : first # then /\ {first, then} \subseteq planned}

InOrder(ids) == SelectSeq(IdOrder, LAMBDA id : id \in ids)

\* Variant: a piece is ready when one of the things it needs is there.
ReadyAfterOne(dependencies, planned, emitted) ==
  {p \in planned \ ToSet(emitted) :
     LET needs == {d[1] : d \in {e \in dependencies : e[2] = p}}
     IN  needs = {} \/ needs \cap ToSet(emitted) # {}}

Ready(dependencies, planned, emitted) ==
  {p \in planned \ ToSet(emitted) :
     {d[1] : d \in {e \in dependencies : e[2] = p}} \subseteq ToSet(emitted)}

Ordered(dependencies, planned) ==
  FoldLeft(LAMBDA emitted, round : emitted \o InOrder(Ready(dependencies, planned, emitted)),
           <<>>, [i \in 1 .. Cardinality(planned) |-> i])

\* Whose tally an observation joins: a relationship's is its ends'.
coverageTargets(graph, o) ==
  IF o.target[1] \in DOMAIN graph.relationships
  THEN {graph.relationships[o.target[1]].from, graph.relationships[o.target[1]].to}
  ELSE IF o.type = "claim" /\ o.target \notin ClaimIds(graph) THEN {} ELSE {o.target[1]}

buildNextSubjects(graph, selected, documents) ==
  LET planned == {c \in selected \cap DOMAIN graph.concepts : graph.concepts[c].status = "planned"}
      dependencies == Dependencies(graph, selected, planned)
      ordered == Ordered(dependencies, planned)
      order == ordered \o InOrder(planned \ ToSet(ordered))
  IN  [i \in DOMAIN order |->
         [id |-> order[i], cycle |-> order[i] \notin ToSet(ordered),
          dependsOn |-> {d[1] : d \in {e \in dependencies : e[2] = order[i]}},
          requiredBy |-> {d[2] : d \in {e \in dependencies : e[1] = order[i]}},
          evidence |-> {x \in ObservationsOf(documents) :
                          order[i] \in coverageTargets(graph, x.o)}]]
=============================================================================
