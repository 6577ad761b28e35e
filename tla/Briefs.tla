-------------------------------- MODULE Briefs --------------------------------
(***************************************************************************)
(* What is read out of a workspace in prose: the roster, the backlog, the  *)
(* open questions, and the slice around what a question is about, in       *)
(* itself, as advice, as locations or as the review of a change.           *)
(*                                                                         *)
(* A workspace is [check, graph, documents, views, catalogue, memberships, *)
(* vacancies]: the verdict on its sources, what they compile to, its       *)
(* evidence, its views and the composed catalogue.  A refusal is a tuple.  *)
(***************************************************************************)
EXTENDS DerivedReports, SignOffs

SeedLimit == 5
CandidateLimit == 30

IdBefore(a, b) ==
  SelectInSeq(IdOrder, LAMBDA id : id = a) < SelectInSeq(IdOrder, LAMBDA id : id = b)

\* The concepts a reader may ask for: a planning state is none of them.
conceptEntries(graph) == DOMAIN graph.concepts \ StateIds(graph)

(***************************************************************************)
(* Terms that are all ids name their subjects.  Otherwise each entry is    *)
(* scored by the words its text contains; `mentions` says which those are. *)
(***************************************************************************)
resolveSeeds(terms, entries, mentions) ==
  LET Score(id) == Cardinality(terms \cap mentions[id])
      Before(a, b) == Score(a) > Score(b) \/ (Score(a) = Score(b) /\ IdBefore(a, b))
      scored == SetToSortSeq({e \in entries : Score(e) > 0}, Before)
      Leading(n) == SubSeq(scored, 1, IF Len(scored) < n THEN Len(scored) ELSE n)
  IN  IF terms \subseteq entries
      THEN [addressing |-> "subjects", seeds |-> terms, matched |-> Cardinality(terms),
            candidates |-> SetToSortSeq(terms, IdBefore)]
      ELSE [addressing |-> "free-text", seeds |-> ToSet(Leading(SeedLimit)), matched |-> Len(scored),
            candidates |-> Leading(CandidateLimit)]

(***************************************************************************)
(* The slice: the seeds and what one relationship reaches from them, each  *)
(* seed keeping its most material neighbours.  0 lifts the cap, and what   *)
(* was left out is announced.                                              *)
(***************************************************************************)
materialityRank(graph, id) ==
  IF IsMotivation(graph, id) THEN 0
  ELSE CASE graph.concepts[id].status = "planned" -> 1
         [] graph.concepts[id].status = "retired" -> 3
         [] OTHER -> 2

EndsIn(graph, subjects) ==
  {<<graph.relationships[r].from, graph.relationships[r].to>> :
     r \in subjects \cap DOMAIN graph.relationships}

NeighboursOf(ends, seeds) ==
  [s \in seeds |-> {e[2] : e \in {f \in ends : f[1] = s /\ f[2] \notin seeds}}
                   \cup {e[1] : e \in {f \in ends : f[2] = s /\ f[1] \notin seeds}}]

Outranks(graph, neighbours, a, b) ==
  LET Affinity(n) == Cardinality({s \in DOMAIN neighbours : n \in neighbours[s]})
      Rank(n) == materialityRank(graph, n)
  IN  \/ Rank(a) < Rank(b)
      \/ Rank(a) = Rank(b) /\ Affinity(a) > Affinity(b)
      \/ Rank(a) = Rank(b) /\ Affinity(a) = Affinity(b) /\ IdBefore(a, b)

KeptNeighbours(graph, neighbours, cap) ==
  UNION {{n \in neighbours[s] :
            Cardinality({m \in neighbours[s] : Outranks(graph, neighbours, m, n)}) < cap} :
           s \in DOMAIN neighbours}

SliceView(seeds) ==
  [query |-> [subjects |-> seeds, relationships |-> "connected"],
   presentation |-> [showResponsibility |-> TRUE]]

Sliced(graph, seeds, cap, full) ==
  LET neighbours == NeighboursOf(EndsIn(graph, full), seeds)
      kept == KeptNeighbours(graph, neighbours, cap)
      omitted == UNION Range(neighbours) \ kept
      between == {r \in full \cap DOMAIN graph.relationships :
                    {graph.relationships[r].from, graph.relationships[r].to} \subseteq seeds \cup kept}
  IN  IF cap = 0 \/ omitted = {} THEN [subjects |-> full, omitted |-> {}]
      ELSE [subjects |-> seeds \cup kept \cup between, omitted |-> omitted]

sliceProjection(graph, seeds, cap) ==
  Sliced(graph, seeds, cap, evaluateProjection(graph, <<>>, SliceView(seeds)))

(***************************************************************************)
(* The prose of a slice under a budget: its subjects first, then a line    *)
(* for every relationship, description and detail, each kind under a       *)
(* heading.  A line that does not fit is left out and counted, and the     *)
(* ones after it are still tried; a heading is written for a line only.    *)
(***************************************************************************)
HeaderCost == 1
HeadingCost == 1
CostOf(line) == IF line.of = "description" THEN 2 ELSE 1

DetailPredicates == {"owner", "requires", "refers-to", "present-in"}

LinesAbout(subjects, Lines(_)) ==
  FlattenSeq([i \in DOMAIN InOrder(subjects) |-> SetToSeq(Lines(InOrder(subjects)[i]))])

SubjectLines(graph, slice) ==
  LinesAbout(slice \cap DOMAIN graph.concepts, LAMBDA s : {[of |-> "subject", about |-> s]})

DetailSections(graph, slice) ==
  LET Details(s) == UNION {{[of |-> "detail", about |-> s, states |-> p, to |-> t] : t \in FactsOf(graph, s).references[p]} :
                             p \in DOMAIN FactsOf(graph, s).references \cap DetailPredicates}
      Description(s) == {[of |-> f, about |-> s] : f \in FactsOf(graph, s).claims \cap {"description"}}
  IN  <<LinesAbout(slice \cap DOMAIN graph.relationships, LAMBDA r : {[of |-> "relationship", about |-> r]}),
        LinesAbout(slice, Description), LinesAbout(slice, Details)>>

\* What fits of some lines, from what was spent before them.
Fill(lines, spent, budget) ==
  FoldLeft(LAMBDA done, l : IF done.spent + CostOf(l) > budget THEN done
                            ELSE [spent |-> done.spent + CostOf(l), kept |-> done.kept \cup {l}],
           [spent |-> spent, kept |-> {}], lines)

FillSections(sections, spent, budget) ==
  FoldLeft(LAMBDA done, lines :
             LET filled == Fill(lines, done.spent + HeadingCost, budget)
             IN  IF filled.kept = {} THEN done
                 ELSE [spent |-> filled.spent, kept |-> done.kept \cup filled.kept],
           [spent |-> spent, kept |-> {}], sections)

renderBudgetedContext(graph, slice, budget) ==
  LET first == Fill(SubjectLines(graph, slice), HeaderCost, budget)
      rest == FillSections(DetailSections(graph, slice), first.spent, budget)
      kept == first.kept \cup rest.kept
  IN  [kept |-> kept,
       omitted |-> (ToSet(SubjectLines(graph, slice))
                    \cup UNION {ToSet(s) : s \in ToSet(DetailSections(graph, slice))}) \ kept]

(***************************************************************************)
(* The modes that ask for no subject.                                      *)
(***************************************************************************)
WholeWorkspace(workspace) ==
  evaluateProjection(workspace.graph, <<>>, [query |-> [f \in {} |-> {}], presentation |-> [f \in {} |-> {}]])

backlog(workspace) ==
  buildNextSubjects(workspace.graph, WholeWorkspace(workspace), workspace.documents)

AllObservations(documents) ==
  UNION {ToSet(documents[d].observations) : d \in DOMAIN documents}

openReport(workspace) ==
  evaluateCatalogue(workspace.catalogue,
                    indexGraph(workspace.graph, workspace.memberships, workspace.vacancies,
                               AllObservations(workspace.documents)))

\* Evidence that is refused refuses every mode that reads it.
askNext(workspace) ==
  IF evaluateEvidenceWorkspace(workspace.graph, workspace.documents) # {}
  THEN <<[refused |-> "evidence"]>> ELSE backlog(workspace)

askOrientation(workspace) ==
  LET graph == workspace.graph
      WithStatus(status) == {c \in conceptEntries(graph) : graph.concepts[c].status = status}
  IN  IF ~workspace.check.ok THEN [ok |-> FALSE, diagnostics |-> workspace.check.diagnostics]
      ELSE [ok |-> TRUE,
            findings |-> IF workspace.documents = <<>> THEN {}
                         ELSE reconcileEvidenceReports(graph, workspace.documents, {},
                                                       [assessed |-> FALSE]).findings,
            open |-> {i \in DOMAIN openReport(workspace) : openReport(workspace)[i].open},
            planned |-> askNext(workspace), current |-> WithStatus("current"),
            retired |-> WithStatus("retired")]

askRoster(graph, kinds, statuses) ==
  {c \in conceptEntries(graph) : graph.concepts[c].kind \in kinds /\ graph.concepts[c].status \in statuses}

(***************************************************************************)
(* The modes about something.  Advice is the slice, the open questions     *)
(* that touch it and the findings that do.  A workspace question touches   *)
(* every slice.                                                            *)
(***************************************************************************)
QuestionsAbout(report, slice) ==
  UNION {IF ~q.open THEN {}
         ELSE IF q.question.scope = "workspace" THEN {[question |-> q.question.id, about |-> {}]}
         ELSE {[question |-> q.question.id, about |-> {s}] : s \in q.subjects \cap slice} :
           q \in ToSet(report)}

\* A finding about a concept of the slice, or about the claim of a relationship one of
\* them is an end of; one about another claim touches no slice.
Touches(graph, finding, slice) ==
  LET id == finding.target[1]
  IN  \/ finding.type = "subject" /\ id \in slice
      \/ /\ finding.type = "claim" /\ Len(finding.target) = 1 /\ id \in DOMAIN graph.relationships
         /\ {graph.relationships[id].from, graph.relationships[id].to} \cap slice # {}

AdviceOn(workspace, sliced) ==
  LET graph == workspace.graph
      slice == sliced.subjects \cap DOMAIN graph.concepts
      report == reconcileEvidenceReports(graph, workspace.documents, {}, [assessed |-> FALSE])
  IN  [slice |-> sliced, openQuestions |-> QuestionsAbout(openReport(workspace), slice),
       findings |-> IF workspace.documents = <<>> THEN {}
                    ELSE {f \in report.findings : Touches(graph, f, slice)}]

advice(workspace, seeds, cap) == AdviceOn(workspace, sliceProjection(workspace.graph, seeds, cap))

\* Locations: what was observed of a seed or of a claim it states.
where(workspace, seeds) ==
  LET Of(seed) == {x \in ObservationsOf(workspace.documents) : x.o.target[1] = seed}
  IN  [located |-> [s \in {t \in seeds : Of(t) # {}} |-> Of(s)],
       unobserved |-> {s \in seeds : Of(s) = {}}]

\* The review of a change: its subjects and the ends of its relationships.
ReviewOf(workspace, changed, cap) ==
  LET graph == workspace.graph
      seeds == (changed \cap DOMAIN graph.concepts) \cup EndsOf(graph, changed \cap DOMAIN graph.relationships)
      covered == UNION {evaluateProjection(graph, workspace.memberships, v) : v \in workspace.views}
  IN  [seeds |-> seeds, changed |-> changed, uncovered |-> changed \ covered,
       slice |-> sliceProjection(graph, seeds, cap)]

reviewSlice(workspace, base, document, cap) ==
  ReviewOf(workspace, deriveChangedSubjects(base, document).changed \cap Subjects(workspace.graph), cap)

\* A slice by words or ids; words that match nothing are refused.
askSlice(workspace, terms, mentions, cap) ==
  LET resolution == resolveSeeds(terms, conceptEntries(workspace.graph), mentions)
  IN  IF resolution.seeds = {} THEN [ok |-> FALSE]
      ELSE [ok |-> TRUE, resolution |-> resolution,
            slice |-> sliceProjection(workspace.graph, resolution.seeds, cap)]

(***************************************************************************)
(* The next question to put, `about` being one subject or none: the first  *)
(* that is open, waves and questions in order.  About a subject, questions *)
(* of the workspace are passed over.                                       *)
(***************************************************************************)
selectStep(report, about) ==
  SelectSeq(report, LAMBDA q : /\ q.open
                               /\ about # {} => /\ q.question.scope # "workspace"
                                               /\ q.subjects \cap about # {})

StepOf(workspace, about, steps) ==
  LET subjects == IF about = {} THEN Head(steps).subjects ELSE Head(steps).subjects \cap about
      first == {s \in subjects : \A t \in subjects : s = t \/ IdBefore(s, t)}
  IN  IF ~(about \subseteq Subjects(workspace.graph)) THEN [ok |-> FALSE]
      ELSE IF steps = <<>> THEN [ok |-> TRUE, question |-> {}, openSubjects |-> {}, slice |-> {}]
      ELSE [ok |-> TRUE, question |-> {Head(steps).question.id}, openSubjects |-> subjects,
            slice |-> IF first = {} THEN {}
                      ELSE evaluateProjection(workspace.graph, <<>>, SliceView(first))]

designStep(workspace, about) == StepOf(workspace, about, selectStep(openReport(workspace), about))
=============================================================================
