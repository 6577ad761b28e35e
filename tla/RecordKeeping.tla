----------------------------- MODULE RecordKeeping -----------------------------
(***************************************************************************)
(* One document over the life of a model.  People write it and sign off    *)
(* what it says, commits are made, a workbook leaves and comes back, and   *)
(* somebody observes what was built; whatever is read out of the model -   *)
(* reports, questions, briefs, the review of a change - is read of it as   *)
(* it stands.                                                              *)
(***************************************************************************)
EXTENDS Workbook, Briefs, FiniteSetsExt

CONSTANTS OpeningDocument,   \* what the first commit holds
          Words,             \* texts nobody has written yet, in the order they are used
          Wordings,          \* [id, field] a person may reword
          Restatements,      \* [id, field, text] a person may set
          Links,             \* the relationships a person may add, by id
          SignOffChoices,    \* [id, topic, by, recordedBy]
          Observations,      \* evidence documents that may be brought in, as sequences
          CellEdits,         \* [sheet, id, column, to] the author of a workbook may make
          NewRows,           \* [sheet, id, cells] the author may add
          Catalogue,         \* the composed catalogue
          Views,             \* the workspace's views
          Cap, Budget,       \* what a review is asked for with
          Bounds             \* for each repertoire, how often each gesture is made

VARIABLES document,    \* the document as it is on disk
          graph,       \* what it compiles to
          commits,     \* [day, document], oldest first
          day,
          evidence,    \* the evidence documents, a sequence
          book,        \* the workbook that left, or none
          plan,        \* what an import has read and not yet applied
          repertoire,  \* which gestures this behaviour is made of
          spent        \* how often each was made; fresh words are counted by it too

vars == <<document, graph, commits, day, evidence, book, plan, repertoire, spent>>

(***************************************************************************)
(* What the document compiles to.                                          *)
(***************************************************************************)
ReferenceField == ("owner" :> "owner") @@ ("requires" :> "constraints")
                  @@ ("present-in" :> "presentIn") @@ ("supersedes" :> "supersedes")

EntryText(d, entry, field) == Head(FieldTexts(d, entry, field))[1]

StatedFacts(d, entry) ==
  LET Stating == {p \in DOMAIN ReferenceField : HasField(d, entry, ReferenceField[p])}
      Referred(p) == {t[1] : t \in ToSet(FieldTexts(d, entry, ReferenceField[p]))}
  IN  [kind |-> FirstCell(d, entry, "kind")[1], document |-> Path[1],
       status |-> IF HasField(d, entry, "status") THEN EntryText(d, entry, "status") ELSE "active",
       state |-> HasField(d, entry, "type"),
       claims |-> {f \in {"name", "description"} : HasField(d, entry, f)}
                  \cup {a.topic : a \in AttestationsOf(d, entry)},
       references |-> [p \in Stating |-> Referred(p)],
       attestations |-> AttestationsOf(d, entry),
       expects |-> {[provider |-> t[1], key |-> t[2], value |-> t[3]] :
                      t \in ToSet(FieldTexts(d, entry, "expects"))}]

Edges(d) == {e \in EntriesOf(d) : HasField(d, e, "from")}

GraphOf(d) ==
  [concepts |-> [e \in EntriesOf(d) \ Edges(d) |-> StatedFacts(d, e)],
   relationships |-> [e \in Edges(d) |-> StatedFacts(d, e) @@ [from |-> EntryText(d, e, "from"),
                                                               to |-> EntryText(d, e, "to")]]]

\* What the compiler refuses of such a document.
KindOf(d, entry) == FirstCell(d, entry, "kind")[1]

ReferredTo(d, entry) ==
  {l.text[1] : l \in {k \in ToSet(d) : k.entry = entry /\ k.field \in Range(ReferenceField)}}
  \cup {a.by : a \in AttestationsOf(d, entry)}

Compiles(d) ==
  LET concepts == EntriesOf(d) \ Edges(d)
      End(e, field) == EntryText(d, e, field)
      Core(c) == CoreOf[KindOf(d, c)]
  IN  /\ \A e \in EntriesOf(d) :
           LET kinds == FieldTexts(d, e, "kind")
           IN  kinds # <<>> /\ Head(kinds) \in DOMAIN Qualified
      /\ \A c \in concepts : KindOf(d, c) \in DOMAIN CoreOf /\ ReferredTo(d, c) \subseteq concepts
      /\ \A e \in Edges(d) :
           /\ KindOf(d, e) \in DOMAIN CoreRelationship
           /\ {End(e, "from"), End(e, "to")} \subseteq concepts
           /\ CoreRelationship[KindOf(d, e)] \in Permitted[<<Core(End(e, "from")), Core(End(e, "to"))>>]

Held == [evidence |-> evidence, projections |-> {v.query : v \in Views}, mappings |-> <<>>,
         catalogues |-> <<>>, instances |-> {}]

Loading == [s \in ToSet(LoadingStages) |-> {}]

Compilation == [ok |-> TRUE, diagnostics |-> {}, graph |-> graph]

Workspace ==
  [check |-> checkSources(Loading, Compilation, Held, FALSE), graph |-> graph,
   documents |-> evidence, views |-> Views, catalogue |-> Catalogue,
   memberships |-> <<>>, vacancies |-> {}]

(***************************************************************************)
(* Gestures, each of which a repertoire allows a number of times.          *)
(***************************************************************************)
Nothing == [some |-> FALSE]

Gestures == UNION {DOMAIN Bounds[r] : r \in DOMAIN Bounds}

Init ==
  /\ document = OpeningDocument
  /\ graph = GraphOf(OpeningDocument)
  /\ commits = <<[day |-> 1, document |-> OpeningDocument]>>
  /\ day = 1
  /\ evidence = <<>>
  /\ book = Nothing
  /\ plan = Nothing
  /\ repertoire \in DOMAIN Bounds
  /\ spent = [g \in Gestures |-> 0]

Makes(gesture) ==
  /\ gesture \in DOMAIN Bounds[repertoire]
  /\ spent[gesture] < Bounds[repertoire][gesture]
  /\ spent' = [spent EXCEPT ![gesture] = @ + 1]
  /\ UNCHANGED repertoire

\* What does not compile does not land.
Leaves(d) ==
  /\ d # document /\ Compiles(d)
  /\ document' = d
  /\ graph' = GraphOf(d)
  /\ UNCHANGED <<commits, day, evidence, book, plan>>

Applies(operations) ==
  /\ \A o \in operations : ~Refused(document, o)
  /\ \E d \in {Written(document, operations)} : Leaves(d)

Set(id, field, text) ==
  [op |-> "update", sheet |-> SheetOf(document, id), id |-> id, path |-> Path, set |-> (field :> text)]

Reword(id, field) ==
  /\ id \in EntriesOf(document)
  /\ Makes("reword")
  /\ Applies({Set(id, field, Words[spent'["reword"]])})

Restate(choice) ==
  /\ choice.id \in EntriesOf(document)
  /\ Makes("restate")
  /\ Applies({Set(choice.id, choice.field, choice.text)})

\* Nothing a commit ever held is written a second time: git would call it moved.
Fresh(id) == \A i \in DOMAIN commits : id \notin EntriesOf(commits[i].document)

Link(id) ==
  /\ id \notin EntriesOf(document) /\ Fresh(id)
  /\ Makes("link")
  /\ Applies({[op |-> "add", sheet |-> "02 Relationships", id |-> id, path |-> Path,
                set |-> Links[id]]})

TakesOut(lines) == \E d \in {SelectSeq(document, LAMBDA l : l \notin lines)} : Leaves(d)

\* delete-relationship, and a hand that takes a description out.
Unlink(id) ==
  /\ id \in Edges(document)
  /\ Makes("unlink")
  /\ TakesOut({l \in ToSet(document) : l.entry = id})

Strike(id) ==
  /\ Makes("strike")
  /\ TakesOut({l \in ToSet(document) : l.entry = id /\ l.field = "description"})

\* attestations is a list: an update puts a new one after those there are.
AfterLast(entry) ==
  LET signed == SelectLastInSeq(document, LAMBDA l : l.entry = entry /\ l.field = "attestation")
  IN  IF signed # 0 THEN signed ELSE SelectLastInSeq(document, LAMBDA l : l.entry = entry)

SignOff(choice) ==
  LET line == [entry |-> choice.id, field |-> "attestation",
               text |-> <<choice.topic, choice.by, choice.recordedBy, day>>]
  IN  /\ choice.id \in EntriesOf(document) /\ line \notin ToSet(document)
      /\ Makes("signoff")
      /\ \E d \in {InsertAt(document, AfterLast(choice.id) + 1, line)} : Leaves(d)

Commit ==
  /\ document # Last(commits).document
  /\ Makes("commit")
  /\ commits' = Append(commits, [day |-> day, document |-> document])
  /\ UNCHANGED <<document, graph, day, evidence, book, plan>>

DayPasses ==
  /\ Makes("day")
  /\ day' = day + 1
  /\ UNCHANGED <<document, graph, commits, evidence, book, plan>>

Observe(documents) ==
  /\ documents # evidence
  /\ Makes("observe")
  /\ evidence' = documents
  /\ UNCHANGED <<document, graph, commits, day, book, plan>>

(***************************************************************************)
(* The workbook: exported, edited and imported.  An import reads the       *)
(* workspace and merges; what it decided lands on the document as it is    *)
(* by then.                                                                *)
(***************************************************************************)
Export ==
  /\ Makes("export")
  /\ book' = exported(document, IdOrder)
  /\ UNCHANGED <<document, graph, commits, day, evidence, plan>>

Works(sheet, rows) ==
  /\ book' = [book EXCEPT !.working[sheet] = rows]
  /\ UNCHANGED <<document, graph, commits, day, evidence, plan>>

EditCell(edit) ==
  /\ book # Nothing
  /\ LET rows == book.working[edit.sheet]
         at == SelectInSeq(rows, LAMBDA r : r.id = edit.id)
     IN  /\ at # 0 /\ rows[at].cells[edit.column] # edit.to
         /\ Works(edit.sheet, [rows EXCEPT ![at].cells[edit.column] = edit.to])
  /\ Makes("cell")

AddRow(row) ==
  /\ book # Nothing
  /\ Works(row.sheet, Append(book.working[row.sheet], [id |-> row.id, cells |-> row.cells]))
  /\ Makes("row")

\* A conflict refuses the workbook, and nothing to do ends the command.
ImportRead ==
  /\ book # Nothing /\ plan = Nothing
  /\ LET planned == importPlan(book, document, IdOrder)
     IN  /\ planned.conflicts = {} /\ planned.operations # {}
         /\ plan' = [book |-> book, read |-> document, operations |-> planned.operations]
  /\ Makes("import")
  /\ UNCHANGED <<document, graph, commits, day, evidence, book>>

ImportLands ==
  /\ plan # Nothing
  /\ plan' = Nothing
  /\ \E d \in {Written(document, plan.operations)} :
       LET lands == (\A o \in plan.operations : ~Refused(document, o)) /\ Compiles(d)
       IN  /\ document' = IF lands THEN d ELSE document
           /\ graph' = IF lands THEN GraphOf(d) ELSE graph
  /\ UNCHANGED <<commits, day, evidence, book, repertoire, spent>>

Next ==
  \/ \E w \in Wordings : Reword(w.id, w.field) \/ Strike(w.id)
  \/ \E r \in Restatements : Restate(r)
  \/ \E id \in DOMAIN Links : Link(id)
  \/ \E id \in Edges(document) : Unlink(id)
  \/ \E s \in SignOffChoices : SignOff(s)
  \/ Commit \/ DayPasses
  \/ \E o \in Observations : Observe(o)
  \/ Export \/ ImportRead \/ ImportLands
  \/ \E e \in CellEdits : EditCell(e)
  \/ \E r \in NewRows : AddRow(r)

Spec == Init /\ [][Next]_vars

(***************************************************************************)
(* A sign-off is stale exactly when what it was given for reads otherwise  *)
(* today than in the last commit of its day: its name or its description   *)
(* is a line that commit does not have, or the line after it went          *)
(* (deriveAttestationStaleness).  A rewording that was undone, an entry    *)
(* that moved, a change next door and a sign-off of another topic do not   *)
(* matter, however many commits lie between.                               *)
(***************************************************************************)
NextLineWent(base, line) ==
  LET then == LineAt(base, line) + 1
      now == LineAt(document, line) + 1
  IN  /\ line \in ToSet(base) /\ then \in DOMAIN base /\ base[then] \notin ToSet(document)
      /\ now \in DOMAIN document => document[now] \in ToSet(base)

RewordedSince(base, entry) ==
  {l.field : l \in {k \in ToSet(document) : /\ k.entry = entry /\ k.field \in Wording
                                            /\ k \notin ToSet(base) \/ NextLineWent(base, k)}}

StaleWhenReworded ==
  LET found == deriveAttestationStaleness("full", commits, document).findings
  IN  \A s \in SignOffsIn(document) :
        LET covered == Covered(commits, s.attestation)
            reworded == IF covered = {} THEN {}
                        ELSE RewordedSince(commits[Cardinality(covered)].document, s.entry)
        IN  {f.fields : f \in {g \in found : g.target = <<s.entry>> /\ g.attestation = s.attestation}}
              = IF reworded = {} THEN {} ELSE {reworded}

(***************************************************************************)
(* The review of what changed since a commit (ask --changed) shows every   *)
(* concept and relationship that reads otherwise than it did there, and a  *)
(* relationship's ends with it, however few neighbours are asked for;      *)
(* nothing it shows hangs in the air; and its prose under a budget         *)
(* (ask --changed --budget) accounts for all it shows, and leaves out only *)
(* what would not have fitted.                                             *)
(***************************************************************************)
LinesOf(d, entry) == SelectSeq(d, LAMBDA l : l.entry = entry)

SpentOn(lines) ==
  HeaderCost + MapThenSumSet(CostOf, lines)
  + HeadingCost * Cardinality({l.of : l \in lines} \ {"subject"})

FitsAsTold(slice) ==
  LET told == renderBudgetedContext(graph, slice, Budget)
      lines == told.kept \cup told.omitted
  IN  /\ {l.about : l \in {k \in lines : k.of \in {"subject", "relationship"}}} = slice
      /\ told.kept # {} => SpentOn(told.kept) <= Budget
      /\ \A o \in told.omitted : SpentOn(told.kept \cup {o}) > Budget

ReviewShows(base, review) ==
  LET shown == review.slice.subjects
      edges == graph.relationships
      Reads(e) == LinesOf(document, e) = LinesOf(base, e)
      With(e) == IF e \in DOMAIN edges THEN {e, edges[e].from, edges[e].to} ELSE {e}
  IN  /\ \A e \in EntriesOf(document) \ StatesIn(document) :
           Reads(e) \/ (e \in review.changed /\ With(e) \subseteq shown)
      /\ \A e \in shown : With(e) \subseteq shown
      /\ FitsAsTold(shown)

ReviewShowsEveryChange ==
  \A i \in DOMAIN commits :
    ReviewShows(commits[i].document, reviewSlice(Workspace, commits[i].document, document, Cap))

(***************************************************************************)
(* An import lands what the author of the workbook wrote, and nothing      *)
(* else: a cell that changes is one the author changed, and the model read *)
(* as it was exported, or already as the author wants it, when the import  *)
(* looked; what others wrote meanwhile stands (runImportCommand).          *)
(***************************************************************************)
CellOfAuthor(rows, entry, column) ==
  IF entry \in DOMAIN keySheet(rows) THEN CellOf(keySheet(rows)[entry], column) ELSE Blank

OnlyTheAuthorsCells(entry) ==
  LET sheet == SheetOf(document, entry)
      fields == ColumnsOf(sheet)
  IN  \A c \in DOMAIN fields :
        LET was == CellOfAuthor(plan.book.baseline[sheet], entry, c)
            wants == CellOfAuthor(plan.book.working[sheet], entry, c)
            now == FirstCell(document', entry, fields[c])
        IN  now # FirstCell(document, entry, fields[c]) =>
              /\ was # wants /\ now = wants
              /\ FirstCell(plan.read, entry, fields[c]) \in {was, wants}

ImportKeepsTheirs ==
  [][plan # Nothing /\ plan' = Nothing =>
       /\ EntriesOf(document) \subseteq EntriesOf(document')
       /\ \A e \in EntriesOf(document) : OnlyTheAuthorsCells(e)
       /\ \A e \in EntriesOf(document') \ EntriesOf(document) :
            \E s \in MainSheets : e \in DOMAIN keySheet(plan.book.working[s])
                                        \ DOMAIN keySheet(plan.book.baseline[s])
    ]_vars

(***************************************************************************)
(* The readings of one model do not contradict one another.  The questions *)
(* (ask --open), the governance log, the requirements matrix, locations,   *)
(* reconciliation, the strict check, advice and the design step each have  *)
(* their own idea of what is missing; where two of them speak of the same  *)
(* thing they say the same, but for the differences that are stated here.  *)
(***************************************************************************)
Asked(report, name) ==
  UNION {q.subjects : q \in {r \in ToSet(report) : r.open /\ r.question.id = name}}

\* A live risk lacks an owner for both, and for the responsibility matrix;
\* what the log calls unmitigated is asked about; a risk asked about and not
\* in the log is mitigated by a kind of thing the question does not accept.
LogAgreesWithQuestions(report) ==
  LET log == buildGovernanceLog(graph)
      risks == {c \in DOMAIN graph.concepts : "risk" \in governanceTypeOf(graph.concepts[c].kind)}
      live == {c \in risks : ~Retired(graph.concepts[c])}
      mitigated == {r.subject : r \in {q \in log.rows : q.mitigatedBy # {}}}
  IN  /\ live \cap log.gaps.unowned = Asked(report, "risk-unowned")
      /\ log.gaps.unowned = {r.subject : r \in log.rows} \cap buildResponsibilityMatrix(graph).noAccountable
      /\ log.gaps.unmitigated \subseteq Asked(report, "risk-unmitigated")
      /\ Asked(report, "risk-unmitigated") \subseteq log.gaps.unmitigated \cup mitigated

\* A requirement nothing realizes is a gap of the matrix.  A gap that is not
\* asked about has a realizer or a realization that is retired.
MatrixAgreesWithQuestions(report) ==
  LET gaps == {r.subject : r \in {q \in buildRtm(graph, evidence).rows : q.gap}}
      asked == Asked(report, "requirement-unrealized")
      Realizing(c) == {e \in Range(graph.relationships) :
                         e.to = c /\ CoreRelationship[e.kind] = "realization"}
  IN  /\ asked \subseteq gaps
      /\ \A c \in gaps \ asked :
           /\ Realizing(c) # {}
           /\ \A e \in Realizing(c) : Retired(e) \/ Retired(graph.concepts[e.from])

\* What can be located was observed, and a strict check refuses exactly a
\* model of which something observed says otherwise.
EvidenceAgrees ==
  LET known == evaluateEvidenceWorkspace(graph, evidence) = {}
      reconciled == reconcileEvidenceReports(graph, evidence, {}, [assessed |-> FALSE])
      located == DOMAIN where(Workspace, DOMAIN graph.concepts).located
      Against(x) == \/ x.o.result = "contradicted"
                    \/ \E s \in Subjects(graph), e \in UNION {FactsOf(graph, t).expects : t \in Subjects(graph)} :
                         /\ e \in FactsOf(graph, s).expects
                         /\ x.o.key = e.key /\ x.provider = e.provider /\ x.o.value # e.value
  IN  /\ known => located \cap reconciled.unobservedSubjects = {}
      /\ known => checkSources(Loading, Compilation, Held, TRUE).ok
                    = \A x \in ObservationsOf(evidence) : ~Against(x)

\* About one subject the design step has a question exactly when advice has.
Matches(step, advised, c) ==
  /\ step.ok /\ step.question \subseteq {q.question : q \in advised}
  /\ advised # {} => step.openSubjects = {c}

StepAgreesWithAdvice ==
  \A c \in DOMAIN graph.concepts :
    Matches(designStep(Workspace, {c}),
            {q \in advice(Workspace, {c}, Cap).openQuestions : q.about = {c}}, c)

\* A report made without the evidence answers otherwise only about the questions it says
\* it could not evaluate.
NamesWhatItWentWithout(report, bare) ==
  /\ Withheld(report, {"profileContext", "evidence", "patternMemberships", "patternVacancies"}) = {}
  /\ \A i \in DOMAIN report :
       VerdictOn(report[i]) # VerdictOn(bare[i]) =>
         InputsRead(report[i].question)
           \cap Withheld(bare, {"profileContext", "patternMemberships", "patternVacancies"}) # {}

BareReport ==
  evaluateCatalogue(Workspace.catalogue,
                    indexGraph(graph, Workspace.memberships, Workspace.vacancies, {}))

QuestionsAgree(report) ==
  /\ LogAgreesWithQuestions(report) /\ MatrixAgreesWithQuestions(report)
  /\ NamesWhatItWentWithout(report, BareReport)

ReadingsAgree == QuestionsAgree(openReport(Workspace)) /\ EvidenceAgrees /\ StepAgreesWithAdvice

(***************************************************************************)
(* The backlog (ask --next) lists every piece the roster calls planned     *)
(* once, and behind all it depends on; a piece it marks as one of a cycle  *)
(* depends on another that is marked, and what is said of two pieces is    *)
(* said of both.                                                           *)
(***************************************************************************)
BuildOrderHolds ==
  LET order == backlog(Workspace)
      Place(id) == CHOOSE i \in DOMAIN order : order[i].id = id
      planned == askRoster(graph, DOMAIN CoreOf, {"planned"})
  IN  /\ {order[i].id : i \in DOMAIN order} = planned
      /\ Len(order) = Cardinality(planned)
      /\ \A i \in DOMAIN order :
           /\ \A n \in order[i].dependsOn : order[i].id \in order[Place(n)].requiredBy
           /\ IF order[i].cycle THEN \E n \in order[i].dependsOn : order[Place(n)].cycle
              ELSE \A n \in order[i].dependsOn : Place(n) < i
=============================================================================
