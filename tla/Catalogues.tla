----------------------------- MODULE Catalogues -----------------------------
(***************************************************************************)
(* The catalogues a workspace carries, composed into the one interview     *)
(* every reader of it is asked, and the rows the editor draws of it.       *)
(*                                                                         *)
(* A catalogue document is [id, waves, questions]; a wave is [id,          *)
(* opensWhen], a question [id, wave, scope, subjects, trigger].  A         *)
(* diagnostic is its code and what it is about.                            *)
(***************************************************************************)
EXTENDS Interrogation

WaveIds(document) == [i \in DOMAIN document.waves |-> document.waves[i].id]

DeclaredWaves(documents) == FlattenSeq([d \in DOMAIN documents |-> WaveIds(documents[d])])

\* A wave is declared once across the whole set.
RepeatedWaves(declared) ==
  {declared[j] : j \in {i \in DOMAIN declared : \E h \in 1..(i - 1) : declared[h] = declared[i]}}

(***************************************************************************)
(* The checks of one document once the waves of all of them are known.     *)
(***************************************************************************)
Gates(document) == UNION {document.waves[i].opensWhen : i \in DOMAIN document.waves}
Triggers(document) == UNION {ToSet(document.questions[i].trigger) : i \in DOMAIN document.questions}

undeclaredWaveDiagnostics(document, declared) ==
  {<<"YM911", q.id>> : q \in {p \in ToSet(document.questions) : p.wave \notin ToSet(declared)}}

gateScopeDiagnostics(document) ==
  {<<"YM917", c.condition>> : c \in {g \in Gates(document) : g.condition \notin WorkspaceConditions}}

subjectCountFloorDiagnostics(document) ==
  {<<"YM918", document.id>> : c \in {d \in Gates(document) \cup Triggers(document) :
                                       d.condition = "below-subject-count" /\ d.atLeast < 2}}

kindReferencesOf(document) ==
  UNION {Stated(c, {"kinds", "counterpartKinds", "patternKinds"}) :
           c \in Gates(document) \cup Triggers(document)}
  \cup UNION {Stated(document.questions[i].subjects, {"kinds"}) : i \in DOMAIN document.questions}

\* Only a kind whose profile is loaded can be known to be a slip.
unresolvableKindDiagnostics(document) ==
  {<<"YM914", k>> : k \in {n \in kindReferencesOf(document) \ DOMAIN Lineage :
                             ProfileOf[n] \in {ProfileOf[m] : m \in DOMAIN Lineage}}}

(***************************************************************************)
(* A remedy a trigger offers that the relationship table has for nobody:   *)
(* no core kind may stand opposite, or none of those the trigger names.    *)
(***************************************************************************)
OppositeKinds(subject, relationship, direction) ==
  {p[IF direction = "outgoing" THEN 2 ELSE 1] :
     p \in {q \in DOMAIN Permitted : /\ q[IF direction = "outgoing" THEN 1 ELSE 2] = subject
                                     /\ relationship \in Permitted[q]}}

DirectionsOf(condition) ==
  IF condition.direction \in {"any", "either"} THEN {"incoming", "outgoing"} ELSE {condition.direction}

IsAuthorable(condition, subjectKind, relationshipKind) ==
  \E direction \in DirectionsOf(condition) :
    LET opposite == OppositeKinds(CoreOf[subjectKind], CoreRelationship[relationshipKind], direction)
    IN  IF "counterpartKinds" \in DOMAIN condition
        THEN opposite \cap {CoreOf[k] : k \in condition.counterpartKinds} # {}
        ELSE opposite # {}

NamesARelationship(condition) == condition.condition \in {"missing-relationship", "missing-linkage"}

\* A trigger with a counterpart nobody can resolve is passed over whole.
DeadOffers(question) ==
  UNION {{offer \in Stated(question.subjects, {"kinds"}) \X c.kinds :
            /\ offer[1] \in DOMAIN CoreOf /\ offer[2] \in DOMAIN CoreRelationship
            /\ ~IsAuthorable(c, offer[1], offer[2])} :
           c \in {d \in ToSet(question.trigger) :
                    /\ NamesARelationship(d)
                    /\ Stated(d, {"counterpartKinds"}) \subseteq DOMAIN CoreOf}}

unauthorableOfferDiagnostics(document) ==
  {<<"YM916", q.id>> : q \in {p \in ToSet(document.questions) : DeadOffers(p) # {}}}

(***************************************************************************)
(* One catalogue on its own: the first of the checks that finds something  *)
(* speaks, and the later ones are not made.                                *)
(***************************************************************************)
FirstFound(checks) ==
  LET failed == SelectSeq(checks, LAMBDA found : found # {})
  IN  IF failed = <<>> THEN {} ELSE Head(failed)

loadQuestionCatalogue(document) ==
  FirstFound(<<undeclaredWaveDiagnostics(document, WaveIds(document)),
               gateScopeDiagnostics(document), subjectCountFloorDiagnostics(document),
               unresolvableKindDiagnostics(document), unauthorableOfferDiagnostics(document)>>)

(***************************************************************************)
(* What a condition goes quiet without.  A report says of each question    *)
(* whether it is open, closed, or asked of nobody, and names what its      *)
(* triggers read and the caller did not hand over.                         *)
(***************************************************************************)
conditionInput(condition) ==
  CASE condition.condition = "unconstrained-kind" -> {"profileContext"}
    [] condition.condition = "unchallenged-evidence" -> {"evidence"}
    [] condition.condition = "fills-pattern-slot" -> {"patternMemberships"}
    [] condition.condition = "missing-part" -> {"patternVacancies"}
    [] OTHER -> {}

InputsRead(question) == UNION {conditionInput(c) : c \in ToSet(question.trigger)}

Withheld(report, inputs) == UNION {InputsRead(report[i].question) : i \in DOMAIN report} \ inputs

VerdictOn(reported) ==
  IF ~reported.asked THEN "unasked" ELSE IF reported.open THEN "open" ELSE "closed"

(***************************************************************************)
(* Composition.  The base comes first; a question's identity is qualified  *)
(* by its catalogue on the way out.  `resolved` says whether the caller    *)
(* has a compiled workspace to judge kinds with: the commands do, and the  *)
(* editor's overlay does not hand it over.                                 *)
(***************************************************************************)
qualifiedQuestionId(document, question) == <<document.id, question.id>>

CrossDiagnostics(documents, declared, resolved) ==
  UNION {undeclaredWaveDiagnostics(documents[d], declared)
         \cup gateScopeDiagnostics(documents[d])
         \cup subjectCountFloorDiagnostics(documents[d])
         \cup (IF resolved
               THEN unresolvableKindDiagnostics(documents[d])
                    \cup unauthorableOfferDiagnostics(documents[d])
               ELSE {}) : d \in DOMAIN documents}

CompositionDiagnostics(documents, declared, resolved) ==
  IF documents = <<>> THEN {<<"YM915", "nothing">>}
  ELSE IF RepeatedWaves(declared) # {} THEN {<<"YM915", w>> : w \in RepeatedWaves(declared)}
  ELSE CrossDiagnostics(documents, declared, resolved)

QuestionsOf(document) ==
  [i \in DOMAIN document.questions |->
     [document.questions[i] EXCEPT !.id = qualifiedQuestionId(document, document.questions[i])]]

Composed(documents) ==
  [waves |-> FlattenSeq([d \in DOMAIN documents |-> documents[d].waves]),
   questions |-> FlattenSeq([d \in DOMAIN documents |-> QuestionsOf(documents[d])])]

composeCatalogues(documents, resolved) ==
  LET diagnostics == CompositionDiagnostics(documents, DeclaredWaves(documents), resolved)
  IN  IF diagnostics = {} THEN [ok |-> TRUE, catalogue |-> Composed(documents)]
      ELSE [ok |-> FALSE, diagnostics |-> diagnostics]

(***************************************************************************)
(* The rows the editor draws: of every open question, one for the          *)
(* workspace or one for each subject it is open about, less what the host  *)
(* has set aside.  A row is [question, about, trigger], `about` being one  *)
(* subject or none.  The first row kept is the next question.              *)
(***************************************************************************)
RowsOf(report) ==
  LET Row(about) == [question |-> report.question.id, about |-> about,
                     trigger |-> report.question.trigger]
      About == SelectSeq(IdOrder, LAMBDA id : id \in report.subjects)
  IN  IF ~report.open THEN <<>>
      ELSE IF report.question.scope = "workspace" THEN <<Row({})>>
      ELSE [i \in DOMAIN About |-> Row({About[i]})]

IsDismissed(dismissed, row) ==
  \E d \in dismissed : d.question = row.question /\ d.about \in {{}, row.about}

DrawnRows(reports, dismissed) ==
  SelectSeq(FlattenSeq([i \in DOMAIN reports |-> RowsOf(reports[i])]),
            LAMBDA row : ~IsDismissed(dismissed, row))

interrogationOverlayOf(index, documents, dismissed) ==
  LET composed == composeCatalogues(documents, FALSE)
  IN  IF ~composed.ok THEN <<>>
      ELSE DrawnRows(evaluateCatalogue(composed.catalogue, index), dismissed)
=============================================================================
