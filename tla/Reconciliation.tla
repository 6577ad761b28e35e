---------------------------- MODULE Reconciliation ----------------------------
(***************************************************************************)
(* What was observed of a model, against what it says.                     *)
(*                                                                         *)
(* An evidence document is [id, version, provider, observations]; an       *)
(* observation is [type, target, result, key, value, searched, uri]: its   *)
(* type says whether the target, a tuple, is a subject <<id>> or a claim,  *)
(* which is a relationship <<id>> or what a subject states <<id,           *)
(* predicate>>.  A value is read at a key, Unkeyed when there is none.  A  *)
(* locator is [scheme, path], the path a sequence of names.                *)
(*                                                                         *)
(* Beside what a projection reads of it, a subject has `attestations`,     *)
(* [topic, by, recordedBy, on], and `expects`, [provider, key, value].     *)
(***************************************************************************)
EXTENDS Catalogues

CONSTANTS Unkeyed,     \* the key of an observation that read no value
          Unrecorded   \* the recorder of a sign-off its authority wrote

FactsOf(graph, id) ==
  IF id \in DOMAIN graph.concepts THEN graph.concepts[id] ELSE graph.relationships[id]

Subjects(graph) == DOMAIN graph.concepts \cup DOMAIN graph.relationships

ClaimIds(graph) ==
  {<<r>> : r \in DOMAIN graph.relationships}
  \cup UNION {{<<s, p>> : p \in FactsOf(graph, s).claims \cup DOMAIN FactsOf(graph, s).references} :
                s \in Subjects(graph)}

(***************************************************************************)
(* evaluateEvidence: targets the model does not have, and a target stated  *)
(* twice for one key.  A document that fails has no report, and one        *)
(* failing document refuses the whole workspace.                           *)
(***************************************************************************)
Known(graph, o) ==
  IF o.type = "subject" THEN o.target[1] \in Subjects(graph) ELSE o.target \in ClaimIds(graph)

SameTarget(o, p) == o.type = p.type /\ o.target = p.target /\ o.key = p.key

evidenceDiagnostics(graph, document) ==
  LET all == document.observations
  IN  {<<IF all[i].type = "subject" THEN "YM801" ELSE "YM802", all[i].target>> :
         i \in {j \in DOMAIN all : ~Known(graph, all[j])}}
      \cup {<<"YM803", all[i].target>> :
              i \in {j \in DOMAIN all : \E h \in 1 .. (j - 1) : SameTarget(all[h], all[j])}}

Identity(document) == <<document.id, document.version>>

evaluateEvidenceWorkspace(graph, documents) ==
  UNION {evidenceDiagnostics(graph, documents[d]) : d \in DOMAIN documents}
  \cup {<<"YM804", Identity(documents[d])>> :
          d \in {e \in DOMAIN documents :
                   \E b \in 1 .. (e - 1) : Identity(documents[b]) = Identity(documents[e])}}

ObservationsOf(documents) ==
  UNION {{[provider |-> documents[d].provider, o |-> x] : x \in ToSet(documents[d].observations)} :
           d \in DOMAIN documents}

(***************************************************************************)
(* Expectations.  A declared value is compared with every value its        *)
(* provider read at its key, whatever the observation was about.           *)
(***************************************************************************)
Expectations(graph) ==
  UNION {{[subject |-> s, expects |-> e] : e \in FactsOf(graph, s).expects} : s \in Subjects(graph)}

Readings(observations, expectation) ==
  {x \in observations : /\ x.provider = expectation.expects.provider
                        /\ x.o.key = expectation.expects.key /\ x.o.key # Unkeyed}

compareExpectations(graph, observations) ==
  LET Fails(e) == {x \in Readings(observations, e) : x.o.value # e.expects.value}
  IN  [findings |-> UNION {{[type |-> "claim", target |-> <<e.subject, "expects">>,
                              result |-> "contradicted"] :
                              x \in Fails(e)} : e \in Expectations(graph)},
       unobserved |-> {e \in Expectations(graph) : Readings(observations, e) = {}}]

(***************************************************************************)
(* Current concepts nothing was observed of.  A claim's observation is one *)
(* of its subject; a relationship's is one of both its ends.               *)
(***************************************************************************)
ObservedBy(graph, o) ==
  IF o.type = "subject" THEN {o.target[1]}
  ELSE IF o.target \notin ClaimIds(graph) THEN {}
  ELSE IF Len(o.target) = 1
  THEN {graph.relationships[o.target[1]].from, graph.relationships[o.target[1]].to}
  ELSE {o.target[1]}

unobservedCurrentConcepts(graph, observations) ==
  {c \in DOMAIN graph.concepts : graph.concepts[c].status = "current"}
  \ UNION {ObservedBy(graph, x.o) : x \in observations}

(***************************************************************************)
(* Artifact coverage.  `files` is [repository, visible, matches]: whether  *)
(* there is one, what git sees in it, and what each pattern matches.       *)
(***************************************************************************)
deriveArtifactCoverage(files, patterns) ==
  IF patterns = {} \/ ~files.repository THEN [assessed |-> FALSE, scope |-> <<>>]
  ELSE [assessed |-> TRUE, scope |-> [p \in patterns |-> files.matches[p] \cap files.visible]]

ClaimedPaths(observations) ==
  {x.o.uri.path : x \in {y \in observations : y.o.uri.scheme = "repo" /\ y.o.uri.path # <<>>}}

isClaimed(claimed, artifact) == \E path \in claimed : IsPrefix(path, artifact)

unclaimedArtifacts(coverage, observations) ==
  IF ~coverage.assessed THEN {}
  ELSE {a \in UNION Range(coverage.scope) : ~isClaimed(ClaimedPaths(observations), a)}

(***************************************************************************)
(* A sign-off somebody else wrote down awaits its authority.               *)
(***************************************************************************)
unconfirmedAttestations(graph) ==
  UNION {{[type |-> "subject", target |-> <<s>>, result |-> "unconfirmed-attestation",
            topic |-> a.topic] :
            a \in {b \in FactsOf(graph, s).attestations : b.recordedBy \notin {Unrecorded, b.by}}} :
           s \in Subjects(graph)}

(***************************************************************************)
(* The report.  `stale` is the findings git gave.                          *)
(***************************************************************************)
reconcileEvidenceReports(graph, documents, stale, coverage) ==
  LET observations == ObservationsOf(documents)
      expectations == compareExpectations(graph, observations)
      disagreeing == {x \in observations : x.o.result # "confirmed"}
  IN  [findings |-> {[type |-> x.o.type, target |-> x.o.target, result |-> x.o.result] :
                       x \in disagreeing}
                    \cup expectations.findings \cup unconfirmedAttestations(graph) \cup stale,
       unsupportedAbsences |->
         {x.o.target : x \in {y \in disagreeing : y.o.result = "not-observed" /\ ~y.o.searched}},
       unobservedSubjects |-> unobservedCurrentConcepts(graph, observations),
       unobservedExpectations |-> expectations.unobserved,
       unclaimedArtifacts |-> unclaimedArtifacts(coverage, observations)]

(***************************************************************************)
(* Adapter mappings, each [id, version, adapter, entries], an entry being  *)
(* [native, external, type]: within one mapping, and across the mappings   *)
(* of one adapter, a subject and an external identity stand once.          *)
(***************************************************************************)
TypeIn(graph, id) == IF id \in DOMAIN graph.concepts THEN "concept" ELSE "relationship"

MappedTwice == [native |-> "YM603", external |-> "YM604"]

validateAdapterMapping(graph, mapping) ==
  LET all == mapping.entries
      Again(field) == {i \in DOMAIN all : \E h \in 1 .. (i - 1) : all[h][field] = all[i][field]}
  IN  {<<"YM601", all[i].native>> : i \in {j \in DOMAIN all : all[j].native \notin Subjects(graph)}}
      \cup {<<"YM602", all[i].native>> :
              i \in {j \in DOMAIN all : /\ all[j].native \in Subjects(graph)
                                       /\ TypeIn(graph, all[j].native) # all[j].type}}
      \cup UNION {{<<MappedTwice[f], all[i][f]>> : i \in Again(f)} : f \in DOMAIN MappedTwice}

Fields(mapping, field) == {mapping.entries[i][field] : i \in DOMAIN mapping.entries}

MappedElsewhere(mappings, d, field) ==
  {v \in Fields(mappings[d], field) :
     \E b \in 1 .. (d - 1) : /\ mappings[b].adapter = mappings[d].adapter
                             /\ v \in Fields(mappings[b], field)}

validateAdapterMappings(graph, mappings) ==
  UNION {validateAdapterMapping(graph, mappings[d])
         \cup UNION {{<<MappedTwice[f], v>> : v \in MappedElsewhere(mappings, d, f)} :
                       f \in DOMAIN MappedTwice} : d \in DOMAIN mappings}
  \cup {<<"YM605", Identity(mappings[d])>> :
          d \in {e \in DOMAIN mappings :
                   \E b \in 1 .. (e - 1) : Identity(mappings[b]) = Identity(mappings[e])}}

(***************************************************************************)
(* The check gate.  A source is refused at the first stage that has        *)
(* anything to say: Core contracts, then projections, evidence and adapter *)
(* mappings as they load, then the compiler, and what only a compiled      *)
(* model can judge all at once.  Strict only tightens a check that passed. *)
(*                                                                         *)
(* `loading` is what each of the stages found of its documents, `compile`  *)
(* the compiler's [ok, diagnostics, graph], and `held` the rest of what    *)
(* the gate reads: evidence, projections, mappings, catalogues, instances. *)
(***************************************************************************)
LoadingStages == <<"contracts", "projections", "evidence", "mappings">>

FailedStages(loading) == SelectSeq(LoadingStages, LAMBDA s : loading[s] # {})

OptionalDiagnostics(graph, held) ==
  validateAdapterMappings(graph, held.mappings)
  \cup evaluateEvidenceWorkspace(graph, held.evidence)
  \cup UNION {projectionReferenceDiagnostics(graph, q, held.instances) : q \in held.projections}
  \cup (IF Len(held.catalogues) < 2 THEN {}
        ELSE LET composed == composeCatalogues(held.catalogues, TRUE)
             IN  IF composed.ok THEN {} ELSE composed.diagnostics)

Contradicted(graph, documents) ==
  {f.target : f \in {g \in reconcileEvidenceReports(graph, documents, {}, [assessed |-> FALSE]).findings :
                       g.result = "contradicted"}}

BaseCheck(loading, compile, held) ==
  LET failed == FailedStages(loading)
  IN  IF failed # <<>> THEN loading[Head(failed)]
      ELSE IF ~compile.ok THEN compile.diagnostics
      ELSE OptionalDiagnostics(compile.graph, held)

Gated(base, gate, strict) ==
  IF base # {} \/ ~strict THEN [ok |-> base = {}, diagnostics |-> base]
  ELSE [ok |-> gate = {}, diagnostics |-> {<<"YM901", t>> : t \in gate}]

checkSources(loading, compile, held, strict) ==
  Gated(BaseCheck(loading, compile, held), Contradicted(compile.graph, held.evidence), strict)
=============================================================================
