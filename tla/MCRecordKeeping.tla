---------------------------- MODULE MCRecordKeeping ----------------------------
(***************************************************************************)
(* A risk its owner has signed off, the stakeholder who owns it, a         *)
(* requirement one of three planned work packages realizes.  Rows of       *)
(* Permitted, and the questions, are those the program ships.              *)
(***************************************************************************)
EXTENDS RecordKeeping

MCCoreOf == [risk |-> "assessment", stakeholder |-> "stakeholder", requirement |-> "requirement",
             workPackage |-> "workPackage"]
MCCores == {"assessment", "stakeholder", "requirement", "workPackage"}
MCEdgeKinds == {"composition", "flow", "aggregation", "influence", "association", "realization",
                "specialization", "triggering"}
MCCoreRelationship == [k \in MCEdgeKinds |-> k]
MCLineage == [k \in DOMAIN MCCoreOf \cup MCEdgeKinds |-> IF k = "risk" THEN {"assessment"} ELSE {}]
MCLayerOf == [assessment |-> "motivation", stakeholder |-> "motivation", requirement |-> "motivation",
              workPackage |-> "implementation"]
MCAspectOf == [assessment |-> "motivation", risk |-> "motivation", stakeholder |-> "motivation",
               requirement |-> "motivation", workPackage |-> "behaviour"]
MCPermitted ==
  [p \in MCCores \X MCCores |->
     CASE p = <<"workPackage", "workPackage">> ->
            {"composition", "flow", "aggregation", "association", "specialization", "triggering"}
       [] p[1] = p[2] -> {"composition", "aggregation", "influence", "association", "specialization"}
       [] p[2] = "workPackage" -> {"association"}
       [] p = <<"workPackage", "assessment">> -> {"influence", "association"}
       [] p[1] = "workPackage" -> {"influence", "association", "realization"}
       [] OTHER -> {"influence", "association"}]
MCProfileOf == [k \in DOMAIN MCLineage |-> IF k = "risk" THEN "policy" ELSE "core"]
MCLoaded == {"core", "policy"}
MCNarrowing == [k \in {} |-> {}]
MCQualified == [t \in {<<k>> : k \in DOMAIN MCLineage} |->
                  <<t[1], IF t = <<"risk">> THEN "policy" ELSE "core">>]
MCIdOrder == <<"e1", "g", "i1", "n", "p", "r", "t1", "t2", "t3", "t4", "w1", "w2", "w3">>
MCBlank == <<>>
MCPath == <<"main">>
MCStatuses == {<<"planned">>, <<"current">>, <<"retired">>}
MCNone == {}

Line(entry, field, text) == [entry |-> entry, field |-> field, text |-> text]
Entry(id, kind, rest) == <<Line(id, "id", <<id>>), Line(id, "kind", <<kind>>)>> \o rest
Planned(id) == Entry(id, "workPackage", <<Line(id, "status", <<"planned">>)>>)
Edge(kind, from, to) == [kind |-> <<kind>>, from |-> <<from>>, to |-> <<to>>]
Related(id, e) ==
  <<Line(id, "id", <<id>>), Line(id, "kind", e.kind), Line(id, "from", e.from), Line(id, "to", e.to)>>

MCDocument ==
  <<Line("concepts", "heading", <<>>)>>
  \o Entry("g", "requirement", <<Line("g", "name", <<"g">>),
                                 Line("g", "expects", <<"probe", "size", "small">>)>>)
  \o Entry("p", "stakeholder", <<>>)
  \o Entry("r", "risk", <<Line("r", "name", <<"r">>), Line("r", "description", <<"as found">>),
                          Line("r", "owner", <<"p">>),
                          Line("r", "attestation", <<"risk-reviewed", "p", "none", 1>>)>>)
  \o Planned("w1") \o Planned("w2") \o Planned("w3")
  \o <<Line("relationships", "heading", <<>>)>>
  \o Related("e1", Edge("realization", "w1", "g"))
  \o Related("t1", Edge("triggering", "w1", "w2"))

MCLinks == [i1 |-> Edge("influence", "w3", "r"), n |-> Edge("association", "p", "r"),
            t2 |-> Edge("triggering", "w3", "w2"), t3 |-> Edge("triggering", "w1", "w3"),
            t4 |-> Edge("triggering", "w2", "w1")]

MCWords == <<<<"first words">>, <<"second words">>, <<"third words">>>>
MCWordings == {[id |-> "r", field |-> "name"], [id |-> "r", field |-> "description"]}
Status(id, text) == [id |-> id, field |-> "status", text |-> <<text>>]
MCRestatements == {Status("w1", "retired"), Status("w1", "current"), Status("r", "retired"),
                   Status("r", "current"), Status("w3", "current")}
MCSignOffs == {[id |-> "r", topic |-> "risk-reviewed", by |-> "p", recordedBy |-> "none"],
               [id |-> "g", topic |-> "requirement-agreed", by |-> "p", recordedBy |-> "w1"]}

(***************************************************************************)
(* Evidence, questions and views.                                          *)
(***************************************************************************)
Saw(type, target, result, value) ==
  [type |-> type, target |-> target, result |-> result, key |-> IF value = "nothing" THEN "none" ELSE "size",
   value |-> value, searched |-> FALSE, uri |-> [scheme |-> "repo", path |-> <<"src">>]]
Seen(id, observations) == [id |-> id, version |-> 1, provider |-> "probe", observations |-> observations]

MCObservations ==
  {<<Seen("a", <<Saw("subject", <<"w3">>, "confirmed", "small"), Saw("claim", <<"e1">>, "confirmed", "nothing")>>)>>,
   <<Seen("a", <<Saw("subject", <<"g">>, "confirmed", "small")>>),
     Seen("b", <<Saw("claim", <<"g", "name">>, "confirmed", "large")>>)>>,
   <<Seen("a", <<Saw("subject", <<"i1">>, "contradicted", "nothing")>>)>>}

Asks(id, kinds, trigger) ==
  [id |-> id, wave |-> "motivation", scope |-> "subject", subjects |-> [kinds |-> kinds],
   trigger |-> <<trigger>>]

MCCatalogue ==
  [waves |-> <<[id |-> "motivation", opensWhen |-> {}]>>,
   questions |->
     <<[Asks("no-requirement", {}, [condition |-> "no-subject-of-kind", kinds |-> {"requirement"}])
          EXCEPT !.scope = "workspace"],
       Asks("requirement-unrealized", {"requirement"},
            [condition |-> "missing-relationship", kinds |-> {"realization"}, direction |-> "incoming"]),
       Asks("risk-unmitigated", {"risk"},
            [condition |-> "missing-linkage", kinds |-> {"influence", "association"},
             direction |-> "incoming", counterpartKinds |-> {"workPackage"}]),
       Asks("risk-unowned", {"risk"}, [condition |-> "missing-claim", predicate |-> "owner"]),
       [Asks("evidence-unchallenged", {}, [condition |-> "unchallenged-evidence"])
          EXCEPT !.scope = "workspace"]>>]

MCViews == {[query |-> [statuses |-> {"planned"}], presentation |-> [f \in {} |-> {}]]}

(***************************************************************************)
(* The workbook.                                                           *)
(***************************************************************************)
Concepts == "01 Concepts"
MCCellEdits ==
  {[sheet |-> Concepts, id |-> "r", column |-> "Name", to |-> <<"the author's">>],
   [sheet |-> Concepts, id |-> "r", column |-> "Description", to |-> MCWords[1]],
   [sheet |-> Concepts, id |-> "w3", column |-> "Status", to |-> <<"retired">>],
   [sheet |-> Concepts, id |-> "w3", column |-> "Kind", to |-> <<"stakeholder", "core">>],
   [sheet |-> Concepts, id |-> "r", column |-> "Owner", to |-> MCBlank]}

Row(filled) == [c \in DOMAIN ColumnsOf(Concepts) \cup {"Document"} |->
                  IF c \in DOMAIN filled THEN filled[c] ELSE MCBlank]
MCNewRows ==
  {[sheet |-> Concepts, id |-> "n",
    cells |-> Row([Document |-> MCPath, Kind |-> <<"risk", "policy">>, Name |-> <<"new">>])]}

MCBounds ==
  [signing |-> [reword |-> 2, strike |-> 1, signoff |-> 1, commit |-> 2, day |-> 1],
   changing |-> [reword |-> 1, link |-> 1, unlink |-> 1, commit |-> 1],
   exchanging |-> [reword |-> 1, export |-> 1, cell |-> 2, row |-> 1, import |-> 2],
   reporting |-> [restate |-> 1, link |-> 2, unlink |-> 1, observe |-> 1]]
=============================================================================
