--------------------------- MODULE MCReadingSession ---------------------------
(***************************************************************************)
(* A cell inside a cell, with a component that the inner one's pattern     *)
(* binds and an actor that assignment would nest there; a service and a    *)
(* person outside them.  Two views: one folded, one that walks from the    *)
(* people it lists and nests by assignment too.  Two catalogues, one       *)
(* joining a wave the other declares.  The rows of Permitted are those of  *)
(* the program's relationship table.                                       *)
(***************************************************************************)
EXTENDS ReadingSession

MCCoreOf == [cell |-> "grouping", zone |-> "grouping", component |-> "component",
             service |-> "service", actor |-> "actor"]
MCCores == {"grouping", "component", "service", "actor"}

AllKinds == {"access", "composition", "flow", "aggregation", "assignment", "influence",
             "association", "realization", "specialization", "triggering", "serving"}
MCRelationshipKinds == AllKinds \cup {"answers"}
MCCoreRelationship == [k \in MCRelationshipKinds |-> IF k = "answers" THEN "association" ELSE k]

MCLineage == [k \in DOMAIN MCCoreOf \cup MCRelationshipKinds |->
                IF k \in DOMAIN MCCoreOf THEN {MCCoreOf[k]} \ {k}
                ELSE {MCCoreRelationship[k]} \ {k}]

Dynamic == {"flow", "association", "triggering", "serving"}
Whole == {"composition", "flow", "aggregation", "association", "realization", "specialization",
          "triggering", "serving"}
MCPermitted ==
  [p \in MCCores \X MCCores |->
     CASE p = <<"grouping", "grouping">> -> AllKinds
       [] p[1] = "grouping" /\ p[2] = "component" -> Whole
       [] p[1] = "grouping" /\ p[2] \in {"service", "actor"} -> Whole \cup {"assignment"}
       [] p[1] = "component" /\ p[2] = "grouping" -> AllKinds
       [] p[1] = "service" /\ p[2] = "grouping" -> AllKinds \ {"assignment"}
       [] p[1] = "actor" /\ p[2] = "grouping" -> AllKinds
       [] p = <<"component", "component">> -> Whole
       [] p[1] = p[2] -> (Whole \ {"realization"})
       [] p = <<"component", "service">> -> Dynamic \cup {"realization", "assignment"}
       [] OTHER -> Dynamic]

MCLayerOf == [component |-> "application", service |-> "application", actor |-> "business"]
MCAspectOf == [grouping |-> "composite", component |-> "active", service |-> "behaviour",
               actor |-> "active", cell |-> "composite", zone |-> "composite"]
MCNarrowing == [k \in {} |-> {}]
MCProfileOf == [k \in DOMAIN MCLineage |-> IF k \in {"cell", "zone", "answers"} THEN "ours" ELSE "core"]
MCLoaded == {"core", "ours"}
MCPortKinds == [k \in DOMAIN MCCoreOf |-> IF k = "cell" THEN {"serving", "flow"} ELSE {}]
MCIdOrder == <<"b1", "b2", "p", "q", "s", "u", "v", "n1", "n2">>
MCFreshIds == <<"n1", "n2">>
MCNone == {}

Subject(kind) == [kind |-> kind, document |-> "main", status |-> "active", state |-> FALSE,
                  claims |-> {}, references |-> [p \in {} |-> {}]]

MCGraph ==
  [concepts |-> [b1 |-> Subject("cell"), b2 |-> Subject("cell"), p |-> Subject("component"),
                 s |-> Subject("service"), u |-> Subject("actor"), v |-> Subject("actor")],
   relationships |->
     [r1 |-> NewEdge("b1", "b2", "composition"), r2 |-> NewEdge("b2", "u", "assignment"),
      r3 |-> NewEdge("p", "s", "realization"), r4 |-> NewEdge("s", "u", "serving"),
      r5 |-> NewEdge("v", "p", "answers")]]

MCElsewhere ==
  [concepts |-> (("q" :> Subject("component")) @@ MCGraph.concepts),
   relationships |-> ("n2" :> NewEdge("b1", "q", "composition")) @@ MCGraph.relationships]

MCMemberships ==
  <<[member |-> "p", slot |-> "engine", instance |-> "b2", pattern |-> "cell", wiring |-> "owned"]>>

MCViews ==
  [folded |-> [query |-> [relationships |-> "between"], presentation |-> [fold |-> "instances"]],
   people |-> [query |-> [subjects |-> {"u", "v"}, relationships |-> "connected",
                          excludeStatuses |-> {"retired"}],
               presentation |-> [nesting |-> <<"composition", "assignment">>,
                                 showResponsibility |-> TRUE]]]

(***************************************************************************)
(* The catalogues.                                                         *)
(***************************************************************************)
Asks(id, kinds, trigger) ==
  [id |-> id, wave |-> "shape", scope |-> "subject", subjects |-> [kinds |-> kinds], trigger |-> trigger]

MCCatalogues ==
  <<[id |-> "base", waves |-> <<[id |-> "shape", opensWhen |-> {[condition |-> "has-any-subject"]}]>>,
     questions |->
       <<Asks("serves-nobody", {"component"},
              <<[condition |-> "missing-relationship", kinds |-> {"serving"}, direction |-> "incoming"]>>),
         Asks("purpose", {"service"}, <<[condition |-> "missing-claim", predicate |-> "purpose"]>>),
         [id |-> "no-zone", wave |-> "shape", scope |-> "workspace", subjects |-> [f \in {} |-> {}],
          trigger |-> <<[condition |-> "no-subject-of-kind", kinds |-> {"zone"}]>>]>>],
    [id |-> "team",
     waves |-> <<[id |-> "zones", opensWhen |-> {[condition |-> "has-subject-of-kind", kinds |-> {"zone"}]}]>>,
     questions |->
       <<Asks("uses", {"actor"},
              <<[condition |-> "missing-linkage", kinds |-> {"flow"}, direction |-> "outgoing",
                 counterpartKinds |-> {"service"}]>>),
         [Asks("loose", {"zone"}, <<[condition |-> "isolated"]>>) EXCEPT !.wave = "zones"]>>]>>

MCGestures == [looking |-> 3, changing |-> 2, pointing |-> 2]
=============================================================================
