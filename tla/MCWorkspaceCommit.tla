------------------------- MODULE MCWorkspaceCommit -------------------------
(***************************************************************************)
(* A workspace of six files for the commit's runs: a profile, a pattern,   *)
(* two documents, a view and an overlay, and room for a second view and    *)
(* for a document that is added while the session runs.                    *)
(***************************************************************************)
EXTENDS WorkspaceCommit

core(k) == <<"core", k>>
ours(k) == <<"ours", k>>

MCConcepts ==
    [k \in {"component", "grouping", "plateau"} |->
        IF k = "component" THEN [aspect |-> "active", rigidity |-> "none"]
        ELSE [aspect |-> "composite", rigidity |-> "none"]]
MCPolicies == {"serving", "aggregation"}
MCPermits == [p \in (DOMAIN MCConcepts) \X (DOMAIN MCConcepts) |->
    IF p[1] = "grouping" THEN {"aggregation"} ELSE {"serving"}]
MCCollation == <<"core", "ours", "profile">>
MCIdOrder == << <<"r1">>, <<"r2">> >>
MCNoProfiles == [p \in {} |-> <<>>]

Concept(id, kind) ==
    [id |-> id, kind |-> kind, text |-> [name |-> "n"], aka |-> {},
     owner |-> NoReference, distinctFrom |-> {}, supersedes |-> {},
     forbids |-> {}, constraints |-> <<>>, references |-> <<>>,
     parts |-> <<>>, presentIn |-> {}, attestations |-> <<>>]
Relation(id, from, to) ==
    [id |-> id, kind |-> "serving", from |-> from, to |-> to, text |-> <<>>,
     references |-> <<>>, presentIn |-> {}]
Document(id, concepts, relationships) ==
    [kind |-> "document", wellFormed |-> TRUE,
     value |-> [id |-> id, profile |-> "ours", states |-> <<>>,
                concepts |-> concepts, relationships |-> relationships]]
View(subjects) ==
    [kind |-> "projection", wellFormed |-> TRUE,
     value |-> [query |-> [subjects |-> subjects]]]
About(field, base, aspect) ==
    [field |-> field, base |-> base, aspect |-> aspect, key |-> ""]
Observation(id) ==
    [id |-> id, result |-> "confirmed", value |-> "",
     evidence |-> [uri |-> "u"]]
Overlay(observations) ==
    [kind |-> "evidence", wellFormed |-> TRUE,
     value |-> [id |-> "overlay", observations |-> observations]]

a == <<"a">>
x == <<"x">>
y == <<"y">>
z == <<"z">>
q == <<"q">>
OfX == About("subject", x, <<>>)

NoServing ==
    [relationship |-> "serving", from |-> x, to |-> NoReference,
     exceptFrom |-> {}, exceptTo |-> {}]

MCKinds == [profile |-> "profile", pattern |-> "pattern", left |-> "document",
            right |-> "document", late |-> "document", view |-> "projection",
            fresh |-> "projection", overlay |-> "evidence"]
MCDirectories == [p \in DOMAIN MCKinds |->
                    IF MCKinds[p] = "projection" THEN "views" ELSE "model"]

Left == Document("left",
    <<[Concept(a, "api") EXCEPT
        !.owner = y, !.forbids = {NoServing}, !.aka = {"first"},
        !.parts = <<[slot |-> "main", to |-> x]>>,
        !.references = <<[id |-> "f", ref |-> x]>>,
        !.attestations = <<[topic |-> "t", by |-> x, on |-> "d"]>>]>>, <<>>)
Right == Document("right", <<Concept(x, "component"), Concept(y, "component")>>,
                  <<Relation(<<"r1">>, y, x)>>)

MCStart == [
    profile |-> [kind |-> "profile", wellFormed |-> TRUE,
        value |-> [identity |-> "ours", extends |-> "core",
            concepts |-> <<[id |-> "api", parent |-> core("grouping"),
                            rigidity |-> "none"]>>, relationships |-> <<>>]],
    pattern |-> [kind |-> "pattern", wellFormed |-> TRUE,
        value |-> <<[kind |-> ours("api"), ports |-> <<>>,
            parts |-> <<[name |-> "main", kind |-> core("component"),
                         required |-> TRUE, matching |-> "exact"]>>,
            wiring |-> <<[from |-> "self", kind |-> core("aggregation"),
                          to |-> "main"]>>]>>],
    left |-> Left, right |-> Right, late |-> NoFile, view |-> View({x}), fresh |-> NoFile,
    overlay |-> Overlay(<<Observation(OfX),
                          Observation(About("claim", x, <<"name">>))>>)]

Operation(op, in, path, id) == [op |-> op, in |-> in, path |-> path, id |-> id]
With1(o, f, v) == o @@ (f :> v)

Rename == With1(Operation("rename", "concepts", "right", x), "to", z)
Delete == Operation("delete", "concepts", "right", y)
Disown == [op |-> "update", in |-> "concepts", path |-> "left", id |-> a,
           set |-> [aka |-> {"second"}, name |-> "m"], remove |-> {"owner"}]
Unlink == Operation("delete", "relationships", "right", <<"r1">>)
Link == With1(Operation("add", "relationships", "right", <<"r2">>),
              "item", Relation(<<"r2">>, y, x))
LinkLate == With1(Operation("add", "relationships", "right", <<"r2">>),
                  "item", Relation(<<"r2">>, q, x))
Unobserve == Operation("delete", "observations", "overlay", OfX)
Observe(id) == With1(Operation("add", "observations", "overlay", id),
                     "item", Observation(id))

Batch(operations, changes) == [operations |-> operations, views |-> changes]
SaveView == [op |-> "write-view", path |-> "fresh", content |-> View({y})]
DropView == [op |-> "delete-view", path |-> "view"]

MCBatches == [
    apply |-> {Batch(<<Rename>>, <<>>), Batch(<<Disown>>, <<>>),
               Batch(<<Disown, Unlink, Delete>>, <<>>),
               Batch(<<Unobserve, Observe(About("subject", z, <<>>))>>, <<>>)},
    visual |-> {Batch(<<Link>>, <<SaveView>>), Batch(<<>>, <<DropView>>),
                Batch(<<Unlink, Delete>>, <<>>), Batch(<<LinkLate>>, <<>>)}]
MCSaves == [right |-> {Document("right", <<Concept(x, "component")>>, <<>>)},
            late |-> {Document("late", <<Concept(q, "component")>>, <<>>)},
            fresh |-> {View({x})}, view |-> {NoFile}]
=============================================================================
