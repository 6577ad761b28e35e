------------------------ MODULE MCIncrementalCompile ------------------------
(***************************************************************************)
(* A small vocabulary and a library of texts for the compiler's runs: one  *)
(* profile file, one pattern file and two documents.                       *)
(***************************************************************************)
EXTENDS IncrementalCompile

core(k) == <<"core", k>>
ours(k) == <<"ours", k>>

MCConcepts ==
    [k \in {"component", "role", "object", "grouping", "junction", "plateau"} |->
        CASE k = "component" -> [aspect |-> "active", rigidity |-> "rigid"]
          [] k = "role"      -> [aspect |-> "active", rigidity |-> "anti-rigid"]
          [] k = "object"    -> [aspect |-> "passive", rigidity |-> "none"]
          [] OTHER           -> [aspect |-> "composite", rigidity |-> "none"]]
MCPolicies == {"serving", "access", "aggregation", "composition", "flow"}
MCPermits ==
    [p \in (DOMAIN MCConcepts) \X (DOMAIN MCConcepts) |->
        {"aggregation", "composition"}
        \cup {k \in {"serving", "flow"} : "object" \notin {p[1], p[2]}}
        \cup {k \in {"access"} : p[2] = "object"}]
MCShipped ==
    [p \in {"policy1", "policy2"} |->
        [identity |-> p,
         extends |-> IF p = "policy1" THEN "core" ELSE "policy1",
         concepts |-> IF p = "policy1"
            THEN <<[id |-> "limit", parent |-> core("object"),
                    rigidity |-> "none"]>> ELSE <<>>,
         relationships |-> IF p = "policy1" THEN <<>>
            ELSE <<[id |-> "informs", parent |-> core("flow"),
                    source |-> {"active"}, target |-> {}]>>]]
MCCollation == <<"core", "ours", "policy1", "policy2", "model", "other",
                 "pattern", "profile">>
MCIdOrder == << <<"r1">>, <<"r2">>, <<"r3">>, <<"a", "aggregation", "main">>,
                <<"r1", "expansion">> >>

Kind(id, parent, rigidity) ==
    [id |-> id, parent |-> parent, rigidity |-> rigidity]
Profile(extends, concepts) ==
    [kind |-> "profile", wellFormed |-> TRUE,
     value |-> [identity |-> "ours", extends |-> extends,
                concepts |-> concepts,
                relationships |->
                    <<[id |-> "calls", parent |-> core("serving"),
                       source |-> {"active"}, target |-> {"active"}]>>]]

Part(name, kind, required, matching) ==
    [name |-> name, kind |-> kind, required |-> required,
     matching |-> matching]
Wire(from, kind, to) == [from |-> from, kind |-> kind, to |-> to]
Pattern(parts, wiring) ==
    [kind |-> "pattern", wellFormed |-> TRUE,
     value |-> <<[kind |-> ours("api"), parts |-> parts, wiring |-> wiring,
                  ports |-> <<[kind |-> core("serving"), out |-> "main",
                               in |-> "main"]>>]>>]

Concept(id, kind) ==
    [id |-> id, kind |-> kind, text |-> [name |-> "n"], aka |-> {},
     owner |-> NoReference, distinctFrom |-> {}, supersedes |-> {},
     forbids |-> {}, constraints |-> <<>>, references |-> <<>>,
     parts |-> <<>>, presentIn |-> {}, attestations |-> <<>>]
Api(id, parts) == [Concept(id, "api") EXCEPT !.parts = parts]
Binds(slot, to) == [slot |-> slot, to |-> to]
Relation(id, kind, from, to) ==
    [id |-> id, kind |-> kind, from |-> from, to |-> to, text |-> <<>>,
     references |-> <<>>, presentIn |-> {}]
Document(id, profile, states, concepts, relationships) ==
    [kind |-> "document", wellFormed |-> TRUE,
     value |-> [id |-> id, profile |-> profile, states |-> states,
                concepts |-> concepts, relationships |-> relationships]]

MCPathOrder == <<"model", "other", "pattern", "profile">>
MCSegments == [profile |-> <<"architecture", "profiles", "profile">>,
               pattern |-> <<"architecture", "patterns", "pattern">>,
               model |-> <<"architecture", "model">>,
               other |-> <<"architecture", "parts", "more", "other">>]

\* A manifest over everything below it, and one whose profiles claim a document too.
Wide ==
    [at |-> <<"architecture">>, documents |-> <<<<Deep, {"model", "other"}>>>>,
     profiles |-> <<<<{"profiles"}, {"profile"}>>>>, patterns |-> <<<<{"patterns"}, Deep>>>>]
MCManifests ==
    [wide |-> Wide, greedy |-> [Wide EXCEPT !.profiles = <<<<Deep, {"profile", "other"}>>>>]]

a == <<"a">>
b == <<"b">>
x == <<"x">>
y == <<"y">>
now == <<"now">>
State(id, after) ==
    [id |-> id, kind |-> "target", text |-> <<>>, after |-> after]
NoServing(from) ==
    [relationship |-> "aggregation", from |-> from, to |-> NoReference,
     exceptFrom |-> {}, exceptTo |-> {}]

Instances2 == <<Api(a, <<Binds("main", x), Binds("extra", y)>>),
                Api(b, <<Binds("main", y)>>)>>

MCTexts == [
    profile |-> {"kinds", "orphan"},
    pattern |-> {"shape", "guests"},
    model   |-> {"apis", "macro", "adopted", "contradicted", "ruled", "shared",
                "misfit", "broken"},
    other   |-> {"parts", "linked", "staged", "absent", "junctions", NoText}]

MCParse == [
    kinds |-> Profile("policy2",
        <<Kind("gateway", ours("service"), "none"),
          Kind("service", core("component"), "rigid"),
          Kind("api", core("grouping"), "none")>>),
    orphan |-> Profile("core",
        <<Kind("service", core("role"), "rigid"),
          Kind("api", ours("missing"), "none")>>),
    shape |-> Pattern(
        <<Part("main", core("component"), TRUE, "descendants"),
          Part("extra", core("component"), FALSE, "exact")>>,
        <<Wire("self", core("aggregation"), "main"),
          Wire("main", core("serving"), "extra")>>),
    guests |-> Pattern(
        <<Part("main", core("component"), TRUE, "descendants"),
          Part("extra", core("component"), FALSE, "descendants")>>,
        <<Wire("main", core("aggregation"), "self"),
          Wire("extra", core("flow"), "main")>>),
    apis |-> Document("model", "ours", <<>>, Instances2, <<>>),
    macro |-> Document("model", "ours", <<>>,
        <<Api(a, <<Binds("main", x)>>), Api(b, <<Binds("main", y)>>)>>,
        <<Relation(<<"r1">>, "serving", a, b)>>),
    adopted |-> Document("model", "ours", <<>>, Instances2,
        <<Relation(<<"r1">>, "aggregation", a, x),
          Relation(<<"a", "aggregation", "main">>, "serving", b, a)>>),
    contradicted |-> Document("model", "ours", <<>>, Instances2,
        <<Relation(<<"r1">>, "serving", y, x)>>),
    ruled |-> Document("model", "ours", <<>>,
        <<[Api(a, <<Binds("main", x)>>) EXCEPT !.forbids = {NoServing(a)},
                                               !.owner = y]>>, <<>>),
    shared |-> Document("model", "ours", <<>>,
        <<Api(a, <<Binds("main", x), Binds("extra", y)>>),
          Api(b, <<Binds("main", x), Binds("extra", y)>>)>>,
        <<Relation(<<"r1">>, "flow", a, b)>>),
    misfit |-> Document("model", "ours", <<>>,
        <<Api(a, <<Binds("main", x), Binds("extra", <<"o">>)>>)>>, <<>>),
    broken |-> [kind |-> "document", wellFormed |-> FALSE, value |-> <<>>],
    parts |-> Document("other", "ours", <<>>,
        <<Concept(x, "service"), Concept(y, "component")>>, <<>>),
    linked |-> Document("other", "ours", <<>>,
        <<Concept(x, "component"),
          [Concept(y, "component") EXCEPT !.supersedes =
                {[subject |-> x, scope |-> ""]},
              !.constraints = <<[id |-> "k", ref |-> x, expects |-> <<"e">>]>>,
              !.references = <<[id |-> "f", ref |-> <<"r2">>]>>],
          [Concept(<<"o">>, "limit") EXCEPT !.distinctFrom = {x},
              !.supersedes = {[subject |-> y, scope |-> "s"]},
              !.attestations = <<[topic |-> "t", by |-> y, on |-> "d"]>>]>>,
        <<Relation(<<"r2">>, "composition", x, y),
          Relation(<<"r3">>, "informs", y, x)>>),
    staged |-> Document("other", "core",
        <<State(now, NoReference), State(<<"then">>, now)>>,
        <<[Concept(x, "component") EXCEPT !.presentIn = {now, <<"then">>}],
          [Concept(y, "component") EXCEPT !.presentIn = {<<"then">>}]>>,
        <<[Relation(<<"r2">>, "aggregation", x, y) EXCEPT
                !.presentIn = {<<"then">>}],
          [Relation(<<"r3">>, "flow", y, y) EXCEPT !.references =
                <<[id |-> "f", ref |-> now]>>]>>),
    absent |-> Document("other", "core", <<State(now, now)>>,
        <<[Concept(x, "component") EXCEPT !.presentIn = {now}],
          [Concept(y, "component") EXCEPT !.presentIn = {<<"then">>}]>>,
        <<[Relation(<<"r2">>, "composition", x, y) EXCEPT !.presentIn = {now}],
          Relation(<<"r3">>, "aggregation", x, y)>>),
    junctions |-> Document("other", "core", <<>>,
        <<Concept(x, "component"), Concept(y, "component"),
          Concept(<<"j">>, "junction")>>,
        <<Relation(<<"r2">>, "flow", x, <<"j">>),
          [Relation(<<"r3">>, "flow", <<"j">>, y) EXCEPT !.references =
                <<[id |-> "f", ref |-> <<"r1">>]>>]>>)]
=============================================================================
