------------------------------ MODULE Profiles ------------------------------
(***************************************************************************)
(* The first two phases of a compile.  Profiles are resolved into kinds    *)
(* with their lineage; then structural patterns, which give a concept kind *)
(* its slots, the wiring the compiler mints between an instance and what   *)
(* fills them, and the ports a macro edge lands through.                   *)
(*                                                                         *)
(* A kind identity is <<profile, local id>>; a parsed source is a record   *)
(* [path, kind, wellFormed, value], and a diagnostic is [code, path,       *)
(* subject], the subject being the item it is reported against (<<>> for a *)
(* diagnostic about a whole file).                                         *)
(***************************************************************************)
EXTENDS Integers, SequencesExt

CONSTANTS
    CoreProfile,     \* identity of the vocabulary's own profile
    CoreConcepts,    \* conceptKinds: [kind -> [aspect, rigidity]]
    CorePolicies,    \* ids of relationshipPolicies
    Permits,         \* the relationship table: [<<from, to>> -> set of kinds]
    JunctionKinds,   \* the core kinds that are junctions
    ShippedProfiles, \* [identity -> profile value] the package carries
    Collation        \* identities and paths in localeCompare order

\* A sequence, of whatever its elements are.
IsSequence(s) == s \in Seq(ToSet(s))

ASSUME VocabularyAssumption ==
    /\ "plateau" \in DOMAIN CoreConcepts
    /\ JunctionKinds \subseteq DOMAIN CoreConcepts
    /\ DOMAIN Permits = (DOMAIN CoreConcepts) \X (DOMAIN CoreConcepts)
    /\ \A pair \in DOMAIN Permits : Permits[pair] \subseteq CorePolicies
    /\ IsSequence(Collation) /\ DOMAIN ShippedProfiles \subseteq ToSet(Collation)
    /\ \A w \in DOMAIN ShippedProfiles :
          /\ ShippedProfiles[w].identity = w
          /\ IsSequence(ShippedProfiles[w].concepts)
          /\ IsSequence(ShippedProfiles[w].relationships)

Diagnostic(code, path, subject) ==
    [code |-> code, path |-> path, subject |-> subject]

\* Extends f at one argument, whether or not it is defined there.
With(f, x, y) == [z \in DOMAIN f \cup {x} |-> IF z = x THEN y ELSE f[z]]

\* The aspects the table lets a core kind of relationship have at one end.
matrixEndpointAspects(policy, endpoint) ==
    {CoreConcepts[pair[endpoint]].aspect : pair \in
        {p \in DOMAIN Permits :
            /\ policy \in Permits[p]
            /\ p[1] \notin JunctionKinds /\ p[2] \notin JunctionKinds}}

CoreKind(kind) == <<CoreProfile, kind>>

\* {} stands for an absent narrowing: the schema admits no empty list.
CoreResolution ==
    [profiles |-> [p \in {CoreProfile} |->
        [lineage |-> <<p>>,
         concepts |-> [k \in DOMAIN CoreConcepts |-> CoreKind(k)],
         relationships |-> [k \in CorePolicies |-> CoreKind(k)]]],
     kinds |-> [k \in {CoreKind(c) : c \in DOMAIN CoreConcepts} |->
        [aspect |-> CoreConcepts[k[2]].aspect, lineage |-> <<k>>,
         rigidity |-> CoreConcepts[k[2]].rigidity]],
     policies |-> [k \in {CoreKind(c) : c \in CorePolicies} |->
        [lineage |-> <<k>>, coreKind |-> k[2], source |-> {}, target |-> {}]],
     diagnostics |-> {}]

\* What one endpoint of a resolved policy may be, declared or inherited.
EndpointAspects(policy, field, endpoint) ==
    IF policy[field] # {} THEN policy[field]
    ELSE matrixEndpointAspects(policy.coreKind, endpoint)

(***************************************************************************)
(* One concept kind of the profile `identity`, in one round.  `local` maps *)
(* the profile's local ids, `deferred` collects what the next round tries. *)
(***************************************************************************)
DeclareKind(identity, path, a, k) ==
    LET Fault(code) == [a EXCEPT !.diagnostics =
                            @ \cup {Diagnostic(code, path, <<>>)}]
        AntiRigidAncestor == \E n \in ToSet(a.kinds[k.parent].lineage) :
                                a.kinds[n].rigidity = "anti-rigid"
        self == <<identity, k.id>>
        resolved == [aspect |-> a.kinds[k.parent].aspect,
                     lineage |-> Append(a.kinds[k.parent].lineage, self),
                     rigidity |-> k.rigidity]
    IN  CASE k.id \in DOMAIN a.local -> Fault("YM409")
          [] k.id \notin DOMAIN a.local /\ k.parent \notin DOMAIN a.kinds ->
                [a EXCEPT !.deferred = Append(@, k)]
          [] OTHER ->
                IF k.rigidity = "rigid" /\ AntiRigidAncestor
                THEN Fault("YM413")
                ELSE [a EXCEPT !.local = With(@, k.id, self),
                               !.kinds = With(@, self, resolved)]

\* As many rounds as there are kinds reach the point where none helps.
DeclareKinds(identity, path, a, kinds) ==
    LET Round(acc, k) ==
            FoldLeft(LAMBDA b, d : DeclareKind(identity, path, b, d),
                     [acc EXCEPT !.deferred = <<>>], acc.deferred)
        settled == FoldLeft(Round, [a EXCEPT !.deferred = kinds], kinds)
    IN  [settled EXCEPT !.diagnostics = @ \cup
            {Diagnostic("YM407", path, <<>>) : k \in ToSet(settled.deferred)}]

DeclarePolicy(identity, path, a, k) ==
    LET Fault(code) == [a EXCEPT !.diagnostics =
                            @ \cup {Diagnostic(code, path, <<>>)}]
        parent == a.policies[k.parent]
        Broadens(field, endpoint) ==
            ~(k[field] \subseteq EndpointAspects(parent, field, endpoint))
        self == <<identity, k.id>>
        resolved ==
            [lineage |-> Append(parent.lineage, self),
             coreKind |-> parent.coreKind,
             source |-> IF k.source # {} THEN k.source ELSE parent.source,
             target |-> IF k.target # {} THEN k.target ELSE parent.target]
    IN  CASE k.id \in DOMAIN a.edges -> Fault("YM410")
          [] k.id \notin DOMAIN a.edges /\ k.parent \notin DOMAIN a.policies ->
                Fault("YM408")
          [] OTHER ->
                IF Broadens("source", 1) \/ Broadens("target", 2)
                THEN Fault("YM412")
                ELSE [a EXCEPT !.edges = With(@, k.id, self),
                               !.policies = With(@, self, resolved)]

\* One pending profile in one round of the outer loop.
ResolveProfile(r, pending) ==
    LET p == pending.value
        parent == r.profiles[p.extends]
        start == [local |-> parent.concepts, edges |-> parent.relationships,
                  kinds |-> r.kinds, policies |-> r.policies,
                  deferred |-> <<>>, diagnostics |-> r.diagnostics]
        named == DeclareKinds(p.identity, pending.path, start, p.concepts)
        full == FoldLeft(
                    LAMBDA a, k : DeclarePolicy(p.identity, pending.path, a, k),
                    named, p.relationships)
    IN  IF p.extends \notin DOMAIN r.profiles
        THEN [r EXCEPT !.pending = Append(@, pending)]
        ELSE IF p.identity \in DOMAIN r.profiles
        THEN [r EXCEPT !.diagnostics =
                @ \cup {Diagnostic("YM411", pending.path, <<>>)}]
        ELSE [r EXCEPT !.kinds = full.kinds, !.policies = full.policies,
                       !.diagnostics = full.diagnostics,
                       !.profiles = With(@, p.identity,
                            [lineage |-> Append(parent.lineage, p.identity),
                             concepts |-> full.local,
                             relationships |-> full.edges])]

(***************************************************************************)
(* A shipped profile joins when something asks for it and no file declares *)
(* it, and its own parent follows it in.                                   *)
(***************************************************************************)
WantedShipped(requested, declared) ==
    LET Available == DOMAIN ShippedProfiles \ declared
        Follow(wanted, i) ==
            wanted \cup ({ShippedProfiles[w].extends : w \in wanted}
                            \cap Available)
    IN  FoldLeft(Follow, requested \cap Available,
                 SetToSeq(DOMAIN ShippedProfiles))

SourcesOf(sources, kind) ==
    FlattenSeq([i \in DOMAIN sources |->
        IF sources[i].kind = kind THEN <<sources[i]>> ELSE <<>>])

PendingProfiles(sources) ==
    LET files == {s \in ToSet(SourcesOf(sources, "profile")) : s.wellFormed}
        declared == {f.value.identity : f \in files}
        requested == {d.value.profile :
                        d \in {s \in ToSet(SourcesOf(sources, "document")) :
                                s.wellFormed}}
                     \cup {f.value.extends : f \in files}
        shipped == {[path |-> w, kind |-> "profile", wellFormed |-> TRUE,
                     value |-> ShippedProfiles[w]] :
                        w \in WantedShipped(requested, declared)
                                  \cap DOMAIN ShippedProfiles}
        Named(i) == {p \in files \cup shipped : p.value.identity = Collation[i]}
        At(i, j) == {p \in Named(i) : p.path = Collation[j]}
    IN  FlattenSeq([i \in DOMAIN Collation |->
            IF Named(i) = {} THEN <<>>
            ELSE FlattenSeq([j \in DOMAIN Collation |->
                    IF At(i, j) = {} THEN <<>> ELSE <<CHOOSE p \in At(i, j) : TRUE>>])])

\* The profile phase: rounds over the pending profiles, then the orphans.
ResolveProfiles(sources) ==
    LET pending == PendingProfiles(sources)
        illFormed == {s \in ToSet(SourcesOf(sources, "profile")) :
                        ~s.wellFormed}
        start == [profiles |-> CoreResolution.profiles,
                  kinds |-> CoreResolution.kinds,
                  policies |-> CoreResolution.policies,
                  pending |-> pending,
                  diagnostics |-> {Diagnostic("YM201", s.path, <<>>) :
                                        s \in illFormed}]
        Round(r, p) ==
            FoldLeft(ResolveProfile, [r EXCEPT !.pending = <<>>], r.pending)
        settled == FoldLeft(Round, start, pending)
    IN  [settled EXCEPT !.diagnostics = @ \cup
            {Diagnostic("YM406", p.path, <<>>) : p \in ToSet(settled.pending)}]

\* The relationship kinds the table permits between two resolved kinds.
permittedBetween(r, from, to) ==
    Permits[<<r.kinds[from].lineage[1][2], r.kinds[to].lineage[1][2]>>]

(***************************************************************************)
(* Patterns.  The faults of one are found once, against the pattern.       *)
(***************************************************************************)
Self == "self"

SlotsOf(p) == {s.name : s \in ToSet(p.parts)}
SlotNamed(p, name) == CHOOSE s \in ToSet(p.parts) : s.name = name

\* The kind at one end of a wire: the anchor for `self`, else the slot's.
KindOfEndpoint(p, endpoint) ==
    IF endpoint = Self THEN p.kind ELSE SlotNamed(p, endpoint).kind

PartFaults(r, p) ==
    {"YM401" : s \in {q \in ToSet(p.parts) : q.kind \notin DOMAIN r.kinds}}

\* A wire that repeats an earlier one is not judged again by the table.
WireFaults(r, p) ==
    LET Known(w) == {w.from, w.to} \subseteq SlotsOf(p) \cup {Self}
        Resolved(w) == Known(w) /\ w.kind \in DOMAIN r.policies
        Repeats(i) == \E j \in 1 .. i - 1 : p.wiring[j] = p.wiring[i]
        Forbidden(w) ==
            r.policies[w.kind].coreKind \notin
                permittedBetween(r, KindOfEndpoint(p, w.from),
                                    KindOfEndpoint(p, w.to))
    IN  UNION {LET w == p.wiring[i] IN
                 {c \in {"YM302"} : ~Known(w)}
                 \cup {c \in {"YM201"} : w.from = w.to}
                 \cup {c \in {"YM402"} : w.kind \notin DOMAIN r.policies}
                 \cup {c \in {"YM201"} : Resolved(w) /\ Repeats(i)}
                 \cup {c \in {"YM404"} :
                        Resolved(w) /\ ~Repeats(i) /\ Forbidden(w)} :
               i \in DOMAIN p.wiring}

PortFaults(r, p) ==
    LET Known(port) == port.kind \in DOMAIN r.policies
    IN  UNION {LET port == p.ports[i] IN
                 {c \in {"YM402"} : ~Known(port)}
                 \cup {c \in {"YM302"} :
                        /\ Known(port)
                        /\ ~({port.out, port.in} \subseteq SlotsOf(p))}
                 \cup {c \in {"YM201"} :
                        /\ Known(port)
                        /\ \E j \in 1 .. i - 1 : p.ports[j].kind = port.kind} :
               i \in DOMAIN p.ports}

\* The first group of faults that is not empty: each stops the ones after.
PatternFaults(r, declared, p) ==
    CASE p.kind \notin DOMAIN r.kinds -> {"YM401"}
      [] p.kind \in DOMAIN r.kinds /\ p.kind \in DOMAIN declared -> {"YM411"}
      [] OTHER ->
            IF PartFaults(r, p) # {} THEN PartFaults(r, p)
            ELSE IF Self \in SlotsOf(p) THEN {"YM201"}
            ELSE IF WireFaults(r, p) # {} THEN WireFaults(r, p)
            ELSE PortFaults(r, p)

\* One pattern of a file: declared, or refused.
DeclarePattern(r, path, acc, p) ==
    LET faults == PatternFaults(r, acc.shapes, p)
    IN  IF faults # {}
        THEN [acc EXCEPT !.diagnostics = @ \cup {Diagnostic(c, path, <<>>) : c \in faults}]
        ELSE [acc EXCEPT !.shapes = With(@, p.kind, p)]

ReadPatterns(r, acc, s) ==
    IF ~s.wellFormed
    THEN [acc EXCEPT !.diagnostics = @ \cup {Diagnostic("YM201", s.path, <<>>)}]
    ELSE FoldLeft(LAMBDA b, p : DeclarePattern(r, s.path, b, p), acc, s.value)

\* The pattern phase: [shapes |-> by kind, diagnostics |-> what was refused].
ResolvePatterns(r, sources) ==
    FoldLeft(LAMBDA acc, s : ReadPatterns(r, acc, s),
             [shapes |-> <<>>, diagnostics |-> {}], SourcesOf(sources, "pattern"))

PortFor(p, kind) == {port \in ToSet(p.ports) : port.kind = kind}

\* Which way the wiring runs between the instance and a slot; held out wins.
slotWiringOf(p, slot) ==
    LET Wired(from, to) == \E w \in ToSet(p.wiring) : w.from = from /\ w.to = to
    IN  IF Wired(Self, slot) THEN "owned"
        ELSE IF Wired(slot, Self) THEN "context" ELSE "unwired"

\* Variant: whatever is bound fits the slot.
AdmitsAll(r, slot, actual) == TRUE

\* Does a slot admit a subject of this kind?  A subject that is no concept
\* has the kind <<>>.
Admits(r, slot, actual) ==
    \/ actual = slot.kind
    \/ /\ slot.matching = "descendants"
       /\ actual \in DOMAIN r.kinds
       /\ slot.kind \in ToSet(r.kinds[actual].lineage)
=============================================================================
