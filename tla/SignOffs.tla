------------------------------- MODULE SignOffs -------------------------------
(***************************************************************************)
(* What git says of a document: which subjects changed since a commit, and *)
(* which sign-offs predate the wording they were given for.                *)
(*                                                                         *)
(* A document is a sequence of lines [entry, field, text]; the lines of an *)
(* entry stand together, its id first, beneath the heading of their        *)
(* collection.  No line is there twice and lines that stay keep their      *)
(* order, so a diff has one reading.  A text is a tuple: <<value>>, or an  *)
(* attestation's <<topic, by, recordedBy, on>>.                            *)
(* A commit is [day, document]; the history is oldest first.               *)
(***************************************************************************)
EXTENDS Naturals, FiniteSets, SequencesExt

LineAt(document, line) == SelectInSeq(document, LAMBDA l : l = line)

(***************************************************************************)
(* git diff --unified=0: a hunk for every place where lines that are in    *)
(* one document only stand between two lines both have.  A hunk with no    *)
(* new lines starts at the line before it.                                 *)
(***************************************************************************)
Hunks(old, new) ==
  LET kept == SelectSeq(new, LAMBDA l : l \in ToSet(old))
      At(document, g) == IF g = 0 THEN 0
                         ELSE IF g > Len(kept) THEN Len(document) + 1
                         ELSE LineAt(document, kept[g])
      Between(document, g) == At(document, g + 1) - At(document, g) - 1
  IN  {[start |-> At(new, g) + (IF Between(new, g) = 0 THEN 0 ELSE 1),
        count |-> Between(new, g), oldCount |-> Between(old, g)] :
         g \in {h \in 0 .. Len(kept) : Between(new, h) + Between(old, h) > 0}}

RangeOf(hunk) ==
  IF hunk.count = 0
  THEN LET at == IF hunk.start < 1 THEN 1 ELSE hunk.start IN [from |-> at, to |-> at]
  ELSE [from |-> hunk.start, to |-> hunk.start + hunk.count - 1]

\* Variant: a hunk that only inserts touches nothing.
RangesIgnoringInsertions(hunks) ==
  [touched |-> {RangeOf(h) : h \in {g \in hunks : g.oldCount > 0}},
   inserted |-> {RangeOf(h) : h \in {g \in hunks : g.oldCount = 0 /\ g.count > 0}}]

\* Variant: a range runs one line past its hunk.
RangesOneTooLong(hunks) ==
  LET Longer(r) == [r EXCEPT !.to = @ + 1]
  IN  [touched |-> {Longer(RangeOf(h)) : h \in hunks},
       inserted |-> {RangeOf(h) : h \in {g \in hunks : g.oldCount = 0 /\ g.count > 0}}]

changedLineRanges(hunks) ==
  [touched |-> {RangeOf(h) : h \in hunks},
   inserted |-> {RangeOf(h) : h \in {g \in hunks : g.oldCount = 0 /\ g.count > 0}}]

Overlap(range, span) == range.from <= span.to /\ range.to >= span.from

(***************************************************************************)
(* The lines each entry occupies today, and the subjects whose lines the   *)
(* range touched; one that lies wholly inside an insertion is new.  The    *)
(* states of a document, which alone have a type, are passed over.         *)
(***************************************************************************)
EntriesOf(document) ==
  {document[i].entry : i \in {j \in DOMAIN document : document[j].field # "heading"}}

itemSpan(document, entry) ==
  LET at == {i \in DOMAIN document : document[i].entry = entry}
  IN  [from |-> CHOOSE i \in at : \A j \in at : i <= j,
       to |-> CHOOSE i \in at : \A j \in at : j <= i]

StatesIn(document) == {l.entry : l \in {k \in ToSet(document) : k.field = "type"}}

deriveChangedSubjects(base, document) ==
  LET ranges == changedLineRanges(Hunks(base, document))
      changed == {e \in EntriesOf(document) \ StatesIn(document) :
                    \E r \in ranges.touched : Overlap(r, itemSpan(document, e))}
  IN  [changed |-> changed,
       added |-> {e \in changed : \E r \in ranges.inserted :
                    /\ r.from <= itemSpan(document, e).from
                    /\ r.to >= itemSpan(document, e).to}]

(***************************************************************************)
(* The attested subjects: their sign-offs, and where their name and their  *)
(* description stand.                                                      *)
(***************************************************************************)
Wording == {"name", "description"}

AttestationsOf(document, entry) ==
  {[topic |-> l.text[1], by |-> l.text[2], recordedBy |-> l.text[3], on |-> l.text[4]] :
     l \in {k \in ToSet(document) : k.entry = entry /\ k.field = "attestation"}}

SpansOf(document, entry) ==
  {[field |-> document[i].field, from |-> i, to |-> i] :
     i \in {j \in DOMAIN document : document[j].entry = entry /\ document[j].field \in Wording}}

attestedConcepts(document) ==
  {e \in EntriesOf(document) : AttestationsOf(document, e) # {} /\ SpansOf(document, e) # {}}

(***************************************************************************)
(* A sign-off covers every commit up to the end of its day.  It is stale   *)
(* when the lines changed since the last of those reach the wording of     *)
(* today; the first later commit from which they no longer do brought the  *)
(* change in, and none of them means the working tree did.                 *)
(***************************************************************************)
Covered(commits, attestation) == {i \in DOMAIN commits : commits[i].day <= attestation.on}

TouchedSince(commits, i, document) ==
  changedLineRanges(Hunks(commits[i].document, document)).touched

intersects(touched, spans) == {s \in spans : \E r \in touched : Overlap(r, s)}

StaleSpans(commits, document, entry, attestation) ==
  LET covered == Covered(commits, attestation)
      base == CHOOSE i \in covered : \A j \in covered : j <= i
  IN  intersects(TouchedSince(commits, base, document), SpansOf(document, entry))

\* The commit that brought the change in; 0 is the working tree.
Introduced(commits, document, attestation, spans) ==
  LET later == {i \in DOMAIN commits \ Covered(commits, attestation) :
                  intersects(TouchedSince(commits, i, document), spans) = {}}
  IN  IF later = {} THEN 0 ELSE CHOOSE i \in later : \A j \in later : i <= j

SignOffsIn(document) ==
  UNION {{[entry |-> e, attestation |-> a] : a \in AttestationsOf(document, e)} :
           e \in attestedConcepts(document)}

(***************************************************************************)
(* The report.  Where git cannot answer there is a note and no guess: no   *)
(* repository, a shallow history, a file that was never committed, or a    *)
(* history that starts after the sign-off.                                 *)
(***************************************************************************)
Findings(commits, document) ==
  LET assessed == {s \in SignOffsIn(document) : Covered(commits, s.attestation) # {}}
      Spans(s) == StaleSpans(commits, document, s.entry, s.attestation)
      Finding(s) == [type |-> "subject", target |-> <<s.entry>>, result |-> "stale-attestation",
                     attestation |-> s.attestation, fields |-> {p.field : p \in Spans(s)},
                     changedAt |-> Introduced(commits, document, s.attestation, Spans(s))]
  IN  {Finding(s) : s \in {t \in assessed : Spans(t) # {}}}

deriveAttestationStaleness(clone, commits, document) ==
  LET signOffs == SignOffsIn(document)
      Nothing(why) == [findings |-> {}, notes |-> {<<why>>}]
  IN  IF signOffs = {} THEN [findings |-> {}, notes |-> {}]
      ELSE IF clone = "none" THEN Nothing("not a repository")
      ELSE IF clone = "shallow" THEN Nothing("shallow")
      ELSE IF commits = <<>> THEN Nothing("no history")
      ELSE [findings |-> Findings(commits, document),
            notes |-> {<<"predates", s.entry, s.attestation.topic>> :
                         s \in {t \in signOffs : Covered(commits, t.attestation) = {}}}]
=============================================================================
