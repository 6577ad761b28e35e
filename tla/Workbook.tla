------------------------------- MODULE Workbook -------------------------------
(***************************************************************************)
(* The model as a workbook, and an edited workbook back as operations.     *)
(*                                                                         *)
(* A sheet is a sequence of rows [id, cells], cells being a function from  *)
(* the columns that are not derived to a text; a blank cell is Blank.  A   *)
(* workbook is [working, baseline], each a function from sheet names to    *)
(* sheets: the baseline is the copy of the rows as they were exported.     *)
(* What a document says is read line by line, as in SignOffs.              *)
(***************************************************************************)
EXTENDS SignOffs, Functions

CONSTANTS Blank,      \* the text of a cell with nothing in it, a tuple like the others
          Path,       \* the document's path, as a text
          Statuses,   \* the texts the status of a subject may have
          Qualified   \* the qualified text of each kind text a document may state

(***************************************************************************)
(* Columns, and the field of a declaration each one carries.  A state has  *)
(* a sheet of its own; every other concept is on the first.                *)
(***************************************************************************)
ConceptFields == [Kind |-> "kind", Name |-> "name", Description |-> "description",
                  Status |-> "status", Owner |-> "owner"]
RelationshipFields == [Kind |-> "kind", From |-> "from", To |-> "to", Name |-> "name",
                       Description |-> "description", Status |-> "status", Mode |-> "mode",
                       Content |-> "content"]
StateFields == [Kind |-> "kind", Name |-> "name", Description |-> "description"]

\* Every field a sheet shows in a column, those no import writes included.
ColumnsOf(sheet) ==
  CASE sheet = "01 Concepts" -> ConceptFields @@ [Folder |-> "folder"]
    [] sheet = "02 Relationships" -> RelationshipFields
    [] sheet = "03 States" -> StateFields @@ [StateKind |-> "type", After |-> "after"]

MainSheets == {"01 Concepts", "02 Relationships", "03 States"}

\* The satellite sheets take the facts no column carries, by what they are.
SatelliteOf(field) ==
  CASE field = "presentIn" -> "04 Present In"
    [] field \in {"references", "constraints", "supersedes", "distinctFrom"} -> "05 References"
    [] field = "aka" -> "06 Aliases"
    [] OTHER -> "07 Other Facts"

Satellites == {"04 Present In", "05 References", "06 Aliases", "07 Other Facts"}

FieldTexts(document, entry, field) ==
  LET lines == SelectSeq(document, LAMBDA l : l.entry = entry /\ l.field = field)
  IN  [i \in DOMAIN lines |-> lines[i].text]

\* The graph carries a kind qualified by its profile; a document states it without.
CellText(field, text) == IF field = "kind" THEN Qualified[text] ELSE text

localKind(field, text) ==
  IF field = "kind" /\ text \in Range(Qualified)
  THEN CHOOSE k \in DOMAIN Qualified : Qualified[k] = text ELSE text

FirstCell(document, entry, field) ==
  LET texts == FieldTexts(document, entry, field)
  IN  IF texts = <<>> THEN Blank ELSE CellText(field, Head(texts))

HasField(document, entry, field) == FieldTexts(document, entry, field) # <<>>

SheetOf(document, entry) ==
  IF HasField(document, entry, "from") THEN "02 Relationships"
  ELSE IF HasField(document, entry, "type") THEN "03 States" ELSE "01 Concepts"

(***************************************************************************)
(* buildWorkbookSheets.  `order` is the ids, sorted.                       *)
(***************************************************************************)
MainRow(document, entry) ==
  LET columns == ColumnsOf(SheetOf(document, entry))
  IN  [id |-> entry,
       cells |-> [c \in DOMAIN columns |-> FirstCell(document, entry, columns[c])]
                 @@ [Document |-> Path]]

MainSheet(document, order, sheet) ==
  LET ids == SelectSeq(order, LAMBDA e : e \in EntriesOf(document) /\ SheetOf(document, e) = sheet)
  IN  [i \in DOMAIN ids |-> MainRow(document, ids[i])]

InAColumn(document, line) ==
  \/ line.field \in {"heading", "id"}
  \/ line.field \in Range(ColumnsOf(SheetOf(document, line.entry)))

SatelliteSheet(document, sheet) ==
  LET lines == SelectSeq(document, LAMBDA l : ~InAColumn(document, l) /\ SatelliteOf(l.field) = sheet)
  IN  [i \in DOMAIN lines |-> [id |-> lines[i].entry,
                               cells |-> [Fact |-> <<lines[i].field>> \o lines[i].text]]]

buildWorkbookSheets(document, order) ==
  [s \in MainSheets |-> MainSheet(document, order, s)]
  @@ [s \in Satellites |-> SatelliteSheet(document, s)]

exported(document, order) ==
  LET sheets == buildWorkbookSheets(document, order) IN [working |-> sheets, baseline |-> sheets]

(***************************************************************************)
(* The three-way merge of one sheet, keyed by the id in the first column:  *)
(* the last row of an id stands for it, and a row with no id for nothing.  *)
(***************************************************************************)
keySheet(rows) ==
  LET ids == {rows[i].id : i \in DOMAIN rows} \ {Blank}
      LastOf(id) == SelectLastInSeq(rows, LAMBDA r : r.id = id)
  IN  [id \in ids |-> rows[LastOf(id)].cells]

CellOf(row, column) == IF column \in DOMAIN row THEN row[column] ELSE Blank

Theirs(current, sheet, id, column, was) ==
  LET rows == keySheet(current[sheet])
  IN  IF sheet \in DOMAIN current /\ id \in DOMAIN rows /\ column \in DOMAIN rows[id]
      THEN rows[id][column] ELSE was

\* The cells the author changed, each with what the workspace has there now.
CellChanges(sheet, working, baseline, current) ==
  LET mine == keySheet(working[sheet])
      ancestor == keySheet(baseline[sheet])
      Edited(id) == {c \in DOMAIN mine[id] : mine[id][c] # CellOf(ancestor[id], c)}
  IN  UNION {{[sheet |-> sheet, id |-> id, column |-> c, from |-> CellOf(ancestor[id], c),
               to |-> mine[id][c],
               theirs |-> Theirs(current, sheet, id, c, CellOf(ancestor[id], c))] :
                c \in Edited(id)} : id \in DOMAIN mine \cap DOMAIN ancestor}

BothMoved(change) == change.theirs \notin {change.from, change.to}

\* Variant: what the workbook says wins over what the workspace moved to.
MergedWithoutAncestor(sheet, working, baseline, current) ==
  LET edited == CellChanges(sheet, working, baseline, current)
      mine == DOMAIN keySheet(working[sheet])
      ancestor == DOMAIN keySheet(baseline[sheet])
  IN  [changes |-> edited, conflicts |-> {},
       added |-> {[sheet |-> sheet, id |-> id] : id \in mine \ ancestor},
       missing |-> {[sheet |-> sheet, id |-> id] : id \in ancestor \ mine}]

mergeSheet(sheet, working, baseline, current) ==
  LET edited == CellChanges(sheet, working, baseline, current)
      mine == DOMAIN keySheet(working[sheet])
      ancestor == DOMAIN keySheet(baseline[sheet])
  IN  [changes |-> {c \in edited : ~BothMoved(c)},
       conflicts |-> {c \in edited : BothMoved(c)},
       added |-> {[sheet |-> sheet, id |-> id] : id \in mine \ ancestor},
       missing |-> {[sheet |-> sheet, id |-> id] : id \in ancestor \ mine}]

\* Every sheet both the workbook and its baseline have.
mergeWorkbook(book, current) ==
  LET reports == {mergeSheet(s, book.working, book.baseline, current) :
                    s \in DOMAIN book.working \cap DOMAIN book.baseline}
  IN  [f \in {"changes", "conflicts", "added", "missing"} |-> UNION {r[f] : r \in reports}]

(***************************************************************************)
(* operationsFrom.  One update for a subject, whatever cells it has        *)
(* edited; a row that cannot be an operation is refused with its reason    *)
(* and the others go on.  A new state row is an ordinary new concept.      *)
(***************************************************************************)
WritableOf(sheet) ==
  IF sheet = "02 Relationships" THEN RelationshipFields
  ELSE IF sheet \in MainSheets THEN ConceptFields ELSE <<>>

WorkingCell(book, change, column) == CellOf(keySheet(book.working[change.sheet])[change.id], column)

Writable(book, change) ==
  /\ change.column \in DOMAIN WritableOf(change.sheet)
  /\ WorkingCell(book, change, "Document") # Blank

Updates(book, report) ==
  LET writable == {c \in report.changes : Writable(book, c)}
      Of(row) == {c \in writable : [sheet |-> c.sheet, id |-> c.id] = row}
      FieldOf(c) == WritableOf(c.sheet)[c.column]
      Set(row) == [f \in {FieldOf(c) : c \in Of(row)} |->
                     localKind(f, (CHOOSE c \in Of(row) : FieldOf(c) = f).to)]
  IN  {[op |-> "update", sheet |-> row.sheet, id |-> row.id,
        path |-> WorkingCell(book, row, "Document"), set |-> Set(row)] :
         row \in {[sheet |-> c.sheet, id |-> c.id] : c \in writable}}

Addable(book, row) ==
  /\ row.sheet \in MainSheets
  /\ WorkingCell(book, row, "Document") # Blank /\ WorkingCell(book, row, "Kind") # Blank

Additions(book, report) ==
  LET Filled(row) == {c \in DOMAIN WritableOf(row.sheet) : WorkingCell(book, row, c) # Blank}
      FieldOf(row, c) == WritableOf(row.sheet)[c]
  IN  {[op |-> "add", sheet |-> row.sheet, id |-> row.id,
        path |-> WorkingCell(book, row, "Document"),
        set |-> [f \in {FieldOf(row, c) : c \in Filled(row)} |->
                   localKind(f, WorkingCell(book, row,
                                            CHOOSE c \in Filled(row) : FieldOf(row, c) = f))]] :
         row \in {r \in report.added : Addable(book, r)}}

operationsFrom(book, report) ==
  [operations |-> Updates(book, report) \cup Additions(book, report),
   refusals |-> {[sheet |-> c.sheet, id |-> c.id, why |-> c.column] :
                   c \in {d \in report.changes : ~Writable(book, d) /\ d.column # "Document"}}
                \cup {[sheet |-> r.sheet, id |-> r.id, why |-> "row"] :
                        r \in {q \in report.added : ~Addable(book, q)}}]

(***************************************************************************)
(* import: everything is read and merged first.  A conflict refuses the    *)
(* whole workbook; refusals and missing rows are only told.                *)
(***************************************************************************)
importPlan(book, document, order) ==
  LET report == mergeWorkbook(book, buildWorkbookSheets(document, order))
      planned == operationsFrom(book, report)
  IN  [conflicts |-> report.conflicts,
       operations |-> IF report.conflicts = {} THEN planned.operations ELSE {},
       notes |-> planned.refusals \cup {[sheet |-> m.sheet, id |-> m.id, why |-> "missing"] :
                                          m \in report.missing}]

(***************************************************************************)
(* The operations, applied to the document as it is when they land.  A     *)
(* scalar that is there is replaced where it stands, one that is not goes  *)
(* to the end of its item, a new subject to the end of its collection.     *)
(***************************************************************************)
SetScalar(document, entry, field, text) ==
  LET line == [entry |-> entry, field |-> field, text |-> text]
      at == SelectInSeq(document, LAMBDA l : l.entry = entry /\ l.field = field)
      end == SelectLastInSeq(document, LAMBDA l : l.entry = entry)
  IN  IF at # 0 THEN [document EXCEPT ![at] = line] ELSE InsertAt(document, end + 1, line)

\* The order operations give a subject's fields.
FieldOrder == <<"kind", "from", "to", "name", "description", "status", "owner", "mode", "content">>

CollectionOf(document, line) ==
  IF line.field = "heading" THEN line.entry
  ELSE IF HasField(document, line.entry, "from") THEN "relationships"
  ELSE IF HasField(document, line.entry, "type") THEN "states" ELSE "concepts"

AddItem(document, operation) ==
  LET collection == IF operation.sheet = "02 Relationships" THEN "relationships" ELSE "concepts"
      last == SelectLastInSeq(document, LAMBDA l : CollectionOf(document, l) = collection)
  IN  InsertAt(document, last + 1,
               [entry |-> operation.id, field |-> "id", text |-> <<operation.id>>])

Write(document, operation) ==
  LET fields == SelectSeq(FieldOrder, LAMBDA f : f \in DOMAIN operation.set)
      start == IF operation.op = "add" THEN AddItem(document, operation) ELSE document
  IN  FoldLeft(LAMBDA d, f : SetScalar(d, operation.id, f, operation.set[f]), start, fields)

\* What the schema or the operation itself refuses.
Refused(document, operation) ==
  \/ operation.path # Path
  \/ Blank \in Range(operation.set)
  \/ "status" \in DOMAIN operation.set /\ operation.set["status"] \notin Statuses
  \/ operation.op = "update" /\ operation.id \notin EntriesOf(document)
  \/ operation.op = "add" /\ operation.id \in EntriesOf(document)

\* What a batch leaves; it lands whole or not at all.
Written(document, operations) == FoldLeft(Write, document, SetToSeq(operations))
=============================================================================
