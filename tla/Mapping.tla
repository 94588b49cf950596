------------------------------ MODULE Mapping ------------------------------
(***************************************************************************)
(* From a changed row to document operations: `materialize` and the rules  *)
(* it applies (crates/engine/src/lib.rs, crates/engine/src/mapping.rs),    *)
(* the row changes that `docbuild` makes of a decoded tuple, and the       *)
(* checks that refuse a section the source could not serve.                *)
(*                                                                         *)
(* A row is a record of the columns "k", "c", "big" (wide enough to be     *)
(* stored out of line, so that an update may leave it out) and "arr"; a    *)
(* column value is a value of module Filters, or <<"array", S>>.  A name a *)
(* template renders (an id, an index, a routing) is the function from the  *)
(* template's columns to their values: the literals between them and the   *)
(* formatting of a value are left out, so that two names are equal when    *)
(* the same columns rendered the same values.  Tuples and documents are    *)
(* functions, and the empty function stands for an absent one.             *)
(*                                                                         *)
(* The module reaches RECURSIVE operators: only TLC's runs use it.         *)
(***************************************************************************)
EXTENDS Filters, FiniteSets, Functions, SequencesExt

Absent == <<>>
Has(f) == DOMAIN f # {}

\* CoreError::Other out of materialize: the pipeline stops on this row.
Halt == [halt |-> TRUE]
Halted(x) == "halt" \in DOMAIN x

\* The same out of materialize itself, in the place of the row's operations.
Stop == <<[op |-> "halt"]>>
Stops(ops) == \E i \in DOMAIN ops : ops[i].op = "halt"

\* A section without options; the sections of a run are this one with some of
\* them set.  `key` is the key the catalogue reports, `primary_key` the one the
\* section declares, `full` stands for REPLICA IDENTITY FULL.
Plain == [key |-> {"k"}, primary_key |-> "k", full |-> FALSE, name |-> "child",
          id |-> {}, index |-> {}, routing |-> {}, join |-> "none", fan_out |-> FALSE,
          filter |-> Absent, exclude |-> {}, transform |-> <<>>, fields |-> <<>>,
          constants |-> {}, append_only |-> FALSE]

Pk(s, row) == Restrict(row, s.key)

----------------------------------------------------------------------------
(* Templates.                                                              *)

\* IdTemplate::render, and IndexTarget::render and RoutingColumn::render with
\* it: a column that is missing or NULL renders nothing.
Rendered(columns, doc) ==
  IF \A c \in columns : c \in DOMAIN doc /\ doc[c] # Null THEN Restrict(doc, columns) ELSE Halt

\* IdTemplate::parse decides it from the key the section declares.
PkOnly(s, columns) == columns \subseteq {s.primary_key}

\* render_from_pk: a bare value binds to the only placeholder when that is the
\* declared key, whatever column it came from.
RenderFromPk(s, columns, pk) ==
  CASE columns = {}                -> Absent
    [] Cardinality(DOMAIN pk) > 1  -> Rendered(columns, pk)
    [] columns = {s.primary_key}   -> [c \in columns |-> pk[CHOOSE d \in DOMAIN pk : TRUE]]
    [] OTHER                       -> Halt

\* render_for_row: from the row, else from the before-image, else from the key.
RenderForRow(s, columns, pk, doc, before) ==
  CASE Has(doc)    -> Rendered(columns, doc)
    [] Has(before) -> Rendered(columns, before)
    [] OTHER       -> IF PkOnly(s, columns) \/ Cardinality(DOMAIN pk) > 1
                      THEN RenderFromPk(s, columns, pk) ELSE Halt

\* derived_id.  Without a template the id is the key, or the content of a row
\* that has none.
DerivedId(s, pk, doc, before) ==
  CASE s.id # {}     -> RenderForRow(s, s.id, pk, doc, before)
    [] s.append_only /\ (Has(doc) \/ Has(before)) -> IF Has(doc) THEN doc ELSE before
    [] OTHER         -> pk

\* rendered_index: a fixed index has no columns to render.
RenderedIndex(s, pk, doc, before) ==
  IF s.index = {} THEN Absent ELSE RenderForRow(s, s.index, pk, doc, before)

----------------------------------------------------------------------------
(* The documents of a row.                                                 *)

\* fan_out_docs: one document per element, the element in the array's place;
\* a NULL array keeps the row one document under the base id.
FanOutDocs(base, doc) ==
  IF doc.arr = Null THEN {[id |-> base, doc |-> doc]}
  ELSE {LET child == [doc EXCEPT !.arr = e]
        IN  [id |-> Rendered({"k", "arr"}, child), doc |-> child] : e \in doc.arr[2]}

Shape(s, base, doc) == IF s.fan_out THEN FanOutDocs(base, doc) ELSE {[id |-> base, doc |-> doc]}

\* The column that names a join child's parent: "c", or the fanned element.
ParentColumn(s) == IF s.join = "element" THEN "arr" ELSE "c"

\* JoinParent::id, the parent section's own id rule applied to one value.
ParentId(v) == [k |-> v]

\* JoinRule::routing_for_doc.
RoutingForDoc(s, doc) ==
  IF s.join = "parent" THEN Absent
  ELSE LET v == Field(doc, ParentColumn(s)) IN IF v = Null THEN Halt ELSE ParentId(v)

\* JoinRule::routing_for_key and RoutingColumn::render_from_key, and the choice
\* between them (key_routing).
KeyRouting(s, before, pk) ==
  LET column == IF s.join = "none" THEN CHOOSE c \in s.routing : TRUE ELSE "c"
      name(v) == IF s.join = "none" THEN column :> v ELSE ParentId(v)
  IN  CASE s.join = "none" /\ s.routing = {} -> Absent
        [] s.join = "parent"                 -> Absent
        [] s.join = "element"                -> Halt
        [] Has(before) -> IF s.join = "child" THEN RoutingForDoc(s, before)
                          ELSE Rendered(s.routing, before)
        [] OTHER       -> CASE Cardinality(DOMAIN pk) > 1 /\ column \in DOMAIN pk -> name(pk[column])
                            [] Cardinality(DOMAIN pk) = 1 /\ column = s.primary_key ->
                                 name(pk[CHOOSE d \in DOMAIN pk : TRUE])
                            [] OTHER -> Halt

\* place: where each document of a row is filed, read from the raw row.
Placed(s, base, raw) ==
  {[id |-> d.id, doc |-> d.doc,
    routing |-> CASE s.join # "none"  -> RoutingForDoc(s, d.doc)
                  [] s.routing # {}   -> Rendered(s.routing, raw)
                  [] OTHER            -> Absent] : d \in Shape(s, base, raw)}

----------------------------------------------------------------------------
(* Transforms, and the order in which a document is finished.              *)

Stars == <<"text", 0>>
Scalar(v) == v[1] # "array"

\* apply_op: what an operation makes of a value that is not NULL, and whether
\* the value counts as unconverted.
Converted(v)  == [value |-> v, left |-> FALSE]
Left(v)       == [value |-> v, left |-> TRUE]
ApplyOp(op, v) ==
  CASE op = "redact" -> Converted(Stars)
    [] op = "hash"   -> Converted(<<"hash", v>>)
    [] op = "json"   -> CASE v[1] = "numtext" -> Converted(<<"num", v[2]>>)
                          [] v[1] = "text"    -> Left(v)
                          [] OTHER            -> Converted(v)
    [] op = "split"  -> CASE IsString(v)      -> Converted(<<"array", {v}>>)
                          [] v[1] = "array"   -> Converted(v)
                          [] OTHER            -> Left(v)
    [] op = "number" -> CASE v[1] = "numtext" -> Converted(<<"num", v[2]>>)
                          [] v[1] = "num"     -> Converted(v)
                          [] OTHER            -> Left(v)
    [] op = "date"   -> IF v[1] = "text" THEN Converted(<<"isodate", v[2]>>) ELSE Left(v)
    [] op = "lookup" -> IF v[1] \in {"num", "numtext"} THEN Converted(<<"label", v[2]>>)
                        ELSE Left(<<"label", 0>>)
    [] op = "pseudonym" -> IF Scalar(v) THEN Converted(<<"token", v>>) ELSE Left(Stars)

\* Projections::apply.
Projected(s, doc) == Restrict(doc, DOMAIN doc \ s.exclude)

\* Mutant: a column completed from the stored document is transformed again.
TransformedAgain(s, doc, shaped) ==
  [c \in DOMAIN doc |-> IF c \in DOMAIN s.transform /\ doc[c] # Null
                        THEN ApplyOp(s.transform[c], doc[c]).value ELSE doc[c]]

\* Transforms::apply_except: NULL and the columns in `shaped` are left alone.
TransformedExcept(s, doc, shaped) ==
  [c \in DOMAIN doc |-> IF c \in DOMAIN s.transform \ shaped /\ doc[c] # Null
                        THEN ApplyOp(s.transform[c], doc[c]).value ELSE doc[c]]

\* Renames::target_name, Renames::apply and rename_keys: every column leaves
\* under its own name before any arrives, so that two may change places.
TargetName(s, c) == IF c \in DOMAIN s.fields THEN s.fields[c] ELSE c
Renamed(s, doc) ==
  LET moved == DOMAIN s.fields \cap DOMAIN doc
      kept  == DOMAIN doc \ moved
  IN  [f \in kept \cup {s.fields[c] : c \in moved} |->
         IF \E c \in moved : s.fields[c] = f THEN doc[CHOOSE c \in moved : s.fields[c] = f] ELSE doc[f]]

\* Constants::apply, and the join field behind it: neither is a column.
Constant(s) == [f \in s.constants |-> <<"const", 0>>]
JoinField(s, placed) ==
  IF s.join = "none" THEN Absent
  ELSE "rel" :> [name |-> s.name, parent |-> placed.routing]

\* finish.
Finished(s, placed, shaped) ==
  JoinField(s, placed) @@ (Constant(s) @@ Renamed(s, TransformedExcept(s, Projected(s, placed.doc), shaped)))

----------------------------------------------------------------------------
(* Completion and filter.                                                  *)

\* completion_key: where the row's previous state is filed, if an update left a
\* column out.
CompletionKey(s, e) ==
  IF e.kind # "update" THEN Absent
  ELSE
    LET old     == IF Has(e.previous_pk) THEN e.previous_pk ELSE e.pk
        index   == CASE Has(e.before)        -> Rendered(s.index, e.before)
                     [] PkOnly(s, s.index)   -> RenderFromPk(s, s.index, old)
                     [] OTHER                -> Rendered(s.index, e.doc)
        routing == KeyRouting(s, e.before, old)
        id      == CASE s.id = {}            -> old
                     [] PkOnly(s, s.id)      -> RenderFromPk(s, s.id, old)
                     [] OTHER -> LET b == Rendered(s.id, e.before)
                                 IN  IF Has(e.before) /\ ~Halted(b) THEN b ELSE RenderFromPk(s, s.id, e.pk)
    IN  IF e.unchanged = {} \/ s.append_only \/ Halted(index) \/ Halted(id) THEN Absent
        ELSE [index |-> index, id |-> id, routing |-> IF Halted(routing) THEN Absent ELSE routing]

\* complete_toast: the columns the stored copy has, under their target names.
Completed(s, e, previous) ==
  IF e.kind # "update" THEN {} ELSE {c \in e.unchanged : TargetName(s, c) \in DOMAIN previous}
CompleteToast(s, e, previous) ==
  [c \in DOMAIN e.doc |-> IF c \in Completed(s, e, previous) THEN previous[TargetName(s, c)] ELSE e.doc[c]]

\* filter_out: a row that does not match is a document that has to leave.
FilterOut(s, e, doc) ==
  IF ~Has(s.filter) \/ e.kind = "delete" \/ Matches(s.filter, doc) THEN [e EXCEPT !.doc = doc]
  ELSE [e EXCEPT !.kind = "delete", !.pk = IF Has(e.previous_pk) THEN e.previous_pk ELSE e.pk,
                 !.before = IF Has(e.before) THEN e.before ELSE e.doc]

----------------------------------------------------------------------------
(* materialize.                                                            *)

Upsert(index, p, doc, v) ==
  [op |-> "upsert", index |-> index, id |-> p.id, routing |-> p.routing, doc |-> doc, v |-> v]
Delete(index, id, routing, v) ==
  [op |-> "delete", index |-> index, id |-> id, routing |-> routing, doc |-> Absent, v |-> v]
DeleteChildren(index, parent, v) ==
  [op |-> "children", index |-> index, id |-> parent, routing |-> parent, doc |-> Absent, v |-> v]

Unplaceable(placed) == \E p \in placed : Halted(p.id) \/ Halted(p.routing)

Upserts(s, index, placed, shaped, v) ==
  SetToSeq({Upsert(index, p, Finished(s, p, shaped), v) : p \in placed})

\* The name an update's old document is under when it can be told, otherwise
\* the one its new document takes.
OldName(s, columns, e, now) ==
  LET told == CASE columns = s.id /\ s.id = {} -> e.previous_pk
                [] PkOnly(s, columns) -> IF Has(e.previous_pk) THEN RenderFromPk(s, columns, e.previous_pk) ELSE now
                [] Has(e.before)      -> Rendered(columns, e.before)
                [] OTHER              -> now
  IN  IF ~Has(told) \/ Halted(told) THEN now ELSE told

\* RowKind::Insert.
MaterializeInsert(s, e) ==
  LET base   == DerivedId(s, e.pk, e.doc, Absent)
      index  == RenderedIndex(s, e.pk, e.doc, Absent)
      placed == Placed(s, base, e.doc)
  IN  IF Halted(base) \/ Halted(index) \/ Unplaceable(placed) THEN Stop
      ELSE Upserts(s, index, placed, {}, e.v)

\* Mutant: the old copy of a row that moved is left where it was.
MaterializeUpdateInPlace(s, e, shaped) ==
  LET base   == DerivedId(s, e.pk, e.doc, e.before)
      index  == RenderedIndex(s, e.pk, e.doc, e.before)
      placed == Placed(s, base, e.doc)
  IN  IF Halted(base) \/ Halted(index) \/ Unplaceable(placed) THEN Stop
      ELSE Upserts(s, index, placed, shaped, e.v)

\* RowKind::Update: the new documents first, then a delete of every place the
\* row's old state held that its new one does not.
MaterializeUpdate(s, e, shaped) ==
  LET old    == IF Has(e.previous_pk) THEN e.previous_pk ELSE e.pk
      base   == DerivedId(s, e.pk, e.doc, e.before)
      index  == RenderedIndex(s, e.pk, e.doc, e.before)
      placed == Placed(s, base, e.doc)
      held   == {<<p.id, p.routing>> : p \in placed}
      oldIndex   == RenderedIndex(s, old, Absent, e.before)
      before     == Placed(s, DerivedId(s, old, Absent, e.before), e.before)
      left       == {p \in before : oldIndex # index \/ <<p.id, p.routing>> \notin held}
      oldRouting == KeyRouting(s, e.before, old)
      oldPlace   == <<IF s.index = {} THEN Absent ELSE OldName(s, s.index, e, index),
                      OldName(s, s.id, e, base), oldRouting>>
      here       == CHOOSE p \in placed : TRUE
  IN  CASE Halted(base) \/ Halted(index) \/ Unplaceable(placed) -> Stop
        [] s.fan_out /\ ~Has(e.before)     -> Upserts(s, index, placed, shaped, e.v)
        [] s.fan_out /\ Unplaceable(before) -> Stop
        [] s.fan_out -> Upserts(s, index, placed, shaped, e.v)
                          \o SetToSeq({Delete(oldIndex, p.id, p.routing, e.v) : p \in left})
        [] ~s.fan_out /\ Halted(oldRouting) -> Stop
        [] ~s.fan_out -> Upserts(s, index, placed, shaped, e.v)
                           \o (IF oldPlace = <<index, base, here.routing>> THEN <<>>
                               ELSE <<Delete(oldPlace[1], oldPlace[2], oldPlace[3], e.v)>>)

\* RowKind::Delete, which is also what a row that left the filter becomes.
MaterializeDelete(s, e) ==
  LET base    == DerivedId(s, e.pk, Absent, e.before)
      index   == RenderedIndex(s, e.pk, Absent, e.before)
      routing == KeyRouting(s, e.before, e.pk)
      placed  == Placed(s, base, e.before)
  IN  CASE Halted(base) \/ Halted(index)                            -> Stop
        [] ~s.fan_out /\ Halted(routing)                            -> Stop
        [] s.fan_out /\ (~Has(e.before) \/ Unplaceable(placed))     -> Stop
        [] s.fan_out  -> SetToSeq({Delete(index, p.id, p.routing, e.v) : p \in placed})
        [] ~s.fan_out -> <<Delete(index, base, routing, e.v)>>
                           \o (IF s.join = "parent" THEN <<DeleteChildren(index, base, e.v)>> ELSE <<>>)

Materialize(s, e, previous) ==
  LET shaped == Completed(s, e, previous)
      row    == FilterOut(s, e, CompleteToast(s, e, previous))
  IN  CASE s.append_only /\ e.kind # "insert" -> Stop
        [] row.kind = "insert" -> MaterializeInsert(s, row)
        [] row.kind = "update" -> MaterializeUpdate(s, row, shaped)
        [] row.kind = "delete" -> MaterializeDelete(s, row)

----------------------------------------------------------------------------
(* build_row_change: what a decoded tuple carries.                         *)

Change(kind, pk, previous_pk, doc, unchanged, before, v) ==
  [kind |-> kind, pk |-> pk, previous_pk |-> previous_pk, doc |-> doc,
   unchanged |-> unchanged, before |-> before, v |-> v]

InsertChange(s, new, v) == Change("insert", IF s.append_only THEN Absent ELSE Pk(s, new), Absent, new, {}, Absent, v)

\* Under the default replica identity the old tuple comes only with a changed
\* key and holds the key alone, and an out-of-line column the statement did not
\* touch is left out; under FULL the old tuple is the whole row and fills it in.
UpdateChange(s, old, new, v) ==
  LET unchanged == {c \in {"big"} : ~s.full /\ new[c] = old[c] /\ new[c] # Null}
  IN  Change("update", Pk(s, new),
             IF s.full \/ Pk(s, old) # Pk(s, new) THEN Pk(s, old) ELSE Absent,
             [c \in DOMAIN new |-> IF c \in unchanged THEN Null ELSE new[c]],
             unchanged, IF s.full THEN old ELSE Absent, v)

DeleteChange(s, old, v) == Change("delete", Pk(s, old), Absent, Absent, {}, IF s.full THEN old ELSE Absent, v)

----------------------------------------------------------------------------
(* What a configuration has to satisfy before the pipeline starts.         *)

SearchEngines == {"opensearch", "elasticsearch"}

\* AppConfig::validate, section by section.  What only a search engine can hold
\* is refused for every other target.
JoinValid(s, flavor) ==
  s.join # "none" => flavor \in SearchEngines /\ (s.join = "element" <=> s.fan_out)

RoutingValid(s, flavor) == s.routing # {} => flavor \in SearchEngines /\ s.join = "none"

\* What addresses a row by its key is refused for a table without one.
AppendOnlyValid(s) == s.append_only => s.primary_key = "none" /\ ~s.fan_out /\ s.join = "none"

\* The array is read raw, before anything could cut or convert it.
FanOutValid(s) == s.fan_out => "arr" \notin s.index \cup s.exclude \cup DOMAIN s.transform

SectionValid(s, flavor) ==
  JoinValid(s, flavor) /\ RoutingValid(s, flavor) /\ AppendOnlyValid(s) /\ FanOutValid(s)

\* check_field_map, and the collisions of renames, constants and the join field.
FieldsValid(s) ==
  LET targets == {s.fields[c] : c \in DOMAIN s.fields}
  IN  /\ \A c \in DOMAIN s.fields : s.fields[c] # c /\ c \notin s.exclude
      /\ \A c, d \in DOMAIN s.fields : s.fields[c] = s.fields[d] => c = d
      /\ s.constants \cap targets = {}
      /\ s.join # "none" => "rel" \notin DOMAIN s.fields \cup targets \cup s.constants

\* check_index_group and check_shared_index, for sections writing one fixed index.
GroupValid(sections) ==
  LET joined == {s \in sections : s.join # "none"}
  IN  IF Cardinality(sections) = 1 THEN \A s \in sections : s.join \in {"none", "parent"}
      ELSE IF joined = {} THEN \A s \in sections : s.id # {}
      ELSE /\ joined = sections
           /\ Cardinality({s \in sections : s.join = "parent"}) = 1
           /\ \A s, t \in sections : s.name = t.name => s = t
           /\ \A s \in sections : s.join = "parent" => s.id \subseteq {s.primary_key}

InBothKeys(s, columns) == columns \subseteq s.key /\ columns \subseteq {s.primary_key}

\* Mutant: nobody asks what a fanned-out row's delete is expanded from.
IdentityServedForUpdates(s) ==
  \/ s.append_only
  \/ /\ s.full \/ (InBothKeys(s, s.id) /\ InBothKeys(s, s.index) /\ InBothKeys(s, s.routing))
     /\ s.join = "parent" => Cardinality(s.key) = 1
     /\ s.join = "child" => s.full \/ InBothKeys(s, {"c"})

\* check_derived_identity_requirements: what only REPLICA IDENTITY FULL supplies.
IdentityServed(s) ==
  \/ s.append_only
  \/ /\ s.full \/ (InBothKeys(s, s.id) /\ InBothKeys(s, s.index) /\ InBothKeys(s, s.routing))
     /\ s.fan_out => s.full
     /\ s.join = "parent" => Cardinality(s.key) = 1
     /\ s.join = "child" => s.full \/ InBothKeys(s, {"c"})

\* check_rejection_policy.
TargetServes(s, flavor) == s.index # {} => flavor \in SearchEngines

Accepted(sections, flavor) ==
  /\ GroupValid(sections)
  /\ \A s \in sections : SectionValid(s, flavor) /\ FieldsValid(s) /\ IdentityServed(s) /\ TargetServes(s, flavor)
=============================================================================
