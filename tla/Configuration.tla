--------------------------- MODULE Configuration ---------------------------
(***************************************************************************)
(* What a configuration is allowed to say, and what it then means.         *)
(*                                                                         *)
(* An operator writes the options of the [sync.*] sections of one file, or *)
(* of a directory of them, one at a time.  The files are then loaded       *)
(* (AppConfig::validate, check_index_overlap, validate_across), compared   *)
(* with the catalogue (`pg2osync validate`) and started (the PostgreSQL    *)
(* load refuses an embedded field that shadows a column).  What the engine *)
(* makes of an accepted section is the order in which `finish` projects,   *)
(* renames, flattens and adds fields; what the stream makes of an embedded *)
(* table is the one parent `child_parents` keeps for it.                   *)
(*                                                                         *)
(* Names are strings, an option that is not set is "" or an empty set, and *)
(* a value that is there is never empty.  The text of an index is the      *)
(* sequence of the literals between its placeholders.                      *)
(***************************************************************************)
EXTENDS Naturals, Sequences, FiniteSets, SequencesExt

CONSTANTS
    Live,           \* the columns of every table, as the catalogue has them
    Values,         \* the texts a placeholder of an index may render to
    Drafts,         \* what the operator starts from and may write
    SharedTables    \* whether two collections of a file may read one table

VARIABLES
    files,          \* the files, each with its sections in the order of their keys
    options,        \* what may still be written: one set of values for each option
    left,           \* how many more options the operator writes
    verdict         \* what became of the files

vars == <<files, options, left, verdict>>

---------------------------------------------------------------------------
(* The options.                                                            *)

Element == "{element}"

NoJoin == [field |-> "", name |-> "", parent |-> ""]

Section(key, table) ==
    [key |-> key, table |-> table, index |-> <<>>, index_by |-> {}, id |-> {}, mapping |-> FALSE,
     columns |-> {}, exclude |-> {}, fields |-> <<>>, transform |-> {}, constants |-> {},
     children |-> <<>>, aggregates |-> <<>>, join |-> NoJoin, fan_out |-> "",
     primary_key |-> "", append_only |-> FALSE, soft_delete |-> FALSE, pipeline |-> FALSE,
     routing |-> ""]

File(stem, slot, sync) ==
    [name |-> <<>>, stem |-> stem, flavor |-> "postgres", mode |-> "wal", slot |-> slot,
     target |-> "opensearch", require_alias |-> FALSE, metrics |-> "", sync |-> sync]

Join(field, name, parent) == [field |-> field, name |-> name, parent |-> parent]

Child(table, field) ==
    [table |-> table, field |-> field, foreign_key |-> "p", through |-> "", through_key |-> "",
     capped |-> FALSE, single |-> FALSE, flatten |-> FALSE, columns |-> {}, exclude |-> {},
     fields |-> <<>>]

Aggregate(table, field, key) == [table |-> table, field |-> field, foreign_key |-> key]

\* The primary key a section names, or the name every section falls back on.
KeyOf(s) == IF s.primary_key = "" THEN "id" ELSE s.primary_key

\* The two fields a capped array reports itself with, as one name.
Companion(field) == field \o "_total"

\* A name a projection lets through, under the name it is stored as.
Kept(r, c) == c \notin r.exclude /\ (r.columns = {} \/ c \in r.columns)

Stored(r, c) == IF c \in DOMAIN r.fields THEN r.fields[c] ELSE c

LiftedFields(child) == IF child.flatten THEN {Stored(child, c) : c \in child.columns} ELSE {}

ClaimedFieldsWithoutCompanion(child) == IF child.flatten THEN LiftedFields(child) ELSE {child.field}

\* Every name a child writes on the parent document.
ClaimedFields(child) ==
    CASE child.flatten -> LiftedFields(child)
      [] child.single -> {child.field}
      [] OTHER -> {child.field, Companion(child.field)}

Claimed(s) == UNION {ClaimedFields(s.children[i]) : i \in DOMAIN s.children}

---------------------------------------------------------------------------
(* Index names: a name is a pattern of one literal.                        *)

\* The index as written, the section's key where none is.
IndexName(s) == IF s.index = <<>> THEN <<<<s.key>>>> ELSE s.index

IsTemplated(s) == Len(IndexName(s)) > 1

\* The pattern as text, a star for every placeholder.
Text(p) == FoldLeft(LAMBDA text, literal : text \o <<"*">> \o literal, p[1], Tail(p))

\* What is left after the leftmost occurrence of a literal.
After(rest, literal) ==
    LET starts == {i \in 1..(Len(rest) + 1) : IsPrefix(literal, SubSeq(rest, i, Len(rest)))}
    IN  {SubSeq(rest, i + Len(literal), Len(rest)) :
           i \in {i \in starts : \A j \in starts : i <= j}}

IndexMatchesItself(p, text) == Text(p) = text

\* Whether a text is one of the indices the pattern claims.
IndexMatches(p, text) ==
    IF Len(p) = 1 THEN p[1] = text
    ELSE /\ IsPrefix(p[1], text)
         /\ \E rest \in FoldLeft(LAMBDA rests, literal : UNION {After(r, literal) : r \in rests},
                                 {SubSeq(text, Len(p[1]) + 1, Len(text))},
                                 SubSeq(p, 2, Len(p) - 1)) :
              IsSuffix(Last(p), rest)

\* Every name a row can render the pattern into.
Renders(p) ==
    FoldLeft(LAMBDA texts, literal : {t \o v \o literal : t \in texts, v \in Values}, {p[1]}, Tail(p))

---------------------------------------------------------------------------
(* AppConfig::validate, one section at a time.                             *)

\* join, routing and pipeline are a search engine's.
SearchEngine(f) == f.target \in {"opensearch", "elasticsearch"}

TargetRefused(f) ==
    \/ /\ f.target \in {"postgres", "qdrant"}
       /\ \E s \in ToSet(f.sync) :
             \A o \in ToSet(f.sync) : IndexName(o) = IndexName(s) => ~o.mapping
    \/ f.require_alias /\ ~SearchEngine(f)
    \/ f.flavor = "mysql" /\ f.mode = "poll"

\* A template needs a literal, and an index made on demand never has an alias.
IndexRefused(f, s) ==
    IsTemplated(s) /\ (f.require_alias \/ \A i \in DOMAIN s.index : s.index[i] = <<>>)

JoinRefusedButForMapping(f, s) == s.join # NoJoin /\ ~SearchEngine(f)

JoinRefused(f, s) ==
    /\ s.join # NoJoin
    /\ \/ (s.join.parent = Element) # (s.fan_out # "")
       \/ s.join.parent # "" /\ s.mapping
       \/ ~SearchEngine(f)
       \/ s.join.field \in s.columns \cup Claimed(s)

RoutingRefused(f, s) ==
    \/ s.pipeline /\ ~SearchEngine(f)
    \/ s.routing # "" /\ (s.join # NoJoin \/ ~SearchEngine(f))

\* append_only says there is no key, and these address something by one.
AppendOnlyRefused(s) ==
    /\ s.append_only
    /\ \/ s.primary_key # "" \/ s.fan_out # "" \/ s.join # NoJoin
       \/ s.children # <<>> \/ s.aggregates # <<>> \/ s.soft_delete

FanOutRefused(f, s) ==
    /\ s.fan_out # ""
    /\ \/ f.mode = "poll"
       \/ s.children # <<>> \/ s.aggregates # <<>>
       \/ s.fan_out \in s.index_by \cup s.columns \cup s.exclude \cup s.transform

\* check_field_map: no name is renamed to itself, and no two to one.
FieldMapRefused(fields) ==
    \E c, d \in DOMAIN fields : fields[c] = c \/ (c # d /\ fields[c] = fields[d])

\* A rename promises that its column reaches the target, and buries no other.
RenameRefused(r) ==
    \E c \in DOMAIN r.fields :
       \/ ~Kept(r, c)
       \/ r.fields[c] \in r.columns /\ r.fields[c] \notin DOMAIN r.fields

ProjectionRefused(r) ==
    \/ r.columns # {} /\ r.exclude # {}
    \/ FieldMapRefused(r.fields)
    \/ RenameRefused(r)

FieldsRefused(s) ==
    \/ ProjectionRefused(s)
    \/ \E c \in DOMAIN s.fields :
          {c, s.fields[c]} \cap (Claimed(s) \cup ({s.join.field} \ {""})) # {}

ChildRefused(s, child) ==
    \/ ProjectionRefused(child)
    \/ child.through # "" /\ (child.through_key = "" \/ child.through \in {child.table, s.table})
    \/ child.through = "" /\ child.through_key # ""
    \/ child.single /\ child.capped
    \/ child.flatten /\ (~child.single \/ child.columns = {})
    \/ \E name \in LiftedFields(child) : name \in s.columns /\ name \notin DOMAIN s.fields

\* One field holds one value: of one child, or of one aggregate.
WrittenTwice(s) ==
    \/ \E i, j \in DOMAIN s.children :
          i < j /\ ClaimedFields(s.children[i]) \cap ClaimedFields(s.children[j]) # {}
    \/ \E i, j \in DOMAIN s.aggregates : i < j /\ s.aggregates[i].field = s.aggregates[j].field

AggregateRefused(s, agg) ==
    \/ \E c \in DOMAIN s.fields : agg.field \in {c, s.fields[c]}
    \/ agg.field \in s.constants \cup Claimed(s) \cup {s.join.field}

ConstantRefused(s, name) ==
    \/ \E c \in DOMAIN s.fields : s.fields[c] = name
    \/ name \in s.columns /\ name \notin DOMAIN s.fields
    \/ name \in Claimed(s) \cup {s.fan_out, s.join.field}

SectionRefused(f, s) ==
    \/ IndexRefused(f, s)
    \/ JoinRefused(f, s)
    \/ RoutingRefused(f, s)
    \/ AppendOnlyRefused(s)
    \/ FanOutRefused(f, s)
    \/ FieldsRefused(s)
    \/ \E child \in ToSet(s.children) : ChildRefused(s, child)
    \/ WrittenTwice(s)
    \/ \E agg \in ToSet(s.aggregates) : AggregateRefused(s, agg)
    \/ \E name \in s.constants : ConstantRefused(s, name)
    \/ s.primary_key # "" /\ s.primary_key \in s.exclude
    \/ s.soft_delete /\ f.mode # "poll"

\* The junctions of a file, each with the relation it is used for.
RelationsOf(f) ==
    UNION {{<<child.through, s.table, child.foreign_key>> : child \in ToSet(s.children)} :
             s \in ToSet(f.sync)}

NoJunctionRefused(f) == FALSE

\* One junction table belongs to one relation.
JunctionsRefused(f) ==
    \E r, o \in RelationsOf(f) : r[1] # "" /\ r[1] = o[1] /\ r # o

---------------------------------------------------------------------------
(* The questions asked of a group of sections, in one file or across them. *)

\* Every section of the files, labelled with its place.
Labels(fs) == UNION {{<<i, j>> : j \in DOMAIN fs[i].sync} : i \in DOMAIN fs}

At(fs, l) == fs[l[1]].sync[l[2]]

\* A template cannot be shared, and nothing else may sit in what it claims.
TemplateRefused(fs, labels) ==
    \E l, o \in labels :
       /\ l # o
       /\ IsTemplated(At(fs, l))
       /\ IndexMatches(IndexName(At(fs, l)), Text(IndexName(At(fs, o))))

\* Sections that share an index without a join each declare their id.
PlainSharedRefused(group) ==
    \/ \E l \in DOMAIN group : group[l].id = {}
    \/ \E l, o \in DOMAIN group : l # o /\ group[l].mapping /\ group[o].mapping

\* A join family: one field, one parent, a name for each, an id of the key.
FamilyRefused(group) ==
    LET parents == {l \in DOMAIN group : group[l].join.parent = ""}
    IN  \/ Cardinality(parents) # 1
        \/ \E l \in parents : ~(group[l].id \subseteq {KeyOf(group[l])})
        \/ \E l, o \in DOMAIN group :
              \/ group[l].join.field # group[o].join.field
              \/ l # o /\ group[l].join.name = group[o].join.name

\* Whether the sections that write one index may share it.
GroupRefused(group) ==
    LET joined == {l \in DOMAIN group : group[l].join # NoJoin}
        alone == Cardinality(DOMAIN group) = 1
    IN  CASE alone -> \E l \in joined : group[l].join.parent # ""
          [] joined = {} -> PlainSharedRefused(group)
          [] OTHER -> joined # DOMAIN group \/ FamilyRefused(group)

\* The sections at some labels that write one index.
Group(fs, labels, index) ==
    [l \in {l \in labels : IndexName(At(fs, l)) = index} |-> At(fs, l)]

OverlapRefused(fs, labels) ==
    \/ TemplateRefused(fs, labels)
    \/ \E l \in labels : GroupRefused(Group(fs, labels, IndexName(At(fs, l))))

FileRefused(fs, i) ==
    \/ TargetRefused(fs[i])
    \/ \E s \in ToSet(fs[i].sync) : SectionRefused(fs[i], s)
    \/ JunctionsRefused(fs[i])
    \/ OverlapRefused(fs, {l \in Labels(fs) : l[1] = i})

\* The stem of a file, in the characters a name may have.
NameFromStem(stem) ==
    LET fit(name, c) ==
            CASE c # "." -> Append(name, c)
              [] name # <<>> /\ Last(name) = "-" -> name
              [] OTHER -> Append(name, "-")
        name == FoldLeft(fit, <<>>, stem)
        inner == {i \in DOMAIN name : name[i] # "-"}
    IN  IF inner = {} THEN <<"pg2osync">>
        ELSE SubSeq(name, CHOOSE i \in inner : \A j \in inner : i <= j,
                          CHOOSE i \in inner : \A j \in inner : i >= j)

SourceName(f) == IF f.name = <<>> THEN NameFromStem(f.stem) ELSE f.name

\* What two files must not disagree about, and what they must not share.
AcrossRefused(fs) ==
    \/ \E i, j \in DOMAIN fs :
          /\ i # j
          /\ \/ SourceName(fs[i]) = SourceName(fs[j])
             \/ fs[i].flavor = fs[j].flavor /\ fs[i].slot = fs[j].slot
             \/ "" \notin {fs[i].metrics, fs[j].metrics} /\ fs[i].metrics # fs[j].metrics
    \/ OverlapRefused(fs, Labels(fs))

---------------------------------------------------------------------------
(* `pg2osync validate` and the load: the same, against the catalogue.      *)

\* A column that still reaches the document under its own name.
Survives(r, c) == c \notin DOMAIN r.fields /\ Kept(r, c)

\* An option names a column that is gone.
ColumnsMissing(s) ==
    \/ ~((s.columns \cup s.id \cup s.index_by) \subseteq Live[s.table])
    \/ \E c \in {s.primary_key, s.fan_out, s.routing, s.join.parent} \ {"", Element} :
          c \notin Live[s.table]

\* A name the section writes is a column that still reaches the document.
ColumnsBuried(s) ==
    \E c \in Live[s.table] :
       /\ Survives(s, c)
       /\ \/ \E d \in DOMAIN s.fields : s.fields[d] = c
          \/ c \in s.constants \cup {s.join.field}
          \/ \E child \in ToSet(s.children) : c \in LiftedFields(child)

ThroughRefused(child) ==
    child.through # "" /\ ~({child.foreign_key, child.through_key} \subseteq Live[child.through])

ChildColumnsRefused(child) ==
    \/ ThroughRefused(child)
    \/ ~(child.columns \subseteq Live[child.table])
    \/ \E c \in Live[child.table] :
          Survives(child, c) /\ \E d \in DOMAIN child.fields : child.fields[d] = c

ValidateRefused(f) ==
    \E s \in ToSet(f.sync) :
       \/ ColumnsMissing(s) \/ ColumnsBuried(s)
       \/ \E child \in ToSet(s.children) : ChildColumnsRefused(child)
       \/ \E agg \in ToSet(s.aggregates) : agg.foreign_key \notin Live[agg.table]

\* The load refuses an embedded field that is a column, or embedded already.
LoadRefused(s) ==
    LET embedded(i) == Live[s.table] \cup {s.children[j].field : j \in 1..(i - 1)}
        counted(i) == embedded(Len(s.children) + 1) \cup {s.aggregates[j].field : j \in 1..(i - 1)}
        named(child) == {child.field} \cup (IF child.capped THEN {Companion(child.field)} ELSE {})
    IN  \/ \E i \in DOMAIN s.children : named(s.children[i]) \cap embedded(i) # {}
        \/ \E i \in DOMAIN s.aggregates : s.aggregates[i].field \in counted(i)

---------------------------------------------------------------------------
(* The document an accepted section writes: a writer for every name.       *)

Pairs(doc) == {<<n, doc[n]>> : n \in DOMAIN doc}

\* The columns, then the collections and the counts read for the row.
Collected(s) ==
    LET embed(doc, child) ==
            (child.field :> <<"child", child.field>>) @@
            (IF child.capped THEN Companion(child.field) :> <<"total", child.field>> ELSE <<>>) @@ doc
        count(doc, agg) == (agg.field :> <<"aggregate", agg.field>>) @@ doc
    IN  FoldLeft(count, FoldLeft(embed, [c \in Live[s.table] |-> <<"column", c>>], s.children),
                 s.aggregates)

Projected(s, doc) == [c \in {c \in DOMAIN doc : Kept(s, c)} |-> doc[c]]

\* Every renamed key leaves before any lands, and the renamed value wins.
Renamed(fields, doc) ==
    LET moved == DOMAIN fields \cap DOMAIN doc
        stay == DOMAIN doc \ moved
    IN  [n \in {fields[c] : c \in moved} |-> doc[CHOOSE c \in moved : fields[c] = n]] @@
        [n \in stay |-> doc[n]]

\* The element a child embeds.
ElementOf(child) ==
    Renamed(child.fields, [c \in {c \in Live[child.table] : Kept(child, c)} |->
                             <<"embedded", child.field, c>>])

\* A flattened child leaves its name, and its element lands on the parent.
Flattened(s, doc) ==
    LET lift(d, child) ==
            LET rest == [n \in DOMAIN d \ {child.field} |-> d[n]]
                isElement == <<child.field, <<"child", child.field>>>> \in Pairs(d)
            IN  CASE ~child.flatten -> d
                  [] child.flatten /\ isElement -> ElementOf(child) @@ rest
                  [] OTHER -> rest
    IN  FoldLeft(lift, doc, s.children)

\* The constants, and the join field after them.
Finished(s, doc) ==
    (IF s.join = NoJoin THEN <<>> ELSE s.join.field :> <<"join">>) @@
    [n \in s.constants |-> <<"constant", n>>] @@ doc

Document(s) == Finished(s, Flattened(s, Renamed(s.fields, Projected(s, Collected(s)))))

\* The mapping an index of the file is created with: of the first section that set one.
MappingOf(f, index) ==
    SelectSeq(f.sync, LAMBDA s : IndexName(s) = index /\ s.mapping)

---------------------------------------------------------------------------
(* The streamed row of an embedded table, and the parent it names.         *)

Watched(s) ==
    (UNION {{child.table, child.through} : child \in ToSet(s.children)}
     \cup {agg.table : agg \in ToSet(s.aggregates)}) \ {""}

\* Each section overwrites what an earlier one filed a table under.
ChildParent(f, t) == SelectLastInSubSeq(f.sync, 1, Len(f.sync), LAMBDA s : t \in Watched(s))

\* The parent a row of the table is resolved to, and what it is found by.
Classified(f, t) ==
    LET parent == f.sync[ChildParent(f, t)]
        reads == SelectSeq(parent.children, LAMBDA child : t \in {child.table, child.through})
        counts == SelectSeq(parent.aggregates, LAMBDA agg : t = agg.table)
    IN  CASE reads = <<>> -> <<parent.table, "key", counts[1].foreign_key>>
          [] reads # <<>> /\ reads[1].through # "" /\ t = reads[1].table ->
                <<parent.table, "junction", reads[1].through>>
          [] OTHER -> <<parent.table, "key", reads[1].foreign_key>>

---------------------------------------------------------------------------
(* The operator, the loader, `validate` and the start.                     *)

Init ==
    \E d \in Drafts : files = d.files /\ options = d.options /\ left = d.left /\ verdict = "none"

\* A section is given one more option.
Writes(l, section) ==
    /\ verdict = "none" /\ left > 0
    /\ files' = [files EXCEPT ![l[1]].sync[l[2]] = section]
    /\ left' = left - 1
    /\ UNCHANGED <<options, verdict>>

WritesColumns == \E l \in Labels(files), cols \in options.columns :
    At(files, l).columns = {} /\ Writes(l, [At(files, l) EXCEPT !.columns = cols])

WritesExclude == \E l \in Labels(files), c \in options.exclude :
    Writes(l, [At(files, l) EXCEPT !.exclude = @ \cup {c}])

WritesField == \E l \in Labels(files), r \in options.fields :
    Writes(l, [At(files, l) EXCEPT !.fields = r @@ @])

WritesConstant == \E l \in Labels(files), n \in options.constants :
    Writes(l, [At(files, l) EXCEPT !.constants = @ \cup {n}])

\* The first collection of the file to read a table.
ReadsOwn(f, t) == SharedTables \/ \A s \in ToSet(f.sync) : t \notin Watched(s)

WritesChild == \E l \in Labels(files), child \in options.children :
    ReadsOwn(files[l[1]], child.table) /\ Writes(l, [At(files, l) EXCEPT !.children = Append(@, child)])

WritesAggregate == \E l \in Labels(files), agg \in options.aggregates :
    ReadsOwn(files[l[1]], agg.table) /\ Writes(l, [At(files, l) EXCEPT !.aggregates = Append(@, agg)])

WritesJoin == \E l \in Labels(files), join \in options.joins :
    At(files, l).join = NoJoin /\ Writes(l, [At(files, l) EXCEPT !.join = join])

WritesIndex == \E l \in Labels(files), ix \in options.indexes :
    /\ At(files, l).index = <<>>
    /\ Writes(l, [At(files, l) EXCEPT !.index = ix.pattern, !.index_by = ix.by])

WritesId == \E l \in Labels(files), id \in options.ids :
    At(files, l).id = {} /\ Writes(l, [At(files, l) EXCEPT !.id = id])

\* The other options of a section.
WritesOther == \E l \in Labels(files), o \in options.others :
    At(files, l) # o @@ At(files, l) /\ Writes(l, o @@ At(files, l))

\* An option of the file itself: its target, its mode, its name or its slot.
WritesFile == \E i \in DOMAIN files, o \in options.files :
    /\ verdict = "none" /\ left > 0
    /\ files' = [files EXCEPT ![i] = o @@ files[i]]
    /\ left' = left - 1
    /\ UNCHANGED <<options, verdict>>

Judge(from, refused, to) ==
    /\ verdict = from
    /\ verdict' = IF refused THEN "refused" ELSE to
    /\ UNCHANGED <<files, options, left>>

Loads ==
    Judge("none", (\E i \in DOMAIN files : FileRefused(files, i)) \/ AcrossRefused(files), "loaded")

Validates == Judge("loaded", \E i \in DOMAIN files : ValidateRefused(files[i]), "validated")

Starts == Judge("validated", \E l \in Labels(files) : LoadRefused(At(files, l)), "running")

Next ==
    \/ WritesColumns \/ WritesExclude \/ WritesField \/ WritesConstant
    \/ WritesChild \/ WritesAggregate \/ WritesJoin \/ WritesIndex \/ WritesId
    \/ WritesOther \/ WritesFile
    \/ Loads \/ Validates \/ Starts

Spec == Init /\ [][Next]_vars

---------------------------------------------------------------------------
(* Properties.                                                             *)

\* What a section says its document holds, a pair for every writer.
Declared(s) ==
    {<<Stored(s, c), <<"column", c>>>> : c \in {c \in Live[s.table] : Kept(s, c)}}
    \cup UNION {
        IF child.flatten THEN {<<Stored(child, c), <<"embedded", child.field, c>>>> : c \in child.columns}
        ELSE {<<child.field, <<"child", child.field>>>>}
             \cup (IF child.capped THEN {<<Companion(child.field), <<"total", child.field>>>>} ELSE {}) :
          child \in ToSet(s.children)}
    \cup {<<agg.field, <<"aggregate", agg.field>>>> : agg \in ToSet(s.aggregates)}
    \cup {<<n, <<"constant", n>>>> : n \in s.constants}
    \cup (IF s.join = NoJoin THEN {} ELSE {<<s.join.field, <<"join">>>>})

\* Two combinations that are accepted and lose a field: a `columns` list drops
\* what is embedded, and the name of a flattened child is not free for a
\* rename or for another child.
LosesEmbedded(s) ==
    \/ s.columns # {} /\ (s.children # <<>> \/ s.aggregates # <<>>)
    \/ \E i \in DOMAIN s.children :
          /\ s.children[i].flatten
          /\ \/ \E c \in DOMAIN s.fields : s.fields[c] = s.children[i].field
             \/ \E j \in DOMAIN s.children \ {i} : s.children[i].field \in ClaimedFields(s.children[j])

\* Whatever was accepted by the load, by `validate` and at the start, the
\* document carries exactly what the section names: no writer is buried under
\* another, and none is dropped (config.rs validate, main.rs
\* check_configured_columns, backfill.rs run, engine finish).
AsDeclared ==
    verdict = "running" =>
      \A l \in Labels(files) :
         LET s == At(files, l)
         IN  /\ LosesEmbedded(s) \/ Pairs(Document(s)) = Declared(s)
             /\ \A child \in ToSet(s.children) :
                  Pairs(ElementOf(child)) =
                    {<<Stored(child, c), <<"embedded", child.field, c>>>> :
                       c \in {c \in Live[child.table] : Kept(child, c)}}

\* A TRUNCATE clears the indices its section's pattern claims, and none of
\* them is one that a row of another section, of any file, can be written to;
\* two sections that write one index have both declared what tells their
\* documents apart (config.rs check_index_overlap, workspace.rs validate_across).
IndexesAreOwn ==
    verdict \notin {"none", "refused"} =>
      \A l, o \in Labels(files) :
         LET s == At(files, l)
             t == At(files, o)
         IN  l # o =>
               IF IsTemplated(s)
               THEN \A name \in Renders(IndexName(t)) : ~IndexMatches(IndexName(s), name)
               ELSE \/ IndexName(s)[1] \notin Renders(IndexName(t))
                    \/ s.join = NoJoin /\ t.join = NoJoin /\ {} \notin {s.id, t.id}
                    \/ s.join.field = t.join.field /\ s.join.name # t.join.name

\* An index is created with the mapping of whichever section set one, so no
\* section's mapping_file is passed over (run.rs index_specs).
MappingIsUsed ==
    verdict \notin {"none", "refused"} =>
      \A l \in Labels(files) :
         At(files, l).mapping =>
           MappingOf(files[l[1]], IndexName(At(files, l)))[1] = At(files, l)

\* A streamed row of a child, of a junction or of a counted table leads to the
\* parent that embeds it, by the key that section configured for it
\* (run.rs wal_config, runner.rs classify).
EmbeddedIsRefetched ==
    verdict = "running" =>
      \A l \in Labels(files) :
         LET f == files[l[1]]
             s == At(files, l)
         IN  /\ \A child \in ToSet(s.children) :
                  IF child.through = ""
                  THEN Classified(f, child.table) = <<s.table, "key", child.foreign_key>>
                  ELSE /\ Classified(f, child.through) = <<s.table, "key", child.foreign_key>>
                       /\ Classified(f, child.table) = <<s.table, "junction", child.through>>
             /\ \A agg \in ToSet(s.aggregates) :
                  Classified(f, agg.table) = <<s.table, "key", agg.foreign_key>>
=============================================================================
