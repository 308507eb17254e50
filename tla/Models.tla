------------------------------- MODULE Models -------------------------------
(***************************************************************************)
(* A database that grows by migrations, and at every point of its life the  *)
(* models keelson-gen would generate for it: resolve.rs and emit/ over the  *)
(* schema introspection reads, and the values the generated fields carry.   *)
(*                                                                          *)
(* The migrations are the application's; which orders the engines list     *)
(* foreign keys in is theirs, so a new key comes first or last.             *)
(***************************************************************************)
EXTENDS GeneratedModels, Values

CONSTANTS
    Shapes,       \* the tables and views a migration may create, by dialect
    References,   \* the foreign keys one may add: [table, key]
    MaxKeys,      \* bound: foreign keys in the whole schema
    Configs       \* the configurations the generator may be run with

Dialects == {"psql", "mysql", "sqlite"}
\* Bound of the order of names (MaxWords), and every word with a rank.
IsName(n) == n \in Seq(DOMAIN Rank) /\ Len(n) \in 1..MaxWords

\* A relation has a column, no two of one name, and a key column is NOT NULL
\* (pg_attribute, COLUMN_KEY; the SQLite introspector sees to it itself).
ASSUME ShapesAssumption ==
    /\ DOMAIN Shapes = Dialects
    /\ \A d \in Dialects : \A s \in Shapes[d] :
         /\ DOMAIN s = {"name", "kind", "columns", "primary_key", "foreign_keys", "unique_keys"}
         /\ s.columns \in Seq(Range(s.columns)) /\ s.columns # <<>>
         /\ s.primary_key \in Seq(Range(s.primary_key))
         /\ \A i, j \in DOMAIN s.columns : s.columns[i].name = s.columns[j].name => i = j
         /\ \A c \in Range(s.columns) : c.name \in Range(s.primary_key) => ~c.nullable
         /\ s.foreign_keys = <<>>
ASSUME ReferencesAssumption ==
    \A r \in References :
      /\ r.key.columns \in Seq(Range(r.key.columns))
      /\ \A n \in Range(r.key.columns) : IsName(n)
\* The types a configuration names are among those Values tells apart.
ASSUME ConfigsAssumption ==
    \A c \in Configs :
      /\ c.dialect \in Dialects
      /\ c.relationships \in Seq(Range(c.relationships))
      /\ Range(c.types.map) \subseteq RustTypes
      /\ c.types.overrides \in Seq(Range(c.types.overrides))
      /\ \A o \in Range(c.types.overrides) : o.rust_type \in RustTypes

VARIABLES
    schema,       \* what introspection reads
    config,
    output        \* the models generated from it, or the refusals
vars == <<schema, config, output>>

Init ==
    /\ schema = <<>> /\ config \in Configs
    /\ output = ResolveAll(schema, config)

Follows(name) == {i \in DOMAIN schema : NameBefore(name, schema[i].name)}

\* introspect: tables ordered by name, columns in catalog order.
CreateTable(shape) ==
    /\ shape.name \notin TableNames(schema)
    /\ schema' = InsertAt(schema, Len(schema) + 1 - Cardinality(Follows(shape.name)), shape)

Keys == FlattenSeq([i \in DOMAIN schema |-> schema[i].foreign_keys])

Has(table, columns) ==
    table \in TableNames(schema) /\ Range(columns) \subseteq ColumnNames(Find(schema, table))

AddForeignKey(name, key) ==
    /\ Len(Keys) < MaxKeys
    /\ Has(name, key.columns) /\ Has(key.ref_table, key.ref_columns)
    /\ \A t \in {name, key.ref_table} : ~IsView(Find(schema, t).kind)
    /\ \A fk \in Range(Find(schema, name).foreign_keys) : fk.columns # key.columns
    /\ \E listed \in {<<key>> \o Find(schema, name).foreign_keys,
                      Find(schema, name).foreign_keys \o <<key>>} :
          schema' = [i \in DOMAIN schema |->
                        IF schema[i].name = name
                        THEN [schema[i] EXCEPT !.foreign_keys = listed] ELSE schema[i]]

Migrate ==
    \/ \E shape \in Shapes[config.dialect] : CreateTable(shape)
    \/ \E r \in References : AddForeignKey(r.table, r.key)

\* generate, after every migration.
Next ==
    /\ Migrate
    /\ output' = ResolveAll(schema', config)
    /\ UNCHANGED config

Spec == Init /\ [][Next]_vars

-----------------------------------------------------------------------------
Generates == output.refusals = {}
Generated == output.models
FileOf(t) == ModelFile(Generated[t], Generated, config.dialect)

\* Every table of the catalog has at least a column and no two share a name.
TypeOK ==
    /\ \A t \in Tables(schema) : t.columns # <<>> /\ Once(t.columns)
    /\ \A i, j \in DOMAIN schema : schema[i].name = schema[j].name => i = j
    /\ Generates => DOMAIN Generated \subseteq TableNames(schema)

\* Two back-references from one child are told apart by the relations they
\* answer, whichever came first: neither keeps the child's plain name
\* (add_relation's retroactive renaming).
NeitherIsPlain ==
    Generates => \A t \in DOMAIN Generated :
      \A g, h \in Range(Generated[t].has_many) :
         g # h /\ g.child = h.child /\ Aliases(config, t).relationships = <<>>
         => \E b \in Range(Generated[h.child].belongs_to) :
               /\ b.fk_column = h.child_fk
               /\ h.name = Via(Either(Aliases(config, h.child).plural, h.child), b.name)

Answering(hs, child, b)   == {i \in DOMAIN hs : /\ hs[i].child = child
                                                /\ hs[i].child_fk = b.fk_column
                                                /\ hs[i].parent_key = b.ref_column}
Answered(bs, b)           == {i \in DOMAIN bs : /\ bs[i].target = b.target
                                                /\ bs[i].fk_column = b.fk_column
                                                /\ bs[i].ref_column = b.ref_column}
BackReferencing == /\ ~config.no_back_referencing
                   /\ \A r \in Range(config.relationships) : ~r.no_back_reference

\* The two sides of a relation agree: a back-reference stands for a belongs-to
\* of its child over the same two columns, and unless back-references are off
\* every belongs-to is answered by one of its own (add_relation).
RelationsMirror ==
  /\ TypeOK /\ NeitherIsPlain
  /\ Generates => \A t \in DOMAIN Generated :
      /\ \A h \in Range(Generated[t].has_many) :
            \E b \in Range(Generated[h.child].belongs_to) :
               b.fk_column = h.child_fk /\ b.target = t /\ b.ref_column = h.parent_key
      /\ BackReferencing => \A b \in Range(Generated[t].belongs_to) :
            Cardinality(Answering(Generated[b.target].has_many, t, b))
            = Cardinality(Answered(Generated[t].belongs_to, b))

\* Nothing a generated module names was filtered out of the tree: the row a
\* relation holds, the columns its join and its keyed load compare.
NothingNamedIsMissing ==
    Generates => \A t \in DOMAIN Generated :
      /\ \A b \in Range(Generated[t].belongs_to) :
            /\ b.fk_column \in ModelColumns(Generated[t])
            /\ b.target \in DOMAIN Generated
            /\ b.ref_column \in ModelColumns(Generated[b.target])
      /\ \A h \in Range(Generated[t].has_many) :
            /\ h.parent_key \in ModelColumns(Generated[t])
            /\ h.child \in DOMAIN Generated
            /\ h.child_fk \in ModelColumns(Generated[h.child])

\* Same schema and configuration, same files: the order an engine lists its
\* foreign keys in leaves no trace (the determinism contract of introspect).
CatalogOrderForgotten ==
    LET reversed == [i \in DOMAIN schema |->
                        [schema[i] EXCEPT !.foreign_keys = Reverse(@)]]
    IN  ResolveAll(reversed, config) = output

\* What a model writes through is what identifies a row: the whole primary
\* key, or the columns declared for a table or view the catalog gives none,
\* and a declared key column is never NULL in the row (resolve_table).
KeyIdentifiesRows ==
    Generates => \A t \in {k \in DOMAIN Generated : Generated[k].writable} :
      LET table == Find(schema, t)
      IN  /\ Generated[t].pk # <<>>
          /\ table.primary_key # <<>> => Generated[t].pk = table.primary_key
          /\ table.primary_key = <<>> => Generated[t].pk = Options(config, t).key
          /\ \A n \in Range(Generated[t].pk) :
                n \in ModelColumns(Generated[t]) /\ ~ModelColumn(Generated[t], n).nullable

\* No generated module declares an item twice: no two types, functions or
\* fields of one name, aliases and relation names included (check_field_names,
\* check_rel_names, and the marker and the row telling themselves apart).
NoItemTwice ==
    Generates => \A t \in DOMAIN Generated :
      LET file == FileOf(t)
          fields(s) == [i \in DOMAIN s |-> s[i].field]
      IN  Once(file.types) /\ Once(file.functions) /\ Once(fields(file.row))
          /\ Once(fields(file.rel)) /\ Once([i \in DOMAIN file.then_load |-> file.then_load[i].name])

\* A declared relationship generates only what compares: both ends of its
\* keyed load have the one key type (check_declared).
DeclaredKeysCompare ==
    Generates => \A r \in Range(config.relationships) :
      LET loads == IF r.table \in DOMAIN Generated THEN FileOf(r.table).then_load ELSE <<>>
      IN  \A i \in DOMAIN loads :
             loads[i].loads = r.ref_table /\ loads[i].by = r.ref_column
             => loads[i].key = loads[i].child_key

\* What the generator writes builds (the contract resolve.rs:364 states).
ItBuilds == NoItemTwice /\ DeclaredKeysCompare

\* A value written through a generated setter and read back through the
\* generated row is itself or an error, never another value, whatever the
\* driver widens, the engine converts by affinity or into text and FromValue
\* narrows; but for the fields an override gave a type the column narrows
\* (Narrows), which the engine, not keelson, changes.
ReadsBackOrRefuses ==
    Generates => \A t \in DOMAIN Generated :
      \A c \in Range(Generated[t].columns) : \A v \in CellValues(c) :
         ~Narrows(config.dialect, c) => ReadBack(config.dialect, c, v) \in {v, Refused}

\* "reading a column bound through keelson always round-trips"
\* (docs/type-mappings.md:205): once stored, a value of the type the generator
\* picked for the column is read back.
RoundTrips ==
    Generates => \A t \in DOMAIN Generated :
      \A c \in Range(Generated[t].columns) : \A v \in CellValues(c) :
         ~c.overridden /\ Stored(config.dialect, c, v) # Refused
         => ReadBack(config.dialect, c, v) = v

============================================================================
