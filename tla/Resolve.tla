------------------------------ MODULE Resolve ------------------------------
(***************************************************************************)
(* From an introspected schema and a configuration to the models the        *)
(* generator emits (resolve.rs, and of config.rs and schema.rs what it      *)
(* asks them).  A schema is a sequence of tables; the models are a function *)
(* from the tables kept to their models; what the code answers with an      *)
(* error is a refusal, the reasons of all the errors it could give.         *)
(***************************************************************************)
EXTENDS Names, ColumnTypes, TLC

\* Where the alphabet puts each word of a name.
CONSTANT Rank
ASSUME RankAssumption ==
    /\ Rank \in [DOMAIN Rank -> Nat]
    /\ \A v, w \in DOMAIN Rank : Rank[v] = Rank[w] => v = w

Tables(schema)      == Range(schema)
Find(schema, name)  == CHOOSE t \in Tables(schema) : t.name = name
TableNames(schema)  == {t.name : t \in Tables(schema)}
ColumnNames(table)  == {c.name : c \in Range(table.columns)}
ColumnOf(table, n)  == CHOOSE c \in Range(table.columns) : c.name = n
IsView(kind)        == kind # "table"
IsUpdatable(kind)   == kind \in {"table", "updatable_view"}
Once(s)             == Cardinality(Range(s)) = Len(s)
Where(reason, when) == IF when THEN {reason} ELSE {}

-----------------------------------------------------------------------------
\* Filters and sorts, by index.  (SelectSeq and SortSeq say the same of an
\* operator; these can be reasoned about.)

Subsequence(s, I) ==
    LET taken[n \in 0..Len(s)] ==
            IF n = 0 THEN <<>>
            ELSE IF n \in I THEN Append(taken[n - 1], s[n]) ELSE taken[n - 1]
    IN  taken[Len(s)]

\* Stable: of two elements neither of which is less, the earlier stays first.
Sorted(s, less) ==
    LET D        == DOMAIN s
        place(i) == 1 + Cardinality({j \in D : \/ <<j, i>> \in less
                                              \/ (<<i, j>> \notin less /\ j < i)})
        placed[n \in 0..Len(s)] ==
            IF n = 0 THEN <<>> ELSE Append(placed[n - 1], s[CHOOSE i \in D : place(i) = n])
    IN  placed[Len(s)]

\* Bound: the words of a name an order looks at.
MaxWords   == 6
At(name, i) == IF i \in DOMAIN name THEN Lookup(Rank, name[i], 0) ELSE -1

\* The order of strings, an underscore coming before every letter.
NameBefore(a, b) ==
    \E i \in 1..MaxWords :
        At(a, i) < At(b, i) /\ \A j \in 1..(i - 1) : At(a, j) = At(b, j)

-----------------------------------------------------------------------------
\* The configuration.

NoOptions == [only_columns |-> {}, except_columns |-> {}, hooks |-> {}, key |-> <<>>]
NoAliases == [singular |-> Unnamed, plural |-> Unnamed, columns |-> <<>>, relationships |-> <<>>]
Options(config, table) == Lookup(config.tables, table, NoOptions)
Aliases(config, table) == Lookup(config.aliases, table, NoAliases)
Either(alias, default) == IF alias = Unnamed THEN default ELSE alias

IncludesTable(config, table) ==
    table \notin config.except /\ (config.only = {} \/ table \in config.only)

IncludesColumn(config, table, column) ==
    LET options == Options(config, table)
    IN  /\ column \notin options.except_columns
        /\ options.only_columns = {} \/ column \in options.only_columns

-----------------------------------------------------------------------------
\* One table.

\* Unique on its own: a single-column unique key or primary key.
UniqueAlone(table) ==
    {key[1] : key \in {k \in Range(table.unique_keys) \cup {table.primary_key} : Len(k) = 1}}

ResolveColumn(config, table, column) ==
    LET type == RustType(config.dialect, config.types, table.name, column)
    IN  [db_name |-> column.name,
         field |-> Lookup(Aliases(config, table.name).columns, column.name, column.name),
         rust_type |-> type.rust, overridden |-> type.overridden,
         nullable |-> column.nullable, db_type |-> column.db_type,
         default |-> column.default, autoincrement |-> column.autoincrement,
         unique |-> column.name \in UniqueAlone(table)]

KeptColumns(config, table) ==
    Subsequence(table.columns,
        {i \in DOMAIN table.columns : IncludesColumn(config, table.name, table.columns[i].name)})

Fields(config, table) ==
    LET columns == KeptColumns(config, table)
    IN  [i \in DOMAIN columns |-> ResolveColumn(config, table, columns[i])]

Kept(config, table) == {c.name : c \in Range(KeptColumns(config, table))}

\* Mutant: a key that lost a column to the filters is keyed by what is left.
CatalogKeyPartly(config, table) ==
    table.kind = "table" /\ Range(table.primary_key) \cap Kept(config, table) # {}

\* The catalog's key counts only when every column of it survived the filters.
CatalogKey(config, table) ==
    table.kind = "table" /\ table.primary_key # <<>> /\ Range(table.primary_key) \subseteq Kept(config, table)

DeclaredKey(config, table) == Options(config, table.name).key

Writable(config, table) == CatalogKey(config, table) \/ DeclaredKey(config, table) # <<>>

ModelKey(config, table) ==
    IF CatalogKey(config, table)
    THEN Subsequence(table.primary_key,
             {i \in DOMAIN table.primary_key : table.primary_key[i] \in Kept(config, table)})
    ELSE DeclaredKey(config, table)

\* Declaring a key asserts that its columns are never NULL.
Asserted(config, table) ==
    IF CatalogKey(config, table) THEN {} ELSE Range(DeclaredKey(config, table))

Marker(table)      == Pascal(table.name)
RowName(config, t) ==
    Pascal(Either(Aliases(config, t.name).singular, Singular(t.name, config.inflections)))

ResolveTable(config, table) ==
    LET fields   == Fields(config, table)
        asserted == Asserted(config, table)
    IN  [table |-> table.name, marker |-> Marker(table), row |-> RowName(config, table),
         kind |-> table.kind, writable |-> Writable(config, table),
         columns |-> [i \in DOMAIN fields |->
                        [fields[i] EXCEPT !.nullable =
                            @ /\ fields[i].db_name \notin asserted]],
         pk |-> ModelKey(config, table),
         belongs_to |-> <<>>, has_many |-> <<>>, hooks |-> Options(config, table.name).hooks]

\* check_declared_key: a declared key answers what the catalog does not.
KeyRefusals(config, table) ==
    IF DeclaredKey(config, table) = <<>> THEN {} ELSE
      Where("already has a primary key", table.primary_key # <<>>)
      \cup Where("the engine does not write through it", ~IsUpdatable(table.kind))
      \cup Where("key lists a column twice", ~Once(DeclaredKey(config, table)))
      \cup Where("key names no generated column",
                 ~(Range(DeclaredKey(config, table)) \subseteq Kept(config, table)))

\* Mutant: aliases are not looked at once they are applied.
FieldRefusalsUnaliased(fields) ==
    Where("field rel", <<<<"rel", "">>>> \in Range([i \in DOMAIN fields |-> fields[i].field]))

\* check_field_names.
FieldRefusals(fields) ==
    LET names == [i \in DOMAIN fields |-> fields[i].field]
    IN  Where("field rel", <<<<"rel", "">>>> \in Range(names))
        \cup Where("field of an entry point",
                   Range(names) \cap {<<<<"table", "">>>>, <<<<"view", "">>>>,
                                      <<<<"all", "">>, <<"columns", "">>>>} # {})
        \cup Where("two fields of one name", ~Once(names))

TableRefusals(config, table) ==
    LET fields == Fields(config, table)
    IN  Where("named mod", table.name = <<<<"mod", "">>>>)
        \cup Where("singular of itself", Marker(table) = RowName(config, table))
        \cup Where("unmapped type", \E c \in Range(fields) : c.rust_type = Unmapped)
        \cup Where("no columns left", fields = <<>>)
        \cup FieldRefusals(fields)
        \cup KeyRefusals(config, table)
        \cup Where("hooks of a SELECT-only model",
                   ~Writable(config, table)
                   /\ Options(config, table.name).hooks \ {"after_select"} # {})
        \cup Where("factory of a writable view",
                   config.factories /\ Writable(config, table) /\ IsView(table.kind))

-----------------------------------------------------------------------------
\* Relations: one per single-column foreign key, one per declared relationship.

\* Lexicographic; a list that ends, a name without words, comes first.
ColumnsBefore(a, b) ==
    \E i \in DOMAIN b :
        /\ NameBefore(Lookup(a, i, Unnamed), b[i])
        /\ \A j \in 1..(i - 1) : Lookup(a, j, Unnamed) = b[j]

\* Mutant: the foreign keys stay in the order the catalog enumerates them.
CanonicalAsRead(schema) == schema

KeysSorted(keys) ==
    LET D == DOMAIN keys
    IN  Sorted(keys, {p \in D \X D : ColumnsBefore(keys[p[1]].columns, keys[p[2]].columns)})

\* canonicalise: what an engine enumerates in an order of its own is sorted.
Canonical(schema) ==
    [i \in DOMAIN schema |->
        [schema[i] EXCEPT !.foreign_keys = KeysSorted(@)]]

FromForeignKey(table, fk) ==
    [child |-> table.name, column |-> fk.columns[1], parent |-> fk.ref_table,
     ref |-> fk.ref_columns[1], name |-> Unnamed, no_back_reference |-> FALSE,
     to_one |-> FALSE, declared |-> FALSE]

FromDeclared(r) ==
    [child |-> r.table, column |-> r.column, parent |-> r.ref_table, ref |-> r.ref_column,
     name |-> r.name, no_back_reference |-> r.no_back_reference,
     to_one |-> r.cardinality = "one_to_one", declared |-> TRUE]

KeysToRelate(table) ==
    Subsequence(table.foreign_keys,
        {i \in DOMAIN table.foreign_keys : Len(table.foreign_keys[i].columns) = 1})

\* check_declared: both ends exist in the whole schema and compare as one type.
DeclaredRefusals(schema, config, r) ==
    LET type(table, column) ==
            RustType(config.dialect, config.types, table, ColumnOf(Find(schema, table), column)).rust
    IN  IF ~({r.table, r.ref_table} \subseteq TableNames(schema)) THEN {"declared table"}
        ELSE IF \/ r.column \notin ColumnNames(Find(schema, r.table))
                \/ r.ref_column \notin ColumnNames(Find(schema, r.ref_table))
             THEN {"declared column"}
        ELSE Where("join columns not comparable",
                   type(r.table, r.column) # type(r.ref_table, r.ref_column))
             \cup Where("cardinality required",
                   /\ r.cardinality = "none"
                   /\ \E t \in {r.table, r.ref_table} : IsView(Find(schema, t).kind))

ModelColumns(model) == {c.db_name : c \in Range(model.columns)}

\* Mutant: the referenced column is taken to be there.
EndsKeptUnchecked(models, spec) ==
    /\ {spec.child, spec.parent} \subseteq DOMAIN models
    /\ spec.column \in ModelColumns(models[spec.child])

\* Every end of the relation survived the filters.
EndsKept(models, spec) ==
    /\ {spec.child, spec.parent} \subseteq DOMAIN models
    /\ spec.column \in ModelColumns(models[spec.child])
    /\ spec.ref \in ModelColumns(models[spec.parent])

Renamed(config, table, name) == Lookup(Aliases(config, table).relationships, name, name)

IdColumn(column) == Len(column) > 1 /\ Last(column) = <<"id", "">>

\* The declared name, the column without its _id, or the parent's singular.
RelationName(config, spec) ==
    Renamed(config, spec.child,
            IF spec.name # Unnamed THEN spec.name
            ELSE IF IdColumn(spec.column) THEN Front(spec.column)
            ELSE Singular(spec.parent, config.inflections))

Via(base, name) == base \o <<<<"via", "">>>> \o name

BelongsTo(models, config, spec) ==
    [models EXCEPT ![spec.child].belongs_to =
        Append(@, [name |-> RelationName(config, spec), fk_column |-> spec.column,
                   target |-> spec.parent, ref_column |-> spec.ref])]

\* The name of the belongs-to over a column, the last one when it has two.
NameOver(model, column) ==
    LET over == {i \in DOMAIN model.belongs_to : model.belongs_to[i].fk_column = column}
    IN  IF over = {} THEN column
        ELSE model.belongs_to[CHOOSE i \in over : \A j \in over : j <= i].name

\* Mutant: the two columns of a back-reference change places.
HasManySwapped(models, config, spec) ==
    [models EXCEPT ![spec.parent].has_many =
        Append(@, [name |-> Via(spec.child, RelationName(config, spec)), child |-> spec.child,
                   child_fk |-> spec.ref, parent_key |-> spec.column, to_one |-> spec.to_one])]

\* A second back-reference from the same child is told apart by the relation
\* it answers, and so, then, is the first.
HasMany(models, config, spec) ==
    LET base    == Either(Aliases(config, spec.child).plural, spec.child)
        clashes == \E h \in Range(models[spec.parent].has_many) : h.child = spec.child
        back    == IF clashes THEN Via(base, RelationName(config, spec)) ELSE base
        apart(h) == IF clashes /\ h.child = spec.child /\ h.name = base
                    THEN [h EXCEPT !.name = Via(base, NameOver(models[spec.child], h.child_fk))]
                    ELSE h
        earlier == models[spec.parent].has_many
    IN  [models EXCEPT ![spec.parent].has_many =
            Append([i \in DOMAIN earlier |-> apart(earlier[i])],
                   [name |-> Renamed(config, spec.parent, back), child |-> spec.child,
                    child_fk |-> spec.column, parent_key |-> spec.ref,
                    to_one |-> spec.to_one])]

\* A foreign key that lost an end is no relation; a declared one is refused.
AddRelation(resolved, config, spec) ==
    IF ~EndsKept(resolved.models, spec)
    THEN [resolved EXCEPT !.refusals = @ \cup Where("declared end filtered", spec.declared)]
    ELSE LET related == BelongsTo(resolved.models, config, spec)
         IN  [resolved EXCEPT !.models =
                IF config.no_back_referencing \/ spec.no_back_reference
                THEN related ELSE HasMany(related, config, spec)]

\* One relation after the other.
Relate(config, start, specs) ==
    LET after[n \in 0..Len(specs)] ==
            IF n = 0 THEN start ELSE AddRelation(after[n - 1], config, specs[n])
    IN  after[Len(specs)]

HasManyBefore(g, h) ==
    \/ NameBefore(g.child, h.child)
    \/ (~NameBefore(h.child, g.child) /\ NameBefore(g.name, h.name))

HasManySorted(model) ==
    LET D == DOMAIN model.has_many
        less == {p \in D \X D : HasManyBefore(model.has_many[p[1]], model.has_many[p[2]])}
    IN  [model EXCEPT !.has_many = Sorted(@, less)]

RelationNames(model) ==
    [i \in DOMAIN model.belongs_to |-> model.belongs_to[i].name]
    \o [i \in DOMAIN model.has_many |-> model.has_many[i].name]

\* check_rel_names.
NameRefusals(model) == Where("two relations of one name", ~Once(RelationNames(model)))

\* Every relation of the schema, table by table, then the declared ones.
RelationSpecs(kept, config) ==
    LET keys(t) == [j \in DOMAIN KeysToRelate(t) |-> FromForeignKey(t, KeysToRelate(t)[j])]
    IN  FlattenSeq([i \in DOMAIN kept |-> keys(kept[i])])
        \o [i \in DOMAIN config.relationships |-> FromDeclared(config.relationships[i])]

KeptTables(schema, config) ==
    Subsequence(schema, {i \in DOMAIN schema : IncludesTable(config, schema[i].name)})

\* resolve.
Resolved(schema, config) ==
    LET kept     == KeptTables(schema, config)
        refusals == UNION {TableRefusals(config, t) : t \in Tables(kept)}
                    \cup UNION {DeclaredRefusals(schema, config, r) : r \in Range(config.relationships)}
        single   == [name \in TableNames(kept) |-> ResolveTable(config, Find(kept, name))]
        related  == Relate(config, [refusals |-> refusals, models |-> single],
                           RelationSpecs(kept, config))
        models   == [t \in DOMAIN related.models |-> HasManySorted(related.models[t])]
    IN  [refusals |-> related.refusals \cup UNION {NameRefusals(m) : m \in Range(models)},
         models |-> models]

\* generate_from_schema, over what introspection read.
ResolveAll(schema, config) == Resolved(Canonical(schema), config)

============================================================================
