--------------------------- MODULE GeneratedModels ---------------------------
(***************************************************************************)
(* The module the generator writes for one model (emit/mod.rs,              *)
(* emit/model.rs): the items it declares and what each of them names, in    *)
(* its own module or in another.  An item's text is what identifies it.     *)
(***************************************************************************)
EXTENDS Resolve

Returning(dialect) == dialect # "mysql"
HoldsRelations(model) == model.writable \/ model.belongs_to # <<>> \/ model.has_many # <<>>
Entry(model) == IF model.writable THEN "table" ELSE "view"
ModelColumn(model, name) == CHOOSE c \in Range(model.columns) : c.db_name = name
NoReturning(model, dialect) == model.writable /\ ~Returning(dialect)

-----------------------------------------------------------------------------
\* The row and what it is read with.

FieldType(column) == IF column.nullable THEN <<"Option", column.rust_type>> ELSE <<column.rust_type>>

\* Every generated column, by the name it is selected under and the field
\* it is taken into.
Taken(model, prefix) ==
    [i \in DOMAIN model.columns |->
        [label |-> prefix \o model.columns[i].db_name,
         field |-> model.columns[i].field, type |-> FieldType(model.columns[i])]]

\* Rel: each relation's field, the module whose row it holds and how many.
RelFields(model) ==
    [i \in DOMAIN model.belongs_to |->
        [field |-> model.belongs_to[i].name, holds |-> model.belongs_to[i].target, many |-> FALSE]]
    \o [i \in DOMAIN model.has_many |->
        [field |-> model.has_many[i].name, holds |-> model.has_many[i].child,
         many |-> ~model.has_many[i].to_one]]

\* assert_bind: a type the configuration chose must bind.
Asserts(model) == {c.rust_type : c \in {k \in Range(model.columns) : k.overridden}}

-----------------------------------------------------------------------------
\* Mutations.

KeyColumns(model) == [i \in DOMAIN model.pk |-> ModelColumn(model, model.pk[i])]

IntegerKeys == {"i8", "i16", "i32", "i64", "u8", "u16", "u32", "u64"}

\* last_insert_id answers for a single integer key and for no other.
UsesLastInsertId(model) ==
    Len(model.pk) = 1 /\ KeyColumns(model)[1].rust_type \in IntegerKeys

TableImpl(model) ==
    [pk |-> [i \in DOMAIN model.pk |-> KeyColumns(model)[i].rust_type],
     sets |-> {c.db_name : c \in Range(model.columns)},
     delegates |-> model.hooks]

-----------------------------------------------------------------------------
\* Relations: a join in the same statement, or a keyed statement after it.

Preload(model, models, b) ==
    [name |-> b.name, joins |-> b.target,
     on |-> <<b.target, b.ref_column, model.table, b.fk_column>>,
     probe |-> b.name \o b.ref_column,
     takes |-> Taken(models[b.target], b.name)]

\* The key type is the parent side's; the child's key is returned as it.
ThenLoadOf(name, parent, child_table, child_key, to_many) ==
    [name |-> name, loads |-> child_table, by |-> child_key.db_name,
     key |-> parent.rust_type, child_key |-> child_key.rust_type, many |-> to_many]

ThenLoads(model, models) ==
    [i \in DOMAIN model.belongs_to |->
        LET b == model.belongs_to[i]
        IN  ThenLoadOf(b.name, ModelColumn(model, b.fk_column), b.target,
                       ModelColumn(models[b.target], b.ref_column), FALSE)]
    \o [i \in DOMAIN model.has_many |->
        LET h == model.has_many[i]
        IN  ThenLoadOf(h.name, ModelColumn(model, h.parent_key), h.child,
                       ModelColumn(models[h.child], h.child_fk), ~h.to_one)]

-----------------------------------------------------------------------------
\* The whole module.

\* The names the generator chooses itself.
Word(word) == <<<<word, "">>>>

TypesOf(model, dialect) ==
    <<model.marker, model.row>>
    \o (IF HoldsRelations(model) THEN <<Pascal(Word("rel"))>> ELSE <<>>)
    \o (IF model.writable THEN <<Pascal(Word("setter"))>> ELSE <<>>)
    \o (IF NoReturning(model, dialect)
        THEN <<Pascal(Word("insert")), Pascal(Word("update")), Pascal(Word("delete"))>> ELSE <<>>)

FunctionsOf(model, dialect) ==
    <<Word(Entry(model)), <<<<"all", "">>, <<"columns", "">>>>>>
    \o [i \in DOMAIN model.columns |-> model.columns[i].field]
    \o (IF NoReturning(model, dialect) THEN <<<<<<"by", "">>, <<"pk", "">>>>>> ELSE <<>>)

ModelFile(model, models, dialect) ==
    [types |-> TypesOf(model, dialect), functions |-> FunctionsOf(model, dialect),
     row |-> Taken(model, <<>>), rel |-> RelFields(model), asserts |-> Asserts(model),
     table |-> IF model.writable THEN <<TableImpl(model)>> ELSE <<>>,
     after_select |-> "after_select" \in model.hooks,
     by_last_insert_id |-> NoReturning(model, dialect) /\ UsesLastInsertId(model),
     preload |-> [i \in DOMAIN model.belongs_to |->
                    Preload(model, models, model.belongs_to[i])],
     then_load |-> ThenLoads(model, models)]

ModRs(models, config) == [modules |-> DOMAIN models, factories |-> config.factories]

============================================================================
