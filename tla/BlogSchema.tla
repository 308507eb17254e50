----------------------------- MODULE BlogSchema -----------------------------
(***************************************************************************)
(* A blog's schema, tables in any subset and foreign keys in any order, a   *)
(* table with a column of every declared type, and the configurations that  *)
(* filter, alias, declare and override over it.                             *)
(***************************************************************************)
EXTENDS GeneratedModels

W(word)    == <<word, "">>
S(stem)    == <<stem, "s">>
Users      == <<S("user")>>
Posts      == <<S("post")>>
Tags       == <<W("post"), S("tag")>>
Active     == <<W("active"), S("user")>>
Legacy     == <<S("log")>>
Typed      == <<<<"box", "xes">>>>
Id         == <<W("id")>>
Email      == <<W("email")>>
AuthorId   == <<W("author"), W("id")>>
EditorId   == <<W("editor"), W("id")>>
Reviewer   == <<W("reviewer")>>
ManagerId  == <<W("manager"), W("id")>>
PinnedId   == <<W("pinned"), W("id")>>
PostId     == <<W("post"), W("id")>>
UserId     == <<W("user"), W("id")>>
TagName    == <<W("tag")>>
Factories  == <<<<"factor", "ies">>>>
Kind(i)    == <<W("kind"), <<"no", ToString(i)>>>>

\* Every word of a name that is compared, in the order of the alphabet.
Alphabet ==
    <<W("active"), S("article"), W("author"), <<"box", "xes">>, W("by"), W("editor"),
      W("email"), <<"factor", "ies">>, W("id"), S("log"), W("manager"), W("owner"), W("pinned"), W("post"),
      S("post"), W("reviewer"), W("tag"), S("tag"), W("user"), S("user"), W("via"), W("writer")>>
AlphabetRank == [w \in Range(Alphabet) |-> CHOOSE i \in DOMAIN Alphabet : Alphabet[i] = w]

BigId == [psql |-> <<"bigint">>, mysql |-> <<"bigint">>, sqlite |-> <<"integer">>]
Words == [psql |-> <<"text">>, mysql |-> <<"varchar", "(10)">>, sqlite |-> <<"text">>]

Column(n, type, null) ==
    [name |-> n, db_type |-> type, nullable |-> null, default |-> "none",
     autoincrement |-> n = Id, comment |-> "none"]

Declared ==
    [psql |-> <<<<"smallint">>, <<"integer">>, <<"real">>, <<"double precision">>, <<"boolean">>,
                <<"character varying", "(10)">>, <<"bytea">>, <<"date">>, <<"time", "(3)", "without time zone">>,
                <<"timestamp", "without time zone">>, <<"timestamp", "with time zone">>, <<"uuid">>,
                <<"numeric", "(10,2)">>, <<"jsonb">>>>,
     mysql |-> <<<<"tinyint", "(1)">>, <<"tinyint">>, <<"smallint", "unsigned">>, <<"int", "unsigned">>,
                 <<"bigint", "unsigned">>, <<"float">>, <<"double">>, <<"decimal", "(10,2)">>,
                 <<"varbinary", "(10)">>, <<"date">>, <<"time">>, <<"datetime">>, <<"timestamp">>, <<"json">>,
                 <<"int", "(10)", "unsigned">>>>,
     sqlite |-> <<<<"boolean">>, <<"bigint">>, <<"charint">>, <<"varchar", "(10)">>, <<"clob">>, <<"blob">>,
                  <<"real">>, <<"double">>, <<"decimal", "(10,2)">>, <<"datetime">>, <<"date">>, <<"time">>>>]

Table(n, kind, columns, key, unique) ==
    [name |-> n, kind |-> kind, columns |-> columns, primary_key |-> key,
     foreign_keys |-> <<>>, unique_keys |-> unique]

BlogShapes == [d \in {"psql", "mysql", "sqlite"} |->
    LET id(n)     == Column(n, BigId[d], FALSE)
        maybe(n)  == Column(n, BigId[d], TRUE)
        text(n)   == Column(n, Words[d], TRUE)
        kinds     == Declared[d]
    IN  {Table(Users, "table", <<id(Id), text(Email), maybe(ManagerId), maybe(PinnedId)>>, <<Id>>, <<<<Email>>>>),
         Table(Posts, "table", <<id(Id), maybe(AuthorId), maybe(EditorId), maybe(Reviewer)>>, <<Id>>, <<>>),
         Table(Tags, "table", <<id(PostId), Column(TagName, Words[d], FALSE)>>, <<PostId, TagName>>, <<>>),
         Table(Active, "updatable_view", <<maybe(UserId), text(Email)>>, <<>>, <<>>),
         Table(Legacy, "table", <<maybe(UserId), text(Email)>>, <<>>, <<>>),
         Table(Typed, "table", <<id(Id)>> \o [i \in DOMAIN kinds |-> Column(Kind(i), kinds[i], TRUE)],
               <<Id>>, <<>>)}]

Ref(t, c, to, ref) == [table |-> t, key |-> [columns |-> c, ref_table |-> to, ref_columns |-> ref]]
BlogReferences ==
    {Ref(Posts, <<AuthorId>>, Users, <<Id>>), Ref(Posts, <<EditorId>>, Users, <<Id>>),
     Ref(Posts, <<Reviewer>>, Users, <<Id>>), Ref(Users, <<ManagerId>>, Users, <<Id>>),
     Ref(Users, <<PinnedId>>, Posts, <<Id>>), Ref(Tags, <<PostId>>, Posts, <<Id>>)}

Default(d) ==
    [dialect |-> d, only |-> {}, except |-> {}, tables |-> <<>>, aliases |-> <<>>,
     relationships |-> <<>>, inflections |-> <<>>, no_back_referencing |-> FALSE,
     factories |-> FALSE, types |-> [map |-> <<>>, overrides |-> <<>>]]

Anything == [name |-> {}, db_type |-> {}, nullable |-> {}, default |-> {}, autoincrement |-> {}, comment |-> {}]
Override(tables, matcher, rust) == [tables |-> tables, matcher |-> matcher, rust_type |-> rust]
Retyped(pairs) ==
    [i \in DOMAIN pairs |-> Override({Typed}, [Anything EXCEPT !.db_type = {pairs[i][1]}], pairs[i][2])]
Relationship(t, c, to, ref, name, cardinality) ==
    [table |-> t, column |-> c, ref_table |-> to, ref_column |-> ref, name |-> name,
     no_back_reference |-> FALSE, cardinality |-> cardinality]

Sql == Default("psql")
Lite == Default("sqlite")
My == Default("mysql")

BlogConfigs == {
    Sql, Lite, My,
    [Sql EXCEPT !.except = {Users}, !.only = {Posts, Tags, Users}],
    [Sql EXCEPT !.no_back_referencing = TRUE,
                !.types.overrides = Retyped(<<<<<<"double precision">>, "f32">>, <<<<"character varying">>, "Decimal">>,
                                     <<<<"timestamp">>, "DateTime<Utc>">>, <<<<"bytea">>, "Uuid">>,
                                     <<<<"smallint">>, "Decimal">>, <<<<"real">>, "f64">>>>)],
    [Sql EXCEPT !.tables = Posts :> [NoOptions EXCEPT !.except_columns = {EditorId}]
                        @@ Users :> [NoOptions EXCEPT !.except_columns = {Id}, !.key = <<>>]],
    [My EXCEPT !.tables = Tags :> [NoOptions EXCEPT !.only_columns = {PostId}]
                       @@ Legacy :> [NoOptions EXCEPT !.key = <<UserId>>, !.hooks = {"before_insert"}],
                !.types.overrides = Retyped(<<<<<<"varbinary">>, "Uuid">>, <<<<"double">>, "Decimal">>,
                                     <<<<"json">>, "NaiveDate">>, <<<<"int">>, "f32">>>>)],
    [Lite EXCEPT !.tables = Active :> [NoOptions EXCEPT !.key = <<UserId>>]],
    [Lite EXCEPT !.tables = Active :> [NoOptions EXCEPT !.key = <<UserId>>], !.factories = TRUE],
    [Sql EXCEPT !.relationships = <<Relationship(Active, UserId, Users, Id, Unnamed, "one_to_one")>>],
    [Sql EXCEPT !.relationships = <<Relationship(Active, UserId, Users, Id, Unnamed, "none")>>],
    [Sql EXCEPT !.relationships = <<Relationship(Legacy, UserId, Users, Id, <<W("owner")>>, "none")>>,
                !.types.overrides = <<Override({Users}, [Anything EXCEPT !.name = {Id}], "i32")>>],
    [Sql EXCEPT !.aliases = Posts :> [NoAliases EXCEPT !.plural = <<S("article")>>,
                                          !.relationships = <<W("author")>> :> <<W("writer")>>]],
    [Sql EXCEPT !.aliases = Posts :> [NoAliases EXCEPT !.columns =
                                          AuthorId :> <<W("by")>> @@ EditorId :> <<W("by")>>]],
    [My EXCEPT !.types = [map |-> <<"bigint", "unsigned">> :> "i64",
                          overrides |-> <<Override({}, [Anything EXCEPT !.nullable = {FALSE}], "i64"),
                                          Override({Typed}, [Anything EXCEPT !.db_type = {<<"tinyint">>}], "u8")>>]],
    [Lite EXCEPT !.types.overrides = <<Override({Typed}, [Anything EXCEPT !.db_type = {<<"bigint">>}], "u64")>>] }

============================================================================
