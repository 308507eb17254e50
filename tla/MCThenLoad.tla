----------------------------- MODULE MCThenLoad -----------------------------
(* Relation loading for TLC: a table of up to three rows that may refer to    *)
(* one another in circles; the relations a foreign key gives in both           *)
(* directions; paths of one, two and three levels.                             *)
EXTENDS LoadedJoin

MCId == 1 .. 3

BelongsTo == [parent |-> "ref", child |-> "id",  many |-> FALSE]
HasMany   == [parent |-> "id",  child |-> "ref", many |-> TRUE]
HasOne    == [parent |-> "id",  child |-> "ref", many |-> FALSE]

L(rel, batch, then) == Level(rel, batch, MCId, then)

MCPaths ==
  { <<L(BelongsTo, 2, <<L(HasMany, 1, <<>>)>>)>>,
    <<L(HasMany, 2, <<L(HasMany, 2, <<L(BelongsTo, 1, <<>>)>>)>>)>>,
    <<L(HasMany, 2, <<L(BelongsTo, 2, <<>>), L(HasOne, 2, <<>>)>>)>>,
    <<L(HasMany, 2, <<>>), Level(HasMany, 3, {1, 2}, <<>>)>>,
    <<L(HasOne, 3, <<>>), Level(BelongsTo, 1, {1, 2}, <<L(HasMany, 2, <<>>)>>)>> }

\* Every level of the paths: they are three deep.
MCLevels ==
  LET below(levels) == UNION {ToSet(l.then) : l \in levels}
      first == {L(BelongsTo, 2, <<>>)} \union UNION {ToSet(path) : path \in MCPaths}
  IN  first \union below(first) \union below(below(first))

MCQueries ==
  {[verb |-> "all", rows |-> rows, loaders |-> path] :
     rows \in {<<1, 2, 3>>, <<2, 1>>, <<1, 1>>}, path \in MCPaths}
    \union {[verb |-> verb, rows |-> rows, loaders |-> <<L(BelongsTo, 2, <<>>)>>] :
              verb \in {"one", "optional"}, rows \in {<<1>>, <<1, 2>>}}

\* Row 3 may be missing at first, and refers to row 1 if to any.
MCTables ==
  {t \in UNION {[ids -> MCId \union {0}] : ids \in {{1, 2}, {1, 2, 3}}} :
     3 \in DOMAIN t => t[3] \in {0, 1}}
=============================================================================
