-------------------------------- MODULE Expr --------------------------------
(***************************************************************************)
(* keelson-core's expression tree: its nodes, the parenthesisation rule,    *)
(* the operator chain that builds it, and what each node asks of the        *)
(* writer.  A node is a record [node, word, kids, extra]: word is the text  *)
(* it carries (a name, an operator, a separator), kids its operands.        *)
(***************************************************************************)
EXTENDS Writer, SequencesExt

CONSTANT Null     \* Value::Null

Node(kind, word, kids, extra) == [node |-> kind, word |-> word, kids |-> kids, extra |-> extra]

None == <<>>          \* Option::None
Some(e) == <<e>>

Raw(sql)           == Node("Raw", sql, <<>>, None)
Literal(s)         == Node("Literal", s, <<>>, None)
Ident(name)        == Node("Ident", name, <<>>, None)
Arg(v)             == Node("Arg", "", <<>>, Some(v))
Args(vals)         == Node("Args", "", [i \in DOMAIN vals |-> Arg(vals[i])], None)
NamedArg(name)     == Node("NamedArg", name, <<>>, None)
Group(items)       == Node("Group", "", items, None)
Binary(l, op, r)   == Node("Binary", op, <<l, r>>, None)
Prefix(op, e)      == Node("Prefix", op, <<e>>, None)
Postfix(e, op)     == Node("Postfix", op, <<e>>, None)
Join(sep, exprs)   == Node("Join", sep, exprs, None)
Func(name, a, over) == Node("Func", name, a, over)
Case(whens, else)  == Node("Case", "", FlattenSeq(whens), else)
Cast(e, type)      == Node("Cast", type, <<e>>, None)

\* A template: the author's SQL cut at its holes, the pieces in words, and the
\* arguments; an escaped `?` is a word like any other.
Template(pieces, a) == Node("Template", "", a, pieces)

\* Expr::Custom of a whole query of some dialect (QueryExpr): a SELECT of one
\* expression.
Query(d, e)        == Node("Query", d, <<e>>, None)

\* is_atomic: the node renders as one fragment that needs no parentheses.
\* Mutant: a joined list counts as one.
Standalone == {"Raw", "Template", "Literal", "Ident", "Arg", "Args", "NamedArg", "Group"}
IsAtomic(e) == e.node \in Standalone

\* grouped.
Grouped(e) == IF IsAtomic(e) THEN e ELSE Group(<<e>>)

-----------------------------------------------------------------------------
(* The chain: every operator groups its own result (Chain::step).          *)

Op(l, op, r)      == Grouped(Binary(l, op, r))
In(l, vals)       == Grouped(Binary(l, "IN", Group(vals)))
NotIn(l, vals)    == Grouped(Binary(l, "NOT IN", Group(vals)))
IsNull(e)         == Grouped(Postfix(e, "IS NULL"))
Between(e, a, b)  == Grouped(Join(" ", <<e, Raw("BETWEEN"), a, Raw("AND"), b>>))
Concat(l, others) == Grouped(Join("||", <<l>> \o others))
And(l, others)    == Grouped(Join("AND", <<l>> \o others))
Or(l, others)     == Grouped(Join("OR", <<l>> \o others))
As(e, name)       == Binary(e, "AS", Ident(name))

\* The starters and builders that are not chain steps.  not groups its operand
\* and leaves its own result as it is.
Not(e)             == Prefix("NOT", Grouped(e))
EndCase(whens)     == Grouped(Case(whens, None))
ElseCase(whens, e) == Grouped(Case(whens, Some(e)))
Subquery(d, e)     == Group(<<Query(d, e)>>)

-----------------------------------------------------------------------------
(* Expression::write_sql of each node.                                     *)

\* Parts joined by a space, which is not a token.
Spaced(exprs) == [i \in DOMAIN exprs |-> Write(exprs[i])]

\* write_template: a hole without an argument binds NULL, so that what follows
\* keeps its position, and the mismatch is recorded once the text is written.
TemplateParts(pieces, a) ==
    LET holes == Len(pieces) - 1
        Piece(i) == [k \in DOMAIN pieces[i] |-> Str(pieces[i][k])]
        Hole(i) == IF i \in DOMAIN a THEN Write(a[i]) ELSE Bind(Null)
    IN  FlattenSeq([i \in 1 .. holes |-> Piece(i) \o <<Hole(i)>>])
          \o Piece(holes + 1)
          \o (IF holes # Len(a) THEN <<Fault("RawArgCount")>> ELSE <<>>)

\* A CASE of conditions and values in turn; with no WHEN it records its incompleteness
\* and writes nothing.
CaseParts(whens, else) ==
    IF whens = <<>> THEN <<Fault("Incomplete")>>
    ELSE <<Str("CASE")>>
           \o FlattenSeq([i \in DOMAIN whens |->
                <<Str(IF i % 2 = 1 THEN "WHEN" ELSE "THEN"), Write(whens[i])>>])
           \o (IF else = None THEN <<>> ELSE <<Str("ELSE"), Write(else[1])>>)
           \o <<Str("END")>>

WriteSql(e) ==
    CASE e.node \in {"Raw", "Literal", "Ident"} -> Text(e.word)
      [] e.node = "Arg"      -> <<Bind(e.extra[1])>>
      [] e.node = "Args"     -> IF e.kids = <<>> THEN <<Str("NULL")>> ELSE Slice(e.kids, "", ",", "")
      [] e.node = "NamedArg" -> <<Named(e.word)>>
      [] e.node = "Template" -> TemplateParts(e.extra, e.kids)
      [] e.node = "Group"    -> IF e.kids = <<>> THEN <<Str("("), Str("NULL"), Str(")")>>
                                ELSE Slice(e.kids, "(", ",", ")")
      [] e.node = "Binary"   -> <<Write(e.kids[1]), Str(e.word), Write(e.kids[2])>>
      [] e.node = "Prefix"   -> <<Str(e.word), Write(e.kids[1])>>
      [] e.node = "Postfix"  -> <<Write(e.kids[1]), Str(e.word)>>
      [] e.node = "Join"     -> IF e.word = " " THEN Spaced(e.kids)
                                ELSE Slice(e.kids, "", e.word, "")
      [] e.node = "Func"     -> <<Str(e.word), Str("(")>> \o Slice(e.kids, "", ",", "")
                                  \o <<Str(")")>>
                                  \o (IF e.extra = None THEN <<>>
                                      ELSE <<Str("OVER"), Str("("), Write(e.extra[1]), Str(")")>>)
      [] e.node = "Case"     -> CaseParts(e.kids, e.extra)
      [] e.node = "Cast"     -> <<Str("CAST"), Str("("), Write(e.kids[1]), Str("AS"),
                                  Str(e.word), Str(")")>>
      [] e.node = "Query"    -> <<Within(e.word, Node("Select", "", e.kids, None))>>
      [] e.node = "Select"   -> <<Str("SELECT"), Write(e.kids[1])>>
=============================================================================
