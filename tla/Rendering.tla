----------------------------- MODULE Rendering -----------------------------
(***************************************************************************)
(* Expressions built through the chain, rendered by a SqlWriter and read by *)
(* the engine.  A fragment is an expression together with what the calls    *)
(* that built it mean, built up side by side: expr is what keelson makes of *)
(* the calls, means what the author of the calls was promised.              *)
(***************************************************************************)
EXTENDS Expr, SqlReader

Frag(e, m) == [expr |-> e, means |-> m]

Exprs(frags) == [i \in DOMAIN frags |-> frags[i].expr]
Means(frags) == [i \in DOMAIN frags |-> frags[i].means]

FColumn(name) == Frag(Ident(name), Leaf(name))
FArg(v)       == Frag(Arg(v), Leaf(v))
FNamed(name)  == Frag(NamedArg(name), Leaf(name))

FOp(l, op, r)     == Frag(Op(l.expr, op, r.expr), App(op, <<l.means, r.means>>))
FIn(l, vals)      == Frag(In(l.expr, Exprs(vals)), App("IN", <<l.means>> \o Means(vals)))
FNotIn(l, vals)   == Frag(NotIn(l.expr, Exprs(vals)), App("NOT IN", <<l.means>> \o Means(vals)))
FIsNull(e)        == Frag(IsNull(e.expr), App("IS NULL", <<e.means>>))
FBetween(e, a, b) == Frag(Between(e.expr, a.expr, b.expr),
                          App("BETWEEN", <<e.means, a.means, b.means>>))
FConcat(l, r)     == Frag(Concat(l.expr, <<r.expr>>), App("||", <<l.means, r.means>>))
FAnd(l, r)        == Frag(And(l.expr, <<r.expr>>), App("AND", <<l.means, r.means>>))
FOr(l, r)         == Frag(Or(l.expr, <<r.expr>>), App("OR", <<l.means, r.means>>))
FAs(e, name)      == Frag(As(e.expr, name), App("AS", <<e.means, Leaf(name)>>))
FNot(e)           == Frag(Not(e.expr), App("NOT", <<e.means>>))
FFunc(name, a)    == Frag(Func(name, Exprs(a), None), App(name, Means(a)))
FOver(name, a, w) == Frag(Func(name, Exprs(a), Some(w.expr)),
                          App("OVER", <<App(name, Means(a)), w.means>>))
FCast(e, type)    == Frag(Cast(e.expr, type), App("CAST", <<e.means, Leaf(type)>>))
FCase(c, t)       == Frag(EndCase(<<<<c.expr, t.expr>>>>), App("CASE", <<c.means, t.means>>))
FCaseElse(c, t, e) == Frag(ElseCase(<<<<c.expr, t.expr>>>>, e.expr),
                           App("CASE", <<c.means, t.means, e.means>>))
FQuery(d, e)      == Frag(Query(d, e.expr), App("SELECT", <<e.means>>))
FSubquery(d, e)   == Frag(Subquery(d, e.expr), App("SELECT", <<e.means>>))

\* template("coalesce(?, ?)", ..) and raw arguments that do not match it.
FTemplate(a) == Frag(Template(<<<<"coalesce", "(">>, <<",">>, <<")">>>>, Exprs(a)),
                     App("coalesce", Means(a)))

-----------------------------------------------------------------------------

\* The operators that bind tighter than NOT, and the operands after the first that no
\* parentheses enclose.
OverNot(f) == {"=", "+", "IN", "NOT IN", "IS NULL", "BETWEEN"} \union {"||" : x \in {f} \ {"mysql"}}
Open(tree) == IF tree.op \in {"IN", "NOT IN"} THEN {} ELSE 2 .. Len(tree.kids)

\* NOT is the one operator that is written bare as an operand: as the first it takes the
\* whole of its operator under it, later on only SQLite reads it.
UnderNot(f, tree, kids) ==
    IF f # "sqlite" /\ \E i \in Open(tree) : tree.kids[i].op = "NOT" THEN Unread
    ELSE IF tree.kids[1].op = "NOT"
      THEN App("NOT", <<App(tree.op, <<kids[1].kids[1]>> \o Tail(kids))>>)
    ELSE App(tree.op, kids)

\* How far a text may stray from what its author meant: MySQL's || is OR
\* (keelson-mysql/tests/property.rs:19-21), and NOT reaches out.
RECURSIVE AsRead(_, _)
AsRead(f, tree) ==
    LET kids == [i \in DOMAIN tree.kids |-> AsRead(f, tree.kids[i])]
    IN  IF tree.op = "leaf" THEN tree
        ELSE IF Unread \in Range(kids) THEN Unread
        ELSE IF tree.op \in OverNot(f) THEN UnderNot(f, tree, kids)
        ELSE IF tree.op = "||" THEN App("OR", kids)
        ELSE App(tree.op, kids)

\* A sub-query of another dialect has placeholders the engine cannot read.
InOneDialect == \A i \in DOMAIN text : text[i].is = "arg" => text[i].dialect = family


\* A named parameter is left to whoever rebinds the statement, and the writer does not
\* count it (keelson-sqlite/src/lib.rs, named).  SQLite numbers it: it is the argument
\* that comes next, if there is one, although it "consumes no positional slot".
NameIsTheNextArgument ==
    outcome = "ok" /\ InOneDialect =>
      \A i \in DOMAIN text : text[i].is = "named" =>
        LET before == Cardinality({j \in 1 .. i : text[j].is = "arg"})
        IN  BoundTo(family, text, args, start, i)
              = IF before < Len(args) THEN args[before + 1] ELSE text[i].what
=============================================================================
