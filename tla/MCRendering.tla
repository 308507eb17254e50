---------------------------- MODULE MCRendering ----------------------------
(* Rendering for TLC: every expression of two operators or builders over a   *)
(* column, an argument and a named argument, a third operand where one is     *)
(* needed, and a sub-query of every dialect.                                 *)
EXTENDS Rendering, TLC

MCDialects == {"psql", "mysql", "sqlite"}
MCNamed    == {"sqlite"}
MCWord     == STRING
MCValue    == {"v1", "v2", "v3", "null"}

Leaves  == {FColumn("a"), FArg("v1"), FNamed("n")}
Seconds == {FColumn("b"), FArg("v2")}
Third   == FArg("v3")

Unary(F) ==
    {FNot(x) : x \in F} \union {FIsNull(x) : x \in F}
      \union {FFunc("lower", <<x>>) : x \in F}
      \union {FOver("rank", <<>>, x) : x \in F}
      \union {FCast(x, "int") : x \in F}
      \union {FCase(x, Third) : x \in F}
      \union {FSubquery(d, x) : d \in MCDialects, x \in F}
      \union {FTemplate(<<x>>) : x \in F}

Binaries(F, G) ==
    {FOp(x, op, y) : op \in {"=", "+"}, x \in F, y \in G}
      \union {FConcat(x, y) : x \in F, y \in G}
      \union {FAnd(x, y) : x \in F, y \in G} \union {FOr(x, y) : x \in F, y \in G}
      \union {FIn(x, <<y, Third>>) : x \in F, y \in G}
      \union {FNotIn(x, <<FQuery("psql", y)>>) : x \in F, y \in G}
      \union {FBetween(x, y, Third) : x \in F, y \in G}
      \union {FTemplate(<<x, y>>) : x \in F, y \in G}
      \union {FTemplate(<<x, y, Third>>) : x \in F, y \in G}
      \union {FCaseElse(x, y, Third) : x \in F, y \in G}

One == Leaves \union Unary(Leaves) \union Binaries(Leaves, Seconds)
Two == Unary(One) \union Binaries(One, Seconds) \union Binaries(Seconds, One)

MCFragments == One \union Two \union {FAs(x, "y") : x \in One}
                   \union {FAnd(x, Frag(EndCase(<<>>), Unread)) : x \in One}

MCParts(e) == WriteSql(e)
=============================================================================
