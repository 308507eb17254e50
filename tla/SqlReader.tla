----------------------------- MODULE SqlReader -----------------------------
(***************************************************************************)
(* How an engine reads an expression (external): which argument each        *)
(* placeholder of a statement is given, and the grammar of operators by     *)
(* precedence: OR, AND, NOT, the comparisons, then the arithmetic.  Reading *)
(* gives a tree of App and Leaf, or Unread for text the grammar refuses.    *)
(***************************************************************************)
EXTENDS Naturals, Sequences, FiniteSets, FiniteSetsExt

Leaf(what)    == [op |-> "leaf", word |-> what, kids |-> <<>>]
App(op, kids) == [op |-> op, word |-> "", kids |-> kids]
Unread        == Leaf("unread")

\* The values placeholders are given.  PostgreSQL and SQLite go by number, MySQL
\* by position; SQLite gives a named parameter the number after the largest so
\* far, and a number the argument list reaches is bound from it.
BoundTo(family, tokens, args, start, i) ==
    LET Numbers(j) == {tokens[k].number - start + 1 :
                          k \in {k \in 1 .. j : tokens[k].is = "arg"}}
        At(n) == IF n \in DOMAIN args THEN args[n] ELSE "unbound"
    IN  IF tokens[i].is = "arg"
          THEN IF family = "mysql"
                 THEN At(Cardinality({k \in 1 .. i : tokens[k].is = "arg"}))
                 ELSE At(tokens[i].number - start + 1)
          ELSE LET named == 1 + Max({0} \union Numbers(i))
               IN  IF named \in DOMAIN args THEN args[named] ELSE tokens[i].what

\* The text with the values of its placeholders in place: a sequence of words.
Words(family, tokens, args, start) ==
    [i \in DOMAIN tokens |->
       [value |-> tokens[i].is # "sql",
        word  |-> IF tokens[i].is = "arg" THEN BoundTo(family, tokens, args, start, i)
                  ELSE tokens[i].what]]

Reserved == {"(", ")", ",", "AND", "OR", "NOT", "||", "=", "+", "IN", "NOT IN", "IS NULL",
             "BETWEEN", "CASE", "WHEN", "THEN", "ELSE", "END", "CAST", "AS", "OVER",
             "SELECT"}

\* MySQL's `||` is another spelling of OR.
Spellings(family, op) ==
    CASE op = "OR" -> IF family = "mysql" THEN {"OR", "||"} ELSE {"OR"}
      [] op = "||" -> IF family = "mysql" THEN {} ELSE {"||"}
      [] OTHER     -> {op}

\* The next binding level down, from the loosest.
Tighter(op) == CASE op = "OR" -> "AND" [] op = "AND" -> "NOT"
                 [] op = "||" -> "+" [] op = "+" -> "primary"

RECURSIVE ReadLevel(_, _, _, _), ReadNary(_, _, _, _, _), ReadPrimary(_, _, _),
          ReadList(_, _, _, _), ReadWhens(_, _, _, _)

\* A reading is the tree and the position after it.
Reading(tree, after) == [tree |-> tree, after |-> after]
NoReading == Reading(Unread, 0)

Is(w, i, word) == i \in DOMAIN w /\ ~w[i].value /\ w[i].word = word

\* What follows tree r if word stands at its end, and nothing otherwise.
Expect(w, r, word, result) ==
    IF r.after # 0 /\ Is(w, r.after, word) THEN Reading(result, r.after + 1) ELSE NoReading

\* The comparisons, which do not associate.
ReadComparison(f, w, i) ==
    LET l == ReadLevel(f, w, i, "||")
        j == l.after
    IN  IF j = 0 THEN NoReading
        ELSE IF Is(w, j, "=")
          THEN LET r == ReadLevel(f, w, j + 1, "||")
               IN  IF r.after = 0 THEN NoReading ELSE Reading(App("=", <<l.tree, r.tree>>), r.after)
        ELSE IF Is(w, j, "IS NULL") THEN Reading(App("IS NULL", <<l.tree>>), j + 1)
        ELSE IF (Is(w, j, "IN") \/ Is(w, j, "NOT IN")) /\ Is(w, j + 1, "(")
          THEN LET list == ReadList(f, w, j + 2, <<>>)
               IN  Expect(w, list, ")", App(w[j].word, <<l.tree>> \o list.tree.kids))
        ELSE IF Is(w, j, "BETWEEN")
          THEN LET a == ReadLevel(f, w, j + 1, "||")
                   b == IF a.after # 0 /\ Is(w, a.after, "AND")
                          THEN ReadLevel(f, w, a.after + 1, "||") ELSE NoReading
               IN  IF b.after = 0 THEN NoReading
                   ELSE Reading(App("BETWEEN", <<l.tree, a.tree, b.tree>>), b.after)
        ELSE l

ReadLevel(f, w, i, op) ==
    CASE op = "primary" -> ReadPrimary(f, w, i)
      [] op = "NOT" ->
           IF Is(w, i, "NOT")
             THEN LET e == ReadLevel(f, w, i + 1, "NOT")
                  IN  IF e.after = 0 THEN NoReading ELSE Reading(App("NOT", <<e.tree>>), e.after)
             ELSE ReadComparison(f, w, i)
      [] OTHER -> ReadNary(f, w, i, op, <<>>)

\* One or more operands of op; a chain of one operator is one application.
ReadNary(f, w, i, op, sofar) ==
    LET e    == ReadLevel(f, w, i, Tighter(op))
        kids == Append(sofar, e.tree)
    IN  IF e.after = 0 THEN NoReading
        ELSE IF \E word \in Spellings(f, op) : Is(w, e.after, word)
          THEN ReadNary(f, w, e.after + 1, op, kids)
        ELSE Reading(IF Len(kids) = 1 THEN kids[1] ELSE App(op, kids), e.after)

\* Expressions separated by commas, as the kids of a list.
ReadList(f, w, i, sofar) ==
    LET e    == IF Is(w, i, "SELECT")
                  THEN LET s == ReadLevel(f, w, i + 1, "OR")
                       IN  IF s.after = 0 THEN NoReading
                           ELSE Reading(App("SELECT", <<s.tree>>), s.after)
                  ELSE ReadLevel(f, w, i, "OR")
        kids == Append(sofar, e.tree)
    IN  IF e.after = 0 THEN NoReading
        ELSE IF Is(w, e.after, ",") THEN ReadList(f, w, e.after + 1, kids)
        ELSE Reading(App("list", kids), e.after)

ReadWhens(f, w, i, sofar) ==
    IF Is(w, i, "WHEN")
      THEN LET c == ReadLevel(f, w, i + 1, "OR")
               t == IF c.after # 0 /\ Is(w, c.after, "THEN")
                      THEN ReadLevel(f, w, c.after + 1, "OR") ELSE NoReading
           IN  IF t.after = 0 THEN NoReading
               ELSE ReadWhens(f, w, t.after, sofar \o <<c.tree, t.tree>>)
    ELSE IF Is(w, i, "ELSE")
      THEN LET e == ReadLevel(f, w, i + 1, "OR")
           IN  Expect(w, e, "END", App("CASE", Append(sofar, e.tree)))
    ELSE IF Is(w, i, "END") /\ sofar # <<>> THEN Reading(App("CASE", sofar), i + 1)
    ELSE NoReading

ReadPrimary(f, w, i) ==
    CASE i \notin DOMAIN w -> NoReading
      [] i \in DOMAIN w /\ w[i].value -> Reading(Leaf(w[i].word), i + 1)
      [] Is(w, i, "(") ->
           LET list == ReadList(f, w, i + 1, <<>>)
           IN  Expect(w, list, ")",
                      IF Len(list.tree.kids) = 1 THEN list.tree.kids[1]
                      ELSE App("row", list.tree.kids))
      [] Is(w, i, "NOT") /\ f = "sqlite" -> ReadLevel(f, w, i, "NOT")
      [] Is(w, i, "CASE") -> ReadWhens(f, w, i + 1, <<>>)
      [] Is(w, i, "CAST") /\ Is(w, i + 1, "(") ->
           LET e == ReadLevel(f, w, i + 2, "OR")
           IN  IF e.after # 0 /\ Is(w, e.after, "AS")
                 THEN Expect(w, Reading(e.tree, e.after + 2), ")",
                             App("CAST", <<e.tree, Leaf(w[e.after + 1].word)>>))
                 ELSE NoReading
      [] i \in DOMAIN w /\ ~w[i].value /\ w[i].word \notin Reserved ->
           IF Is(w, i + 1, "(")
             THEN LET list == IF Is(w, i + 2, ")") THEN Reading(App("list", <<>>), i + 2)
                              ELSE ReadList(f, w, i + 2, <<>>)
                      call == Expect(w, list, ")", App(w[i].word, list.tree.kids))
                  IN  IF call.after # 0 /\ Is(w, call.after, "OVER") /\ Is(w, call.after + 1, "(")
                        THEN LET over == ReadLevel(f, w, call.after + 2, "OR")
                             IN  Expect(w, over, ")", App("OVER", <<call.tree, over.tree>>))
                        ELSE call
             ELSE Reading(Leaf(w[i].word), i + 1)
      [] OTHER -> NoReading

\* A whole select-list item: an expression, which may have an alias.
ReadItem(f, w) ==
    LET e == ReadLevel(f, w, 1, "OR")
    IN  IF e.after = Len(w) + 1 THEN e.tree
        ELSE IF e.after # 0 /\ Is(w, e.after, "AS") /\ Len(w) = e.after + 1
          THEN App("AS", <<e.tree, Leaf(w[e.after + 1].word)>>)
        ELSE Unread
=============================================================================
