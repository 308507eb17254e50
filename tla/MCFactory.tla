------------------------------- MODULE MCFactory -------------------------------
(***************************************************************************)
(* Two callers over users, their posts (author required) and notes on the   *)
(* posts (optional), one user there from the start.                         *)
(***************************************************************************)
EXTENDS Creations, TLC

CONSTANTS a, b

MCAlike == Permutations(Callers)

MCTables == {"users", "posts", "notes"}
To(t, required) == [to |-> t, required |-> required]
MCRefers   == [users |-> To("users", FALSE), posts |-> To("users", TRUE), notes |-> To("posts", FALSE)]
MCExisting == {Row("users", 1, Null, Null)}

Mutation(call)         == [call |-> <<call>>, template |-> <<>>, times |-> 0]
Creation(tpl, times)   == [call |-> <<>>, template |-> <<tpl>>, times |-> times]
Setter(id, label)      == <<id, label, Unset>>
Nothing                == Setter(Unset, Unset)

\* A post and its author; users without labels; a post of an author there is,
\* with two notes, one of which brings a post of its own.
Posts  == Template("posts")
Users  == [Template("users") EXCEPT !.label = NullOf]
Notes  == Template("notes")
Stray  == [Notes EXCEPT !.parent = ParentAs("template", <<Posts>>, Null)]
Thread == [Posts EXCEPT !.parent = ParentAs("existing", <<>>, 1), !.id = Omit, !.children = <<Stray, Notes>>]

Wiped == Mutation(Call("delete", FALSE, "users", Nothing, {1, 2}, "none"))

MCJobs == {
    Wiped,
    Mutation(Call("insert", TRUE, "users", Setter(Unset, 7), {}, "none")),
    Mutation(Call("insert", TRUE, "users", Nothing, {}, "another row")),
    Mutation(Call("insert", TRUE, "users", Setter(2, Unset), {}, "none")),
    Mutation(Call("insert", FALSE, "users", Setter(2, 7), {}, "ignore")),
    Mutation(Call("update", TRUE, "users", Setter(3, 7), {2}, "none")),
    Mutation(Call("update", FALSE, "users", Nothing, {1, 2}, "none")),
    Mutation(Call("update", FALSE, "posts", <<Unset, Unset, 2>>, {100, 102}, "none")),
    Creation(Posts, 1),
    Creation(Users, 2),
    Creation(Thread, 1) }

============================================================================
