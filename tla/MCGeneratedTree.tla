--------------------------- MODULE MCGeneratedTree ---------------------------
(***************************************************************************)
(* Four catalogs of a blog and one query file, about its posts.  The second *)
(* has lost the posts table, and with it the relation of users and what the *)
(* query is about; the third has a column of no known type; the fourth has  *)
(* a table named `factories`, and factories are generated for it.  A text   *)
(* is a number; that two files have the same one exactly when the model of  *)
(* the generator writes the same is assumed below, and so checked before a  *)
(* run begins.                                                              *)
(***************************************************************************)
EXTENDS GeneratedTree, BlogSchema

MCRank  == AlphabetRank

ModRsName   == <<W("mod")>>
MCFileNames == {ModRsName, Posts, Users, Factories}
File(name, text) == [name |-> name, text |-> text]

MCTexts    == 1..11
MCRefusals == {<<1, 3>>, <<2, 2>>}
QueryFiles == <<File(ModRsName, 6), File(Posts, 7)>>
MCOutput ==
    <<<<<<File(ModRsName, 1), File(Posts, 2), File(Users, 3)>>,
        <<File(ModRsName, 4), File(Users, 5)>>,
        <<>>,
        <<File(ModRsName, 8), File(Factories, 9), File(Posts, 10), File(Factories, 11)>>>>,
      <<QueryFiles, <<>>, QueryFiles, QueryFiles>>>>

-----------------------------------------------------------------------------
\* What the model of the generator writes for the four catalogs.

shape(n) == CHOOSE s \in BlogShapes["psql"] : s.name = n
Authored == [shape(Posts) EXCEPT !.foreign_keys = <<Ref(Posts, <<AuthorId>>, Users, <<Id>>).key>>]
NoType  == [Authored EXCEPT !.columns = Append(@, Column(<<W("place")>>, <<"point">>, TRUE))]
Makers  == [shape(Legacy) EXCEPT !.name = Factories]
Schemas == <<<<Authored, shape(Users)>>, <<shape(Users)>>, <<NoType, shape(Users)>>,
             <<Makers, shape(Posts)>>>>
Making  == [Sql EXCEPT !.factories = TRUE]
Config  == <<Sql, Sql, Sql, Making>>
Answers == [c \in 1..4 |-> ResolveAll(Schemas[c], Config[c])]

Listed(c) == SelectSeq(<<Factories, Posts, Users>>, LAMBDA n : n \in DOMAIN Answers[c].models)
ModelFiles(c) ==
    <<File(ModRsName, <<"mod", ModRs(Answers[c].models, Config[c])>>)>>
    \o [i \in DOMAIN Listed(c) |->
          File(Listed(c)[i],
               <<"model", ModelFile(Answers[c].models[Listed(c)[i]], Answers[c].models, "psql")>>)]
    \o (IF Config[c].factories THEN <<File(Factories, <<"factories", Answers[c].models>>)>> ELSE <<>>)

ASSUME NumberedAsGenerated ==
    /\ \A c \in 1..4 : Refuses(1, c) <=> Answers[c].refusals # {}
    /\ LET models == [c \in {1, 2, 4} |-> ModelFiles(c)]
       IN  \A c, d \in {1, 2, 4} :
             /\ DOMAIN models[c] = DOMAIN Files(1, c)
             /\ \A i \in DOMAIN models[c] : models[c][i].name = Files(1, c)[i].name
             /\ \A i \in DOMAIN models[c], j \in DOMAIN models[d] :
                  models[c][i].text = models[d][j].text <=> Files(1, c)[i].text = Files(1, d)[j].text

============================================================================
