------------------------------- MODULE Names -------------------------------
(***************************************************************************)
(* keelson-gen's naming (names.rs).  A snake_case name is the sequence of   *)
(* its words, a word the pair of its stem and its ending: "post_tags" is    *)
(* <<<<"post", "">>, <<"tag", "s">>>>.  Words are compared as these pairs,  *)
(* so a word is always split at the first ending of Singulars it has.       *)
(***************************************************************************)
EXTENDS Sequences, SequencesExt

Unnamed == <<>>

\* f[k], where f may have nothing under k.
Lookup(f, k, default) == IF k \in DOMAIN f THEN f[k] ELSE default

\* Plural ending -> what takes its place.
Singulars ==
    [ies  |-> "y",  sses |-> "ss", shes |-> "sh", ches |-> "ch", xes |-> "x",
     zes  |-> "ze", uses |-> "us", oes  |-> "o",  ss   |-> "ss", s   |-> ""]

SingularWord(word) == <<word[1], Lookup(Singulars, word[2], word[2])>>

\* inflections: the irregular plurals, whole names or last words.
Singular(name, inflections) ==
    IF name \in DOMAIN inflections THEN inflections[name]
    ELSE Front(name) \o Lookup(inflections, <<Last(name)>>, <<SingularWord(Last(name))>>)

\* An identifier in PascalCase: equal for two names exactly when the names are.
Pascal(name) == <<"Pascal", name>>

============================================================================
