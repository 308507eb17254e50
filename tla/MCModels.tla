------------------------------ MODULE MCModels ------------------------------
(***************************************************************************)
(* Every order in which a blog's schema can come to be.                     *)
(***************************************************************************)
EXTENDS Models, BlogSchema

MCRank       == AlphabetRank
MCShapes     == BlogShapes
MCReferences == BlogReferences
MCConfigs    == BlogConfigs

============================================================================
