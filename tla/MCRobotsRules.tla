--------------------------- MODULE MCRobotsRules ---------------------------
(* Instances of RobotsRules for TLC: three paths, each a prefix of the     *)
(* next.                                                                   *)
EXTENDS RobotsRules

NestedPaths == {<<>>, <<"private">>, <<"private", "public">>}
=============================================================================
