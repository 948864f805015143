---------------------------- MODULE MCContainers ----------------------------
(* A small instance of Containers for TLC.  The strings are empty, one      *)
(* character, two, and three of which a shorter one is the end.             *)
EXTENDS Containers

CONSTANTS v1, v2

MCStrings == {<<>>, <<"a">>, <<"a", "b">>, <<"a", "a", "b">>}
MCIndices == -(MaxLen + 1) .. MaxLen + 1
=============================================================================
