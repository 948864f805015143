------------------------------ MODULE MCScopes ------------------------------
(* Small instances of Scopes for TLC.                                        *)
EXTENDS Scopes
=============================================================================
